--------------------------- MODULE SittingSealing ---------------------------
(***************************************************************************)
(* Sealing the Attempts of one Closing Sitting                             *)
(* (server/app/jobhandler/exam_sitting_sealing.go), over the Job store's   *)
(* promise JobQueue.  A sealing Job may seal Budget Attempts in all its    *)
(* runs together; every unit is reserved durably before the Attempt is     *)
(* sealed and checkpointed after it, and a Job out of units hands over to  *)
(* one continuation.  A run may lose its Job at any point and go on until  *)
(* its next fenced call: then two runs of one Job overlap.                 *)
(***************************************************************************)
EXTENDS Integers, FiniteSets

CONSTANTS Chain,        \* the sealing Jobs, 1 the finalize Job, i+1 what i continues as
          Attempts,     \* the Sitting's Attempts, positive integers in id order
          Workers,
          Budget,       \* examSittingSealingMaximumWork
          PageSize,     \* examSittingSealingPageSize
          MaximumAttempts,
          MaxTrouble    \* bound on lost runs and failed calls

ASSUME SittingSealingAssumption ==
    /\ Chain \subseteq Nat \ {0} /\ 1 \in Chain
    /\ Attempts \subseteq Nat \ {0} /\ IsFiniteSet(Attempts)
    /\ Budget \in Nat \ {0} /\ PageSize \in Nat \ {0} /\ MaximumAttempts \in Nat \ {0}

VARIABLES entries,      \* of JobQueue
          sealed,       \* Attempts submitted with a sealed Submission
          state,        \* of the Sitting
          reserved,     \* per Job: work_reserved
          saved,        \* per Job: the checkpoint, <<AfterAttemptID, Processed>>
          run,          \* per worker: the execution it carries
          troubles      \* so far

vars == <<entries, sealed, state, reserved, saved, run, troubles>>

\* A continuation's key names its parent Job and is never reused.
KeyOf(j) == j
Queue == INSTANCE JobQueue WITH Jobs <- Chain, Keys <- Chain

NoRun == [job |-> 0, number |-> 0, pc |-> "idle", after |-> 0, processed |-> 0,
          left |-> 0, page |-> {}, full |-> FALSE]

PCs == {"idle", "check", "list", "next", "seal", "checkpoint", "finish", "finishShort",
        "continue", "succeed", "invalid"}

TypeOK ==
    /\ sealed \subseteq Attempts
    /\ state \in {"closing", "closed"}
    /\ reserved \in [Chain -> 0..Budget]
    /\ \A j \in Chain : saved[j] \in ({0} \cup Attempts) \X (0..Budget)
    /\ \A w \in Workers : run[w].pc \in PCs /\ run[w].page \subseteq Attempts
    /\ troubles \in 0..MaxTrouble

Init ==
    /\ entries = [j \in Chain |-> IF j = 1
                    THEN [Queue!AbsentEntry EXCEPT !.state = "waiting", !.key = 1]
                    ELSE Queue!AbsentEntry]
    /\ sealed \in SUBSET Attempts
    /\ state = "closing"
    /\ reserved = [j \in Chain |-> 0]
    /\ saved = [j \in Chain |-> <<0, 0>>]
    /\ run = [w \in Workers |-> NoRun]
    /\ troubles = 0

-----------------------------------------------------------------------------

At(w, pc) == run[w].pc = pc
Goto(w, pc) == run' = [run EXCEPT ![w].pc = pc]

\* The claim token of the run still owns the Job: every Job store call is fenced.
Owns(w) ==
    /\ entries[run[w].job].state = "held"
    /\ entries[run[w].job].runs = run[w].number

\* The run returns with a retryable failure, or is lost with its node.
Fails(j) ==
    \/ entries[j].runs < MaximumAttempts /\ Queue!Return(j)
    \/ entries[j].runs = MaximumAttempts /\ Queue!Settle(j, "failed")

Claim(w, j) ==
    /\ At(w, "idle")
    /\ Queue!Take(j)
    /\ run' = [run EXCEPT ![w] =
          [NoRun EXCEPT !.job = j, !.number = entries[j].runs + 1, !.pc = "check",
                        !.after = saved[j][1], !.processed = saved[j][2],
                        !.left = Budget - reserved[j]]]
    /\ UNCHANGED <<sealed, state, reserved, saved, troubles>>

\* What the claim returned of the Job's row.
Reserved(w) == Budget - run[w].left

Burn(w, after) ==
    /\ Owns(w)
    /\ saved' = [saved EXCEPT ![run[w].job] = <<after, run[w].processed + 1>>]
    /\ run' = [run EXCEPT ![w].after = after, ![w].processed = @ + 1, ![w].pc = "list"]

\* Mutated form: the uncertain unit is not burned.
CheckUnburned(w) ==
    /\ At(w, "check")
    /\ Goto(w, IF Reserved(w) \in {run[w].processed, run[w].processed + 1} THEN "list"
                ELSE "invalid")
    /\ UNCHANGED <<entries, sealed, state, reserved, saved, troubles>>
\* Mutated form: the uncertain unit is burned and the next Attempt with it.
CheckSkipping(w) ==
    /\ At(w, "check")
    /\ \/ Reserved(w) = run[w].processed /\ Goto(w, "list") /\ UNCHANGED saved
       \/ Reserved(w) = run[w].processed + 1 /\ Burn(w, run[w].after + 1)
    /\ UNCHANGED <<entries, sealed, state, reserved, troubles>>
\* Run(): the row's reservation and checkpoint are compared; a reserved unit
\* whose seal was not checkpointed is burned, the cursor stays.
Check(w) ==
    /\ At(w, "check")
    /\ CASE Reserved(w) = run[w].processed -> Goto(w, "list") /\ UNCHANGED saved
         [] Reserved(w) = run[w].processed + 1 -> Burn(w, run[w].after)
         [] OTHER -> Goto(w, "invalid") /\ UNCHANGED saved
    /\ UNCHANGED <<entries, sealed, state, reserved, troubles>>

\* The first n members of S, in id order.
First(S, n) == {a \in S : Cardinality({b \in S : b < a}) < n}

\* ListAutomaticSealTargets: unsubmitted Attempts after the cursor.
List(w) ==
    LET limit == IF run[w].left < PageSize THEN run[w].left ELSE PageSize
        page == First({a \in Attempts \ sealed : a > run[w].after}, limit) IN
    /\ At(w, "list")
    /\ \/ run[w].left = 0 /\ Goto(w, "finish")
       \/ run[w].left > 0 /\ page = {} /\ Goto(w, "finishShort")
       \/ /\ run[w].left > 0 /\ page # {}
          /\ run' = [run EXCEPT ![w].page = page, ![w].full = Cardinality(page) = limit,
                                ![w].pc = "next"]
    /\ UNCHANGED <<entries, sealed, state, reserved, saved, troubles>>

Reserve(w) ==
    LET j == run[w].job IN
    /\ At(w, "next")
    /\ Owns(w)
    /\ IF reserved[j] < Budget
       THEN reserved' = [reserved EXCEPT ![j] = @ + 1] /\ Goto(w, "seal")
       ELSE UNCHANGED reserved /\ Goto(w, "finish")
    /\ UNCHANGED <<entries, sealed, state, saved, troubles>>

\* SealExamAttemptForSittingClose is a domain transaction, not fenced by the Job.
Seal(w) ==
    /\ At(w, "seal")
    /\ sealed' = sealed \cup First(run[w].page, 1)
    /\ Goto(w, "checkpoint")
    /\ UNCHANGED <<entries, state, reserved, saved, troubles>>

Checkpoint(w) ==
    /\ At(w, "checkpoint")
    /\ Owns(w)
    /\ \E a \in First(run[w].page, 1) :
         LET rest == run[w].page \ {a} IN
         /\ saved' = [saved EXCEPT ![run[w].job] = <<a, run[w].processed + 1>>]
         /\ run' = [run EXCEPT ![w].after = a, ![w].processed = @ + 1, ![w].left = @ - 1,
                      ![w].page = rest,
                      ![w].pc = IF run[w].left > 1 /\ rest # {} THEN "next"
                                ELSE IF run[w].full THEN "list" ELSE "finishShort"]
    /\ UNCHANGED <<entries, sealed, state, reserved, troubles>>

\* FinishSealing closes the Sitting once no Attempt is unfinished.
Finish(w) ==
    /\ run[w].pc \in {"finish", "finishShort"}
    /\ state' = IF sealed = Attempts THEN "closed" ELSE state
    /\ IF state' = "closing" /\ At(w, "finishShort")
       THEN /\ run' = [run EXCEPT ![w] = NoRun]
            /\ IF Owns(w) THEN Fails(run[w].job) ELSE UNCHANGED entries
       ELSE /\ Goto(w, IF state' = "closed" THEN "succeed" ELSE "continue")
            /\ UNCHANGED entries
    /\ UNCHANGED <<sealed, reserved, saved, troubles>>

\* Enqueue returns the Job that already has the key, whatever became of it.
Continue(w) ==
    LET next == run[w].job + 1 IN
    /\ At(w, "continue")
    /\ next \in Chain
    /\ \/ Queue!Offer(next, KeyOf(next), "permanent")
       \/ Queue!Taken(KeyOf(next), "permanent") /\ UNCHANGED entries
    /\ Goto(w, "succeed")
    /\ UNCHANGED <<sealed, state, reserved, saved, troubles>>

Complete(w) ==
    /\ run[w].pc \in {"succeed", "invalid"}
    /\ Owns(w)
    /\ Queue!Settle(run[w].job, IF At(w, "succeed") THEN "succeeded" ELSE "failed")
    /\ run' = [run EXCEPT ![w] = NoRun]
    /\ UNCHANGED <<sealed, state, reserved, saved, troubles>>

\* A call of the run fails, before or after it committed, or its node dies.
Trouble(w) ==
    /\ ~At(w, "idle")
    /\ Owns(w)
    /\ troubles < MaxTrouble
    /\ troubles' = troubles + 1
    /\ Fails(run[w].job)
    /\ run' = [run EXCEPT ![w] = NoRun]
    /\ UNCHANGED <<sealed, state, reserved, saved>>

\* The lease lapses under a run that goes on.
Lapse(w) ==
    /\ ~At(w, "idle")
    /\ Owns(w)
    /\ troubles < MaxTrouble
    /\ troubles' = troubles + 1
    /\ Fails(run[w].job)
    /\ UNCHANGED <<sealed, state, reserved, saved, run>>

\* A fenced call tells the run that its Job is no longer its own.
Fenced(w) ==
    /\ run[w].pc \in {"check", "next", "checkpoint", "succeed", "invalid"}
    /\ ~Owns(w)
    /\ run' = [run EXCEPT ![w] = NoRun]
    /\ UNCHANGED <<entries, sealed, state, reserved, saved, troubles>>

Step(w) ==
    \/ Check(w) \/ List(w) \/ Reserve(w) \/ Seal(w) \/ Checkpoint(w)
    \/ Finish(w) \/ Continue(w) \/ Complete(w) \/ Fenced(w)

Next ==
    \E w \in Workers : \/ \E j \in Chain : Claim(w, j)
                       \/ Step(w)
                       \/ Trouble(w)
                       \/ Lapse(w)

Spec == Init /\ [][Next]_vars

\* A run takes its next step, and an idle worker claims what waits.
Fairness ==
    \A w \in Workers : WF_vars(Step(w)) /\ WF_vars(\E j \in Chain : Claim(w, j))

FairSpec == Spec /\ Fairness

-----------------------------------------------------------------------------
(* Properties.                                                             *)

\* Whatever is lost between a reservation, its seal and its checkpoint, and
\* though two runs overlap, a Job's row never shows more than one reserved unit
\* beyond its checkpoint, so no run rejects it ("reservation and checkpoint
\* disagree") and fails the Sitting's sealing for good.
ReservationAgrees == \A j \in Chain : reserved[j] - saved[j][2] \in {0, 1}

\* An Attempt at or before a checkpointed cursor is sealed: burning the
\* uncertain unit never steps over the Attempt it was reserved for.
CursorBehindSealed ==
    \A j \in Chain : \A a \in Attempts : a <= saved[j][1] => a \in sealed

\* Sealing ends: with fewer losses than attempts, the Sitting is closed, all
\* its Attempts sealed, after as many continuations as the budget requires.
SealingFinishes == <>[](state = "closed" /\ sealed = Attempts)

=============================================================================
