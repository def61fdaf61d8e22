---------------------------- MODULE SecretRekey ----------------------------
(***************************************************************************)
(* Rotation of the key that seals persisted secrets: the primary-key fence *)
(* every writer locks, the operation that moves it, and the durable Job    *)
(* that seals what is left under the new primary and proves that nothing   *)
(* needs another key.  The program has it twice, for mail payloads         *)
(* (server/store/sqlstore/mail_rekey_store.go with                         *)
(* server/app/jobhandler/mail_rekey.go) and for MFA secrets                *)
(* (mfa_rekey_store.go with mfa_rekey.go).  The two differ where Mail is   *)
(* tested: the mail store counts references in a table of its own, its     *)
(* replacement reads the fence without locking it, its page query is       *)
(* fenced by an empty result, and a node refuses to start with a primary   *)
(* that is neither required nor proven replaceable.                        *)
(*                                                                         *)
(* A transaction that locks the fence is two steps, so that everything it  *)
(* does not exclude may come between them.                                 *)
(***************************************************************************)
EXTENDS Integers, FiniteSets, FiniteSetsExt

CONSTANTS
    Nodes,            \* server nodes; each writes, and runs at most one attempt
    Keys,             \* key IDs; every ring can open all of them
    Secrets,          \* identities of sealed rows: a set of numbers, their order
    PageSize,
    MaximumAttempts,  \* of a rekey Job
    Mail,             \* the mail payloads; otherwise the MFA secrets
    None,             \* no key is required yet
    MaxJobs,          \* bound: rotations
    MaxRestarts       \* bound: restarts with another configured primary

ASSUME SecretRekeyAssumption ==
    /\ Secrets \subseteq Nat \ {0} /\ IsFiniteSet(Secrets)
    /\ PageSize \in Nat \ {0} /\ MaximumAttempts \in Nat \ {0}
    /\ Mail \in BOOLEAN /\ None \notin Keys
    /\ "unused" \notin Keys /\ "gone" \notin Keys
    /\ MaxJobs \in Nat /\ MaxRestarts \in Nat

VARIABLES
    sealed,     \* per row: the key it is sealed with, unused, or gone
    refs,       \* mail_payload_keys: active_references per key
    fence,      \* the singleton row of the key state
    jobs,       \* the rekey Jobs
    primary,    \* per node: the primary its process is configured with
    write,      \* per node: the key of an open insertion, which holds the
                \* shared lock of the fence
    run,        \* per node: the handler's locals
    restarts

vars == <<sealed, refs, fence, jobs, primary, write, run, restarts>>

Jobs == 1 .. MaxJobs
Active == {"queued", "running"}
Idle == [pc |-> "idle", job |-> 0, attempt |-> 0, after |-> 0, processed |-> 0,
         total |-> 0, page |-> {}, more |-> FALSE, outcome |-> "none"]
NoJob == [status |-> "absent", primary |-> None, attempts |-> 0, maximum |-> 0,
          after |-> 0, processed |-> 0, declined |-> {}]

\* Rows sealed with a key, and those of them that need another than k.
Under(k) == {s \in Secrets : sealed[s] = k}
NotUnder(k) == {s \in Secrets : sealed[s] \in Keys \ {k}}

Init ==
    /\ sealed \in [Secrets -> Keys \cup {"unused"}]
    /\ refs = [k \in Keys |-> IF Mail THEN Cardinality(Under(k)) ELSE 0]
    /\ fence = [required |-> None, job |-> 0]
    /\ jobs = [j \in Jobs |-> NoJob]
    /\ primary \in [Nodes -> Keys]
    /\ write = [n \in Nodes |-> None]
    /\ run = [n \in Nodes |-> Idle]
    /\ restarts = 0

----------------------------------------------------------------------------
(* References: the mail store keeps them, the MFA store counts rows.       *)

\* The references after a row moves from old to new.
Counted(old, new) ==
    IF ~Mail THEN refs
    ELSE [k \in Keys |-> refs[k] + (IF k = new THEN 1 ELSE 0) - (IF k = old THEN 1 ELSE 0)]

References(k) == IF Mail THEN refs[k] ELSE Cardinality(Under(k))
NonPrimaryReferences(k) ==
    IF Mail THEN MapThenSumSet(LAMBDA x : refs[x], Keys \ {k})
    ELSE Cardinality(NotUnder(k))

----------------------------------------------------------------------------
(* Writers of sealed rows *)

\* Mutated form: the fence is read at insertion and not locked after it.
HoldsFenceNever(n) == FALSE
\* The shared lock: an open insertion, and a replacement of the MFA store.
HoldsFence(n) == write[n] # None \/ (~Mail /\ run[n].pc = "replace")

\* requireMailPayloadPrimary, requireMFASecretPrimary
OpenWrite(n) ==
    /\ write[n] = None
    /\ fence.required \in {None, primary[n]}
    /\ write' = [write EXCEPT ![n] = primary[n]]
    /\ UNCHANGED <<sealed, refs, fence, jobs, primary, run, restarts>>

CommitWrite(n, s) ==
    /\ write[n] # None /\ sealed[s] = "unused"
    /\ sealed' = [sealed EXCEPT ![s] = write[n]]
    /\ refs' = Counted("unused", write[n])
    /\ write' = [write EXCEPT ![n] = None]
    /\ UNCHANGED <<fence, jobs, primary, run, restarts>>

AbortWrite(n) ==
    /\ write[n] # None /\ write' = [write EXCEPT ![n] = None]
    /\ UNCHANGED <<sealed, refs, fence, jobs, primary, run, restarts>>

\* The payload is destroyed or the credential archived; no fence is asked.
Destroy(s) ==
    /\ sealed[s] \in Keys
    /\ sealed' = [sealed EXCEPT ![s] = "gone"]
    /\ refs' = Counted(sealed[s], "gone")
    /\ UNCHANGED <<fence, jobs, primary, write, run, restarts>>

----------------------------------------------------------------------------
(* Moving the fence *)

\* completedMailRekeyAllowsPromotion with the references that remain
Proven(k) ==
    /\ fence.job # 0 /\ jobs[fence.job].status = "succeeded"
    /\ jobs[fence.job].primary = k
    /\ NonPrimaryReferences(k) = 0

StartRekey(n, j) ==
    /\ jobs[j] = NoJob /\ (j > 1 => jobs[j - 1] # NoJob)
    /\ \A m \in Nodes : ~HoldsFence(m)
    /\ fence.job # 0 => jobs[fence.job].status \notin Active
    /\ fence.required \in {None, primary[n]} \/ Proven(fence.required)
    /\ jobs' = [jobs EXCEPT ![j] = [NoJob EXCEPT !.status = "queued",
                   !.primary = primary[n], !.maximum = MaximumAttempts]]
    /\ fence' = [required |-> primary[n], job |-> j]
    /\ UNCHANGED <<sealed, refs, primary, write, run, restarts>>

\* checkMailPayloadKeys at construction; the MFA check asks for the ring only.
Restart(n, k) ==
    /\ restarts < MaxRestarts /\ restarts' = restarts + 1
    /\ k # primary[n] /\ write[n] = None
    /\ Mail => fence.required \in {None, k} \/ Proven(fence.required)
    /\ primary' = [primary EXCEPT ![n] = k]
    /\ run' = [run EXCEPT ![n] = Idle]
    /\ UNCHANGED <<sealed, refs, fence, jobs, write>>

----------------------------------------------------------------------------
(* The Job's attempts.  A claim is identified by its number; a handler     *)
(* whose lease lapsed goes on until a call of its own refuses it.          *)

Claim(n, j) ==
    /\ run[n].pc = "idle" /\ jobs[j].status = "queued"
    /\ jobs[j].attempts < jobs[j].maximum /\ n \notin jobs[j].declined
    /\ jobs' = [jobs EXCEPT ![j].status = "running", ![j].attempts = @ + 1]
    /\ run' = [run EXCEPT ![n] = [Idle EXCEPT !.pc = "begin", !.job = j,
                   !.attempt = jobs[j].attempts + 1, !.after = jobs[j].after,
                   !.processed = jobs[j].processed]]
    /\ UNCHANGED <<sealed, refs, fence, primary, write, restarts>>

\* Mutated form: only a Job that has an attempt left is recovered.
LapseWithAttempts(j) ==
    /\ jobs[j].status = "running" /\ jobs[j].attempts < jobs[j].maximum
    /\ jobs' = [jobs EXCEPT ![j].status = "queued"]
    /\ UNCHANGED <<sealed, refs, fence, primary, write, run, restarts>>

Lapse(j) ==
    /\ jobs[j].status = "running"
    /\ jobs' = [jobs EXCEPT ![j].status =
                   IF jobs[j].attempts >= jobs[j].maximum THEN "failed" ELSE "queued"]
    /\ UNCHANGED <<sealed, refs, fence, primary, write, run, restarts>>

Command(n) == jobs[run[n].job]
Holds(n) == Command(n).status = "running" /\ Command(n).attempts = run[n].attempt
IsFenced(n) == fence = [required |-> Command(n).primary, job |-> run[n].job]

Return(n, outcome) ==
    run' = [run EXCEPT ![n] = [Idle EXCEPT !.pc = "finish", !.job = run[n].job,
                                           !.attempt = run[n].attempt, !.outcome = outcome]]
Rest == <<fence, jobs, primary, write, restarts>>

\* Any call may fail with the dependency unavailable.
Fail(n) ==
    /\ run[n].pc \in {"begin", "list", "check", "replace", "checkpoint", "prove"}
    /\ Return(n, "retryable")
    /\ UNCHANGED <<sealed, refs, Rest>>

\* Another primary relinquishes; otherwise the first proof sizes the work.
Begin(n) ==
    /\ run[n].pc = "begin"
    /\ \/ Command(n).primary # primary[n] /\ Return(n, "relinquished")
       \/ Command(n).primary = primary[n] /\ ~IsFenced(n) /\ Return(n, "permanent")
       \/ /\ Command(n).primary = primary[n] /\ IsFenced(n)
          /\ run' = [run EXCEPT ![n].pc = "list",
                        ![n].total = run[n].processed + NonPrimaryReferences(primary[n])]
    /\ UNCHANGED <<sealed, refs, Rest>>

\* The first targets after the checkpoint, in the order of identity.
Page(n) ==
    LET targets == {s \in NotUnder(primary[n]) : s > run[n].after} IN
    {s \in targets : Cardinality({t \in targets : t < s}) < PageSize}

ListTargets(n) ==
    LET page == IF IsFenced(n) THEN Page(n) ELSE {} IN
    /\ run[n].pc = "list"
    /\ IF ~Mail /\ ~IsFenced(n) THEN Return(n, "permanent")
       ELSE run' = [run EXCEPT
                ![n].page = {[row |-> s, key |-> sealed[s]] : s \in page},
                ![n].more = \E s \in NotUnder(primary[n]) \ page : s > run[n].after,
                ![n].pc = IF page = {} THEN "prove" ELSE "check"]
    /\ UNCHANGED <<sealed, refs, Rest>>

Target(n) == CHOOSE t \in run[n].page : \A u \in run[n].page : t.row <= u.row

\* The replacement's transaction reads the fence ...
CheckFence(n) ==
    /\ run[n].pc = "check"
    /\ IF IsFenced(n) THEN run' = [run EXCEPT ![n].pc = "replace"]
                      ELSE Return(n, "permanent")
    /\ UNCHANGED <<sealed, refs, Rest>>

\* Mutated form: the row is replaced whatever key it has now.
ReplaceBlindly(n) ==
    /\ run[n].pc = "replace"
    /\ sealed' = [sealed EXCEPT ![Target(n).row] = primary[n]]
    /\ refs' = Counted(Target(n).key, primary[n])
    /\ run' = [run EXCEPT ![n].pc = "checkpoint", ![n].after = Target(n).row,
                          ![n].processed = @ + 1, ![n].page = @ \ {Target(n)}]
    /\ UNCHANGED Rest

\* ... and then replaces the row if it still has the key that was listed.
Replace(n) ==
    /\ run[n].pc = "replace"
    /\ IF sealed[Target(n).row] = Target(n).key
       THEN /\ sealed' = [sealed EXCEPT ![Target(n).row] = primary[n]]
            /\ refs' = Counted(Target(n).key, primary[n])
       ELSE UNCHANGED <<sealed, refs>>
    /\ run' = [run EXCEPT ![n].pc = "checkpoint", ![n].after = Target(n).row,
                          ![n].processed = @ + 1, ![n].page = @ \ {Target(n)}]
    /\ UNCHANGED Rest

\* The checkpoint of a lost claim is refused; checkpointMailRekey also refuses
\* one past its total, while the MFA handler raises the total instead.
Checkpoint(n) ==
    /\ run[n].pc = "checkpoint"
    /\ IF Holds(n) /\ (Mail => run[n].processed <= run[n].total)
       THEN /\ jobs' = [jobs EXCEPT ![run[n].job].after = run[n].after,
                                    ![run[n].job].processed = run[n].processed]
            /\ run' = [run EXCEPT ![n].pc = IF run[n].page # {} THEN "check"
                                            ELSE IF run[n].more THEN "list" ELSE "prove"]
       ELSE Return(n, "retryable") /\ UNCHANGED jobs
    /\ UNCHANGED <<sealed, refs, fence, primary, write, restarts>>

Prove(n) ==
    /\ run[n].pc = "prove"
    /\ Return(n, CASE ~IsFenced(n) -> "permanent"
                   [] IsFenced(n) /\ NonPrimaryReferences(primary[n]) # 0 -> "retryable"
                   [] OTHER -> "succeeded")
    /\ UNCHANGED <<sealed, refs, Rest>>

\* Job.Relinquish gives the attempt back and remembers the node.
Finished(j, n, outcome) ==
    CASE outcome = "succeeded" -> [j EXCEPT !.status = "succeeded"]
      [] outcome = "relinquished" -> [j EXCEPT !.status = "queued", !.maximum = @ + 1,
                                               !.declined = @ \cup {n}]
      [] outcome = "retryable" /\ j.attempts < j.maximum -> [j EXCEPT !.status = "queued"]
      [] OTHER -> [j EXCEPT !.status = "failed"]

Finish(n) ==
    /\ run[n].pc = "finish"
    /\ jobs' = IF Holds(n)
               THEN [jobs EXCEPT ![run[n].job] = Finished(@, n, run[n].outcome)]
               ELSE jobs
    /\ run' = [run EXCEPT ![n] = Idle]
    /\ UNCHANGED <<sealed, refs, fence, primary, write, restarts>>

Handler(n) ==
    \/ Begin(n) \/ ListTargets(n) \/ CheckFence(n) \/ Replace(n) \/ Checkpoint(n)
    \/ Prove(n) \/ Finish(n) \/ Fail(n)

\* The process is gone; an open transaction of it is rolled back.
Lose(n) ==
    /\ run[n].pc # "idle" \/ write[n] # None
    /\ run' = [run EXCEPT ![n] = Idle] /\ write' = [write EXCEPT ![n] = None]
    /\ UNCHANGED <<sealed, refs, fence, jobs, primary, restarts>>

Next ==
    \/ \E n \in Nodes :
         \/ OpenWrite(n) \/ AbortWrite(n) \/ Handler(n) \/ Lose(n)
         \/ \E s \in Secrets : CommitWrite(n, s)
         \/ \E j \in Jobs : StartRekey(n, j) \/ Claim(n, j)
         \/ \E k \in Keys : Restart(n, k)
    \/ \E s \in Secrets : Destroy(s)
    \/ \E j \in Jobs : Lapse(j)

Spec == Init /\ [][Next]_vars

\* Engines claim and recover, and handlers return.
FairSpec ==
    /\ Spec
    /\ \A n \in Nodes : WF_vars(Handler(n))
    /\ \A j \in Jobs : WF_vars(Lapse(j))
    /\ WF_vars(\E n \in Nodes, j \in Jobs : Claim(n, j))

----------------------------------------------------------------------------
(* Properties *)

Claims == [row : Secrets, key : Keys]
Run == [pc : {"idle", "begin", "list", "check", "replace", "checkpoint", "prove", "finish"},
        job : 0 .. MaxJobs, attempt : Nat, after : Nat, processed : Nat, total : Nat,
        page : SUBSET Claims, more : BOOLEAN,
        outcome : {"none", "retryable", "permanent", "relinquished", "succeeded"}]
RekeyJob == [status : {"absent", "queued", "running", "succeeded", "failed"},
             primary : Keys \cup {None}, attempts : Nat, maximum : Nat,
             after : Nat, processed : Nat, declined : SUBSET Nodes]

TypeOK ==
    /\ sealed \in [Secrets -> Keys \cup {"unused", "gone"}]
    /\ refs \in [Keys -> Nat]
    /\ fence \in [required : Keys \cup {None}, job : 0 .. MaxJobs]
    /\ jobs \in [Jobs -> RekeyJob]
    /\ primary \in [Nodes -> Keys] /\ write \in [Nodes -> Keys \cup {None}]
    /\ run \in [Nodes -> Run] /\ restarts \in 0 .. MaxRestarts

\* The retiring key can be taken out of the ring once the rekey succeeded:
\* from then until the next rekey starts, no sealed row needs any key but
\* the primary, whatever insertions, handlers that lost their lease and
\* nodes with another primary are still under way.  For mail payloads this
\* is said of the first rotation only: ReplaceRekeyTarget reads the fence
\* without locking it, so a handler left over from one rotation can undo the
\* next.  For MFA secrets it is said of every rotation.
ProofStands ==
    fence.job # 0 /\ (Mail => fence.job = 1) /\ jobs[fence.job].status = "succeeded"
        => NotUnder(fence.required) = {}

\* While the fence requires a primary, rows under other keys only get fewer.
NonPrimaryShrinks ==
    [][fence.required # None /\ fence' = fence
         => NotUnder(fence.required)' \subseteq NotUnder(fence.required)]_vars

\* mail_payload_keys counts the rows of each key exactly: it is all the
\* proof, and the startup check of the key ring, ever look at.
ReferencesExact == \A k \in Keys : References(k) = Cardinality(Under(k))

\* A rekey that was started comes to its end.
RekeyEnds == \A j \in Jobs :
    jobs[j].status = "queued" ~> jobs[j].status \in {"succeeded", "failed"}

=============================================================================
