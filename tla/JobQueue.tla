------------------------------ MODULE JobQueue ------------------------------
(***************************************************************************)
(* What the durable Job store promises to the code that enqueues and runs  *)
(* Jobs (server/app/job/doc.go, store.JobStore): an occurrence is accepted *)
(* once, a Job has at most one holder, whose run number fences it, a lost  *)
(* holder's Job comes back, and a result stays.  JobStore implements it;   *)
(* SittingSealing is written against it.                                   *)
(***************************************************************************)
EXTENDS Naturals

CONSTANTS Jobs, Keys

VARIABLE entries    \* per Job: its state, runs so far, key and dedupe mode

Ended == {"succeeded", "failed", "canceled"}
Held == {"held", "asked"}
Pending == {"waiting"} \cup Held
States == {"absent", "gone"} \cup Pending \cup Ended
Modes == {"active", "permanent"}
NoKey == "none"

Entry == [state : States, runs : Nat, key : Keys \cup {NoKey}, mode : Modes]

AbsentEntry == [state |-> "absent", runs |-> 0, key |-> NoKey, mode |-> "active"]

StateOf(j) == entries[j].state

\* The keys a new Job of the mode may not have.
Taken(k, mode) ==
    \E j \in Jobs : /\ StateOf(j) # "absent"
                    /\ entries[j].key = k /\ entries[j].mode = mode
                    /\ mode = "active" => StateOf(j) \in Pending

Offer(j, k, mode) ==
    /\ StateOf(j) = "absent"
    /\ ~Taken(k, mode)
    /\ entries' = [entries EXCEPT ![j] = [state |-> "waiting", runs |-> 0,
                                          key |-> k, mode |-> mode]]

\* A lost holder's Job is tried again or ends; one asked to cancel ends.
LapseTo(j, state) ==
    \/ StateOf(j) = "held" /\ state \in {"waiting", "failed"}
    \/ StateOf(j) = "asked" /\ state = "canceled"

Lapsing(S, to) ==
    /\ \A j \in S : LapseTo(j, to[j])
    /\ entries' = [j \in Jobs |-> IF j \in S THEN [entries[j] EXCEPT !.state = to[j]]
                                  ELSE entries[j]]

Lapse == \E S \in SUBSET Jobs : \E to \in [S -> {"waiting"} \cup Ended] : Lapsing(S, to)

\* The entry of a Job that is taken, under its next run number.
Run(e) == [state |-> "held", runs |-> e.runs + 1, key |-> e.key, mode |-> e.mode]

\* One waiting Job is taken; any lost holders are dealt with on the way.
TakeLapsing(j, S, to) ==
    /\ StateOf(j) = "waiting"
    /\ j \notin S
    /\ \A i \in S : LapseTo(i, to[i])
    /\ entries' = [i \in Jobs |->
                     IF i = j THEN Run(entries[i])
                     ELSE IF i \in S THEN [entries[i] EXCEPT !.state = to[i]]
                     ELSE entries[i]]

TakeAmidLapses(j) ==
    \E S \in SUBSET Jobs : \E to \in [S -> {"waiting"} \cup Ended] : TakeLapsing(j, S, to)

SetState(j, state) == entries' = [entries EXCEPT ![j].state = state]

Take(j) ==
    /\ StateOf(j) = "waiting"
    /\ entries' = [entries EXCEPT ![j] = Run(@)]

\* The holder hands the Job back, to be run again.
Return(j) == StateOf(j) = "held" /\ SetState(j, "waiting")

Settle(j, result) ==
    StateOf(j) \in Held /\ result \in Ended /\ SetState(j, result)

Cancel(j) ==
    \/ StateOf(j) = "waiting" /\ SetState(j, "canceled")
    \/ StateOf(j) = "held" /\ SetState(j, "asked")

Reopen(j) ==
    /\ StateOf(j) \in {"failed", "canceled"}
    /\ entries[j].mode = "active" => ~Taken(entries[j].key, "active")
    /\ SetState(j, "waiting")

Forget(page) ==
    /\ \A j \in page : StateOf(j) \in Ended
    /\ entries' = [j \in Jobs |-> IF j \in page THEN [entries[j] EXCEPT !.state = "gone"]
                                  ELSE entries[j]]

Init == entries = [j \in Jobs |-> AbsentEntry]

Next ==
    \/ \E j \in Jobs, k \in Keys, mode \in Modes : Offer(j, k, mode)
    \/ Lapse
    \/ \E j \in Jobs : \/ TakeAmidLapses(j) \/ Return(j) \/ Cancel(j) \/ Reopen(j)
                       \/ \E result \in Ended : Settle(j, result)
    \/ \E page \in SUBSET Jobs : Forget(page)

Spec == Init /\ [][Next]_entries

=============================================================================
