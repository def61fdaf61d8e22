------------------------- MODULE JobQueueRefinement -------------------------
(***************************************************************************)
(* JobStore implements JobQueue: a row of the table jobs is an entry of    *)
(* the queue, attempt_count its run number; attempts, leases, revisions,   *)
(* checkpoints and prepared controls are not visible to the queue's users. *)
(***************************************************************************)
EXTENDS JobStore

StateOfRow(status) ==
    CASE status = "queued" -> "waiting"
      [] status = "running" -> "held"
      [] status = "cancel_requested" -> "asked"
      [] status = "deleted" -> "gone"
      [] OTHER -> status

EntryOf(r) == [state |-> StateOfRow(r.status), runs |-> r.attemptCount,
               key |-> r.key, mode |-> r.policy]

Entries == [j \in Jobs |-> EntryOf(jobs[j])]

Queue == INSTANCE JobQueue WITH entries <- Entries

\* Every transaction of the store is a step of the queue it promises, or
\* changes nothing its users see: an occurrence is accepted once per key, a
\* Job is held once at a time under a run number of its own, a cancellation
\* is never undone by the holder, and only an operator reopens a result.
ImplementsQueue == Queue!Spec
=============================================================================
