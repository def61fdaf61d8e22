----------------------------- MODULE ExamSitting -----------------------------
(***************************************************************************)
(* The life of Exam Sittings (server/model/exam_sitting.go and             *)
(* store/sqlstore/exam_sitting_store.go, exam_sitting_lifecycle_store.go)  *)
(* and the Jobs that carry it on: the open, deadline and finalize Jobs     *)
(* each write leaves behind, and the daily recovery pass.                  *)
(*                                                                         *)
(* A lifecycle Job first reads the Sitting (Resolve) and prepares the      *)
(* finalize Job from what it read; the transition is decided later, in a   *)
(* transaction that locks the row (AdvanceDue).  A manager's transaction   *)
(* decides while it holds the row lock and commits later.                  *)
(*                                                                         *)
(* A pending Job is named by its active dedupe key, so jobs is a function  *)
(* on the pending keys; an ended Job leaves it.  A finalize Job stands for  *)
(* itself and its continuations; what they do between the claim and the    *)
(* last transaction is SittingSealing.                                     *)
(***************************************************************************)
EXTENDS Naturals, FiniteSets

CONSTANTS Sittings,       \* a set of positive integers, in id order
          Windows,        \* the <<start, end>> pairs managers choose from
          MaxTime,        \* bound on the database clock
          MaxRescheduled, \* bound on the revision a reschedule meets
          MaxManaged,     \* bound on the revision another command meets
          MaximumAttempts,  \* per phase: of the descriptor of its Jobs
          Day,            \* how often the recovery pass is proposed
          WorkLimit,      \* Sittings one recovery pass may reconcile
          MaxTrouble      \* bound on crashes and dependency failures

Phases == {"open", "deadline", "finalize", "recovery"}

\* A window ends after it starts (ExamSitting.Validate).
ASSUME ExamSittingAssumption ==
    /\ Sittings \subseteq Nat \ {0}
    /\ Windows \subseteq Nat \X Nat /\ \A w \in Windows : w[1] < w[2]
    /\ MaximumAttempts \in [Phases -> Nat \ {0}]
    /\ {MaxTime, MaxRescheduled, MaxManaged, WorkLimit, MaxTrouble} \subseteq Nat
    /\ Day \in Nat \ {0}

VARIABLES now,        \* the database's statement_timestamp()
          sitting,    \* the exam_sittings rows
          held,       \* per Sitting: the manager transaction that holds its row
          jobs,       \* the pending Jobs, by dedupe key
          pass,       \* what the recovery Job has listed and checkpointed
          missed,     \* Sittings whose lifecycle or sealing Job failed
          troubles    \* crashes and dependency failures so far

vars == <<now, sitting, held, jobs, pass, missed, troubles>>

Live == {"open", "paused"}
Settled == {"closed", "canceled"}

Absent == [state |-> "absent", revision |-> 0, start |-> 0, end |-> 0, closingAt |-> 0]

Free == [command |-> "none", at |-> 0, end |-> 0]

Key(phase, s, revision) == [phase |-> phase, sitting |-> s, revision |-> revision]
Recovery == Key("recovery", 0, 0)

\* NewJobWithDedupePolicy(..., JobDedupeActive, now, availableAt, 8).
NewJob(due) == [status |-> "waiting", due |-> due, runs |-> 0,
                sitting |-> 0, plan |-> <<0, 0>>]

\* The rows inserted by insertExamSittingLifecycleJob: due gives when each of
\* the new keys is due.
Insert(due, table) ==
    [k \in DOMAIN due \cup DOMAIN table |->
        IF k \in DOMAIN due THEN NewJob(due[k]) ELSE table[k]]
NoJobs == [k \in {} |-> 0]
OneJob(key, due) == [k \in {key} |-> due]
Without(k) == [j \in DOMAIN jobs \ {k} |-> jobs[j]]

NoPass == [listed |-> FALSE, todo |-> {}, after |-> <<0, 0>>, reserved |-> 0]

Keys == {Recovery} \cup
        [phase : {"open", "deadline", "finalize"}, sitting : Sittings, revision : Nat]
Row == [state : {"absent", "scheduled", "closing"} \cup Live \cup Settled,
        revision : Nat, start : Nat, end : Nat, closingAt : Nat]
Command == [command : {"none", "pause", "resume", "close", "extend", "retarget"},
            at : Nat, end : Nat]
Job == [status : {"waiting", "running", "resolved", "refused", "blocked"},
        due : Nat, runs : Nat, sitting : Nat, plan : Nat \X Nat]

TypeOK ==
    /\ now \in Nat
    /\ sitting \in [Sittings -> Row]
    /\ held \in [Sittings -> Command]
    /\ DOMAIN jobs \subseteq Keys /\ jobs \in [DOMAIN jobs -> Job]
    /\ pass \in [listed : BOOLEAN, todo : SUBSET (Nat \X Sittings), after : Nat \X Nat,
                 reserved : Nat]
    /\ missed \subseteq Sittings

Init ==
    /\ now = 0
    /\ sitting = [s \in Sittings |-> Absent]
    /\ held = [s \in Sittings |-> Free]
    /\ jobs = Insert(NoJobs, NoJobs)
    /\ pass = NoPass
    /\ missed = {}
    /\ troubles = 0

Tick == now < MaxTime /\ now' = now + 1 /\ UNCHANGED <<sitting, held, jobs, pass, missed, troubles>>

-----------------------------------------------------------------------------
(* What managers do.                                                       *)

BoundaryJobs(s, revision, w) ==
    [k \in {Key("open", s, revision), Key("deadline", s, revision)} |->
        IF k.phase = "open" THEN w[1] ELSE w[2]]

Schedule(s, w) ==
    /\ sitting[s] = Absent
    /\ w[1] > now
    /\ sitting' = [sitting EXCEPT ![s] = [state |-> "scheduled", revision |-> 1,
                                          start |-> w[1], end |-> w[2], closingAt |-> 0]]
    /\ jobs' = Insert(BoundaryJobs(s, 1, w), jobs)
    /\ UNCHANGED <<now, held, pass, missed, troubles>>

UpdateSchedule(s, w) ==
    /\ sitting[s].state = "scheduled"
    /\ sitting[s].revision <= MaxRescheduled
    /\ w[1] > now
    /\ w # <<sitting[s].start, sitting[s].end>>
    /\ sitting' = [sitting EXCEPT ![s].start = w[1], ![s].end = w[2], ![s].revision = @ + 1]
    /\ jobs' = Insert(BoundaryJobs(s, sitting[s].revision + 1, w), jobs)
    /\ UNCHANGED <<now, held, pass, missed, troubles>>

Cancel(s) ==
    /\ sitting[s].state = "scheduled"
    /\ sitting' = [sitting EXCEPT ![s].state = "canceled", ![s].revision = @ + 1]
    /\ UNCHANGED <<now, held, jobs, pass, missed, troubles>>

\* A manager's transaction locks the row and decides, before the deadline.
Decide(s, command, end) ==
    /\ held[s] = Free
    /\ sitting[s].state \in Live
    /\ command = "pause" => sitting[s].state = "open"
    /\ command = "resume" => sitting[s].state = "paused"
    /\ sitting[s].revision <= MaxManaged
    /\ now < sitting[s].end
    /\ IF command = "extend" THEN end > sitting[s].end ELSE end = sitting[s].end
    /\ held' = [held EXCEPT ![s] = [command |-> command, at |-> now, end |-> end]]
    /\ UNCHANGED <<now, sitting, jobs, pass, missed, troubles>>

Managed(row, c) ==
    [row EXCEPT !.revision = @ + 1, !.end = c.end,
                !.state = CASE c.command = "pause" -> "paused"
                            [] c.command = "resume" -> "open"
                            [] c.command = "close" -> "closing"
                            [] OTHER -> @,
                !.closingAt = IF c.command = "close" THEN c.at ELSE @]

\* Mutated form: an extension keeps the deadline Job it has.
ManagedJobsForgotten(s, revision, c) ==
    IF c.command = "close" THEN OneJob(Key("finalize", s, revision), c.at) ELSE NoJobs
\* The Job a manager's transaction inserts with its change.
ManagedJobs(s, revision, c) ==
    CASE c.command = "close" -> OneJob(Key("finalize", s, revision), c.at)
      [] c.command = "extend" -> OneJob(Key("deadline", s, revision), c.end)
      [] OTHER -> NoJobs

Commit(s) ==
    /\ held[s] # Free
    /\ sitting' = [sitting EXCEPT ![s] = Managed(@, held[s])]
    /\ jobs' = Insert(ManagedJobs(s, sitting[s].revision + 1, held[s]), jobs)
    /\ held' = [held EXCEPT ![s] = Free]
    /\ missed' = IF held[s].command = "close" THEN missed \ {s} ELSE missed
    /\ UNCHANGED <<now, pass, troubles>>

-----------------------------------------------------------------------------
(* Jobs: start, retry and loss, as in JobQueue.                            *)

\* The finalize Job prepared from the row that was read: its revision, due time.
Prepared(row) ==
    IF row.state = "closing" THEN <<row.revision, row.closingAt>>
    ELSE <<row.revision + 1, row.end>>

Reading(k, s) == [jobs[k] EXCEPT !.status = "resolved", !.sitting = s,
                                 !.plan = Prepared(sitting[s])]

Claimed(k) == [jobs[k] EXCEPT !.status = "running", !.runs = @ + 1]

Due(k) == jobs[k].status = "waiting" /\ jobs[k].due <= now

\* A worker claims a lifecycle Job and its handler reads the Sitting.
Resolve(k) ==
    /\ k.phase \in {"open", "deadline"}
    /\ Due(k)
    /\ jobs' = [jobs EXCEPT ![k] = [Reading(k, k.sitting) EXCEPT !.runs = @ + 1]]
    /\ UNCHANGED <<now, sitting, held, pass, missed, troubles>>

Start(k) ==
    /\ k.phase \in {"finalize", "recovery"}
    /\ Due(k)
    /\ jobs' = [jobs EXCEPT ![k] = Claimed(k)]
    /\ UNCHANGED <<now, sitting, held, pass, missed, troubles>>

Retried(k) == [NewJob(now) EXCEPT !.runs = jobs[k].runs]
Unlisted(k) == IF k = Recovery THEN [pass EXCEPT !.listed = FALSE, !.todo = {}] ELSE pass

Target(k) == IF k = Recovery THEN {} ELSE {k.sitting}

Failed(k) ==
    /\ jobs' = Without(k)
    /\ missed' = missed \cup Target(k)
    /\ pass' = IF k = Recovery THEN NoPass ELSE pass

\* An unavailable dependency or a lost lease: again while the budget lasts.
Again(k) ==
    \/ /\ jobs[k].runs < MaximumAttempts[k.phase]
       /\ jobs' = [jobs EXCEPT ![k] = Retried(k)]
       /\ pass' = Unlisted(k)
       /\ UNCHANGED missed
    \/ jobs[k].runs = MaximumAttempts[k.phase] /\ Failed(k)

Held(k) == jobs[k].status # "waiting"

\* A crash or a dependency failure before the run's transaction commits.
Trouble(k) ==
    /\ Held(k)
    /\ troubles < MaxTrouble
    /\ troubles' = troubles + 1
    /\ Again(k)
    /\ UNCHANGED <<now, sitting, held>>

\* The run's transaction commits and inserts the new Jobs.  The Job then
\* succeeds, or the recovery pass checkpoints, or a crash comes first.
Completes(k, new) ==
    \/ /\ k # Recovery
       /\ jobs' = Insert(new, Without(k))
       /\ UNCHANGED <<pass, troubles>>
    \/ /\ k = Recovery
       /\ jobs' = Insert(new, [jobs EXCEPT ![k].status = "running", ![k].sitting = 0,
                                           ![k].plan = <<0, 0>>])
       /\ \E d \in pass.todo : /\ d[2] = jobs[k].sitting
                               /\ pass' = [pass EXCEPT !.todo = @ \ {d}, !.after = d]
       /\ UNCHANGED troubles
    \/ /\ troubles < MaxTrouble
       /\ troubles' = troubles + 1
       /\ jobs[k].runs < MaximumAttempts[k.phase]
       /\ jobs' = Insert(new, [jobs EXCEPT ![k] = Retried(k)])
       /\ pass' = Unlisted(k)

\* examSittingLifecycleFailure: ErrInvalidInput anywhere in the error's chain
\* is permanent; a bare conflict is retryable.
Refused(k) ==
    /\ jobs[k].status = "refused"
    /\ Failed(k)
    /\ UNCHANGED <<now, sitting, held, troubles>>
Blocked(k) ==
    /\ jobs[k].status = "blocked"
    /\ Again(k)
    /\ UNCHANGED <<now, sitting, held, troubles>>

Answered(k, status) == jobs' = [jobs EXCEPT ![k].status = status, ![k].plan = <<0, 0>>]

-----------------------------------------------------------------------------
(* The transaction of a reconciliation: AdvanceDue.                        *)

Locks(k, s) == jobs[k].status = "resolved" /\ jobs[k].sitting = s /\ held[s] = Free

AdvanceNothing(k, s) ==
    /\ Locks(k, s)
    /\ \/ sitting[s].state = "scheduled" /\ now < sitting[s].start
       \/ sitting[s].state \in Live /\ now < sitting[s].end
       \/ sitting[s].state \in Settled
    /\ Completes(k, NoJobs)
    /\ UNCHANGED <<now, sitting, held, missed>>

\* The structure under the Exam may have become invalid or been archived.
AdvanceScheduled(k, s) ==
    /\ Locks(k, s)
    /\ sitting[s].state = "scheduled"
    /\ now >= sitting[s].start
    /\ \E state \in IF now >= sitting[s].end THEN {"canceled"} ELSE {"open", "canceled"} :
         sitting' = [sitting EXCEPT ![s].state = state, ![s].revision = @ + 1]
    /\ Completes(k, NoJobs)
    /\ UNCHANGED <<now, held, missed>>

EnterClosing(k, s) ==
    /\ sitting' = [sitting EXCEPT ![s].state = "closing", ![s].revision = @ + 1,
                                  ![s].closingAt = now]
    /\ Completes(k, OneJob(Key("finalize", s, sitting[s].revision + 1), sitting[s].end))
    /\ missed' = missed \ {s}
    /\ UNCHANGED <<now, held>>

\* Mutated form: the deadline as Resolve read it, not as the locked row has it.
AdvanceLiveByPlan(k, s) ==
    /\ Locks(k, s)
    /\ sitting[s].state \in Live
    /\ now >= jobs[k].plan[2]
    /\ EnterClosing(k, s)
AdvanceLive(k, s) ==
    /\ Locks(k, s)
    /\ sitting[s].state \in Live
    /\ now >= sitting[s].end
    /\ jobs[k].plan = Prepared(sitting[s])
    /\ EnterClosing(k, s)

\* A Closing Sitting: the prepared finalize Job is inserted unless one is pending.
AdvanceClosing(k, s) ==
    LET key == Key("finalize", s, sitting[s].revision) IN
    /\ Locks(k, s)
    /\ sitting[s].state = "closing"
    /\ jobs[k].plan = Prepared(sitting[s])
    /\ \/ /\ key \in DOMAIN jobs
          /\ Answered(k, "blocked")
          /\ UNCHANGED <<pass, missed, troubles>>
       \/ /\ key \notin DOMAIN jobs
          /\ Completes(k, OneJob(key, sitting[s].closingAt))
          /\ missed' = missed \ {s}
    /\ UNCHANGED <<now, sitting, held>>

\* The prepared finalize Job does not fit the locked row.
AdvanceStale(k, s) ==
    /\ Locks(k, s)
    /\ \/ sitting[s].state \in Live /\ now >= sitting[s].end
       \/ sitting[s].state = "closing"
    /\ jobs[k].plan # Prepared(sitting[s])
    /\ Answered(k, "refused")
    /\ UNCHANGED <<now, sitting, held, pass, missed, troubles>>

\* The sealing Job's last transaction; SittingSealing has the steps before it.
FinishSealing(k) ==
    LET s == k.sitting IN
    /\ k.phase = "finalize"
    /\ jobs[k].status = "running"
    /\ sitting' = IF sitting[s].state = "closing"
                  THEN [sitting EXCEPT ![s].state = "closed", ![s].revision = @ + 1]
                  ELSE sitting
    /\ Completes(k, NoJobs)
    /\ UNCHANGED <<now, held, missed>>

-----------------------------------------------------------------------------
(* The recovery pass.                                                      *)

\* The daily proposer; a day's Job is accepted once.  The clock stops at
\* MaxTime, the days do not.
Propose ==
    /\ now > 0 /\ now % Day = 0
    /\ Recovery \notin DOMAIN jobs
    /\ jobs' = Insert(OneJob(Recovery, now), jobs)
    /\ UNCHANGED <<now, sitting, held, pass, missed, troubles>>

Before(d, e) == d[1] < e[1] \/ (d[1] = e[1] /\ d[2] < e[2])

\* Mutated form: Closing Sittings are not listed.
DueAtUnlessClosing(s) ==
    CASE sitting[s].state = "scheduled" -> sitting[s].start
      [] sitting[s].state \in Live -> sitting[s].end
      [] OTHER -> now + 1
DueAt(s) ==
    CASE sitting[s].state = "scheduled" -> sitting[s].start
      [] sitting[s].state \in Live -> sitting[s].end
      [] sitting[s].state = "closing" -> sitting[s].closingAt
      [] OTHER -> now + 1

\* examSittingLifecycleDueQuery: (due_at, id) after the cursor.
LifecycleDue(after) ==
    {d \in {<<DueAt(s), s>> : s \in Sittings} : d[1] <= now /\ Before(after, d)}

Passing == Recovery \in DOMAIN jobs /\ jobs[Recovery].status = "running"

ListDue ==
    /\ Passing
    /\ ~pass.listed
    /\ pass' = [pass EXCEPT !.listed = TRUE, !.todo = LifecycleDue(pass.after)]
    /\ UNCHANGED <<now, sitting, held, jobs, missed, troubles>>

\* ReserveWork, then the read of the next listed Sitting.
ReconcileNext ==
    /\ Passing
    /\ pass.reserved < WorkLimit
    /\ \E d \in pass.todo :
         /\ \A e \in pass.todo \ {d} : Before(d, e)
         /\ jobs' = [jobs EXCEPT ![Recovery] = Reading(Recovery, d[2])]
         /\ pass' = [pass EXCEPT !.reserved = @ + 1]
    /\ UNCHANGED <<now, sitting, held, missed, troubles>>

FinishPass ==
    /\ Passing
    /\ pass.listed
    /\ pass.todo = {} \/ pass.reserved = WorkLimit
    /\ jobs' = Without(Recovery)
    /\ pass' = NoPass
    /\ UNCHANGED <<now, sitting, held, missed, troubles>>

-----------------------------------------------------------------------------

Managers(s) ==
    \/ \E w \in Windows : Schedule(s, w) \/ UpdateSchedule(s, w)
    \/ Cancel(s)
    \/ \E command \in {"pause", "resume", "close", "extend", "retarget"},
          end \in {w[2] : w \in Windows} : Decide(s, command, end)

Advance(k, s) ==
    \/ AdvanceNothing(k, s) \/ AdvanceScheduled(k, s) \/ AdvanceLive(k, s)
    \/ AdvanceClosing(k, s) \/ AdvanceStale(k, s)

Handler(k) ==
    \/ Resolve(k) \/ Start(k) \/ FinishSealing(k) \/ Refused(k) \/ Blocked(k)
    \/ \E s \in Sittings : Advance(k, s)

RecoveryPass == ListDue \/ ReconcileNext \/ FinishPass

Next ==
    \/ Tick
    \/ \E s \in Sittings : Managers(s) \/ Commit(s)
    \/ \E k \in DOMAIN jobs : Handler(k) \/ Trouble(k)
    \/ Propose
    \/ RecoveryPass

Spec == Init /\ [][Next]_vars

\* Time passes and transactions commit; some worker with a lifecycle or
\* sealing Job takes its next step; each day is proposed and its pass goes on.
Fairness ==
    /\ WF_vars(Tick \/ \E s \in Sittings : Commit(s))
    /\ WF_vars(\E k \in DOMAIN jobs \ {Recovery} : Handler(k))
    /\ WF_vars(Propose \/ RecoveryPass \/ \E k \in DOMAIN jobs \cap {Recovery} : Handler(k))

FairSpec == Spec /\ Fairness

-----------------------------------------------------------------------------
(* Properties.                                                             *)

\* A pending Job of the Sitting that is due by t.
Awaits(s, phases, t) ==
    \E k \in DOMAIN jobs :
       /\ k.sitting = s /\ k.phase \in phases
       /\ jobs[k].due <= IF t > now THEN t ELSE now

\* Whatever managers reschedule, extend, pause or close, and however its Jobs
\* interleave, retry or crash, a Sitting that has not settled has a pending Job
\* that will reach its next boundary in time, unless one of its Jobs failed:
\* each write leaves its Job behind, and a Job that succeeds without effect was
\* never the last one (exam_sitting_lifecycle_store.go insertExamSittingLifecycleJob).
NextBoundaryCovered ==
    \A s \in Sittings \ missed :
       /\ sitting[s].state = "scheduled" => Awaits(s, {"open", "deadline"}, sitting[s].start)
       /\ sitting[s].state \in Live => Awaits(s, {"open", "deadline"}, sitting[s].end)
       /\ sitting[s].state = "closing" => Awaits(s, {"finalize"}, sitting[s].closingAt)

\* No Job opens a Sitting outside its window or closes it before the deadline
\* that holds when the row is locked: a deadline Job left over from before an
\* extension does nothing (applyDueExamSittingTransition).
BoundariesRespected ==
    [][\A s \in Sittings :
         /\ sitting[s].state = "scheduled" /\ sitting'[s].state = "open" =>
               sitting[s].start <= now /\ now < sitting[s].end
         /\ sitting[s].state \in Live /\ sitting'[s].state = "closing" =>
               now >= sitting[s].end \/ held[s].command = "close"]_vars

\* Every Sitting that was scheduled ends closed or canceled, though Jobs fail
\* for good on the way: the daily recovery pass reaches it at last.
EverySittingSettles ==
    \A s \in Sittings : sitting[s].state # "absent" ~> sitting[s].state \in Settled

=============================================================================
