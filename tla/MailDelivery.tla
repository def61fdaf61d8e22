---------------------------- MODULE MailDelivery ----------------------------
(***************************************************************************)
(* One durable mail delivery and the Job that executes it: the handler     *)
(* (server/app/jobhandler/mail_delivery.go) run by the attempts of the     *)
(* Job on several nodes, the delivery's transitions                        *)
(* (server/model/mail.go), the store calls that apply them at an expected  *)
(* revision (server/store/sqlstore/mail_store.go), the operator's cancel   *)
(* and retry, and the two maintenance sweeps                               *)
(* (server/store/sqlstore/mail_maintenance_store.go).                      *)
(*                                                                         *)
(* A handler keeps running after its lease lapsed, so several attempts     *)
(* may be inside it at once.  Any store call may fail, with or without     *)
(* its transaction having committed.  Clocks disagree: around the          *)
(* deadline a reading may fall on either side of it.                       *)
(***************************************************************************)
EXTENDS Integers, FiniteSets

CONSTANTS
    Nodes,                \* server nodes; each runs at most one attempt
    MailMaximumAttempts,  \* sends of a delivery, and attempts of a new Job
    Fenced,               \* the template has a relevance fence at Start
    OperatorRetries       \* bound: operator retries

ASSUME MailDeliveryAssumption ==
    /\ MailMaximumAttempts \in Nat \ {0} /\ Fenced \in BOOLEAN
    /\ OperatorRetries \in Nat

VARIABLES
    delivery,   \* the row of mail_deliveries
    job,        \* the row of jobs it names
    run,        \* per node: the handler's locals
    told,       \* per send: what the transport reported to its worker
    deadline,   \* where the clocks stand: before, around or past it
    relevant,   \* what the fence of StartDelivery reads
    enabled,    \* per node: sender.Enabled()
    retries     \* so far, by an operator

vars == <<delivery, job, run, told, deadline, relevant, enabled, retries>>

Outstanding == {"queued", "sending", "failed"}
Settled == {"accepted", "suppressed", "canceled"}
Claimed == {"running", "cancel_requested"}
Ended == {"succeeded", "failed", "canceled"}

Delivery == [state : Outstanding \cup Settled,
             attempts : 0 .. MailMaximumAttempts, revision : Nat \ {0}]
Job == [status : {"queued"} \cup Claimed \cup Ended,
        attempts : Nat, maximum : Nat \ {0}]
Completions == {"accepted", "retry", "failed", "expired", "suppressed"}
Outcomes == {"succeeded", "retryable", "permanent"}

Created == [state |-> "queued", attempts |-> 0, revision |-> 1]
Idle == [pc |-> "idle", attempt |-> 0, last |-> FALSE, seen |-> Created,
         completion |-> "retry", outcome |-> "retryable"]

Init ==
    /\ delivery = Created
    /\ job = [status |-> "queued", attempts |-> 0, maximum |-> MailMaximumAttempts]
    /\ run = [n \in Nodes |-> Idle]
    /\ told = [k \in 1 .. MailMaximumAttempts |-> "nothing"]
    /\ deadline = "before" /\ relevant = TRUE
    /\ enabled = [n \in Nodes |-> TRUE]
    /\ retries = 0

----------------------------------------------------------------------------
(* Clocks: whether an instant read now lies at or after the deadline.      *)

PastDeadline == CASE deadline = "before" -> {FALSE}
                  [] deadline = "past"   -> {TRUE}
                  [] OTHER               -> BOOLEAN

----------------------------------------------------------------------------
(* Transitions of model.MailDelivery.  late: at is not before the deadline *)

Moved(d, state) == [d EXCEPT !.state = state, !.revision = @ + 1]

CanStart(d, late) ==
    /\ d.state \in {"queued", "sending"}
    /\ d.attempts < MailMaximumAttempts /\ ~late
Started(d) == [Moved(d, "sending") EXCEPT !.attempts = @ + 1]

CanComplete(d, completion, late) ==
    CASE completion = "accepted"   -> d.state = "sending"
      [] completion = "retry"      -> d.state = "sending" /\ ~late
      [] completion = "failed"     -> d.state = "sending"
      [] completion = "expired"    -> d.state \in {"queued", "sending"} /\ late
      [] completion = "suppressed" -> d.state \in Outstanding

CompletedState(completion) ==
    CASE completion = "accepted" -> "accepted" [] completion = "retry" -> "queued"
      [] completion = "failed" -> "failed"     [] OTHER -> "suppressed"

CanCancel(d) == d.state = "queued"
CanOperatorRetry(d, late) ==
    /\ d.state \in Outstanding /\ d.attempts < MailMaximumAttempts /\ ~late

----------------------------------------------------------------------------
(* The Job row, as JobStore.tla has it, for the only Job of this delivery. *)

\* The claim token: a later claim has a larger attempt number.
Holds(n) == job.status \in Claimed /\ job.attempts = run[n].attempt

FinishedStatus(j, outcome) ==
    CASE outcome = "succeeded" -> "succeeded"
      [] outcome = "retryable" /\ j.status = "cancel_requested" -> "canceled"
      [] outcome = "retryable" /\ j.attempts < j.maximum -> "queued"
      [] OTHER -> "failed"

RecoveredStatus(j) ==
    IF j.status = "cancel_requested" THEN "canceled"
    ELSE IF j.attempts >= j.maximum THEN "failed" ELSE "queued"

RequestCancellation(j) ==
    CASE j.status = "queued"  -> [j EXCEPT !.status = "canceled"]
      [] j.status = "running" -> [j EXCEPT !.status = "cancel_requested"]
      [] OTHER -> j

Claim(n) ==
    /\ run[n].pc = "idle" /\ job.status = "queued" /\ job.attempts < job.maximum
    /\ job' = [job EXCEPT !.status = "running", !.attempts = @ + 1]
    /\ run' = [run EXCEPT ![n] = [Idle EXCEPT !.pc = "read", !.attempt = job.attempts + 1,
                                              !.last = job.attempts + 1 >= job.maximum]]
    /\ UNCHANGED <<delivery, told, deadline, relevant, enabled, retries>>

\* The lease lapsed: its holder was lost, or only too slow to renew it.
Recover ==
    /\ job.status \in Claimed
    /\ job' = [job EXCEPT !.status = RecoveredStatus(job)]
    /\ UNCHANGED <<delivery, run, told, deadline, relevant, enabled, retries>>

----------------------------------------------------------------------------
(* The handler.  Each action is one store call, or the transport call.     *)

Goto(n, pc) == run' = [run EXCEPT ![n].pc = pc]
Return(n, outcome) ==
    run' = [run EXCEPT ![n] = [Idle EXCEPT !.pc = "finish", !.attempt = run[n].attempt,
                                           !.outcome = outcome]]
\* CompleteDelivery is called next, for the row seen.
Complete(n, seen, completion) ==
    run' = [run EXCEPT ![n] = [Idle EXCEPT !.pc = "complete", !.attempt = run[n].attempt,
                                           !.seen = seen, !.completion = completion]]

\* mailDeliveryDependencyOutcome: unavailable and conflict are retryable.
DependencyOutcome == "retryable"

\* GetDelivery and the fence; again after the wait for a send permit, which
\* may fail as a store call may.  The relevance policy of the handler admits
\* every known template.
Look(n, from, then) ==
    /\ run[n].pc = from
    /\ \/ Return(n, DependencyOutcome)
       \/ delivery.state \in Settled /\ Return(n, "succeeded")
       \/ delivery.state = "failed" /\ Return(n, "permanent")
       \/ /\ delivery.state \in {"queued", "sending"}
          /\ \E late \in PastDeadline :
               \/ late /\ Complete(n, delivery, "expired")
               \/ ~late /\ ~enabled[n] /\ Complete(n, delivery, "suppressed")
               \/ ~late /\ enabled[n] /\ then
    /\ UNCHANGED <<delivery, job, told, deadline, relevant, enabled, retries>>

Read(n) == Look(n, "read", Goto(n, "read again"))

ReadAgain(n) ==
    Look(n, "read again",
         IF delivery.state = "sending" /\ delivery.attempts >= MailMaximumAttempts
         THEN Complete(n, delivery, "failed")
         ELSE run' = [run EXCEPT ![n].pc = "start", ![n].seen = delivery])

AtExpectedRevision(n) == delivery.revision = run[n].seen.revision

StartDelivery(n) ==
    /\ run[n].pc = "start"
    /\ \/ Return(n, DependencyOutcome) /\ UNCHANGED delivery
       \/ /\ AtExpectedRevision(n) /\ Fenced /\ ~relevant
          /\ delivery' = Moved(delivery, "suppressed")
          /\ Return(n, "succeeded") \/ Return(n, DependencyOutcome)
       \/ /\ AtExpectedRevision(n) /\ (Fenced => relevant)
          /\ \E late \in PastDeadline : CanStart(delivery, late)
          /\ delivery' = Started(delivery)
          /\ \/ run' = [run EXCEPT ![n].pc = "send", ![n].seen = Started(delivery)]
             \/ Return(n, DependencyOutcome)
    /\ UNCHANGED <<job, told, deadline, relevant, enabled, retries>>

\* OpenDelivery, then the transport.  What was accepted may be reported as
\* a failure; a failure is never reported as accepted.
Send(n) ==
    /\ run[n].pc = "send"
    /\ \E late \in PastDeadline :
         \/ /\ UNCHANGED told    \* the sealed message cannot be opened
            /\ Complete(n, run[n].seen, IF late THEN "expired" ELSE "failed")
         \/ /\ told' = [told EXCEPT ![run[n].seen.attempts] = "accepted"]
            /\ Complete(n, run[n].seen, "accepted")
         \/ /\ told' = [told EXCEPT ![run[n].seen.attempts] = "failed"]
            /\ \E permanent \in BOOLEAN :
                 Complete(n, run[n].seen,
                     CASE late -> "expired"
                       [] ~late /\ ( \/ permanent \/ run[n].last
                                     \/ run[n].seen.attempts >= MailMaximumAttempts)
                            -> "failed"
                       [] OTHER -> "retry")
    /\ UNCHANGED <<delivery, job, deadline, relevant, enabled, retries>>

\* Mutated form: the completion is applied whatever the row's revision.
CompleteDeliveryUnfenced(n) ==
    /\ run[n].pc = "complete"
    /\ \E late \in PastDeadline :
         /\ CanComplete(delivery, run[n].completion, late)
         /\ delivery' = Moved(delivery, CompletedState(run[n].completion))
    /\ Return(n, "succeeded")
    /\ UNCHANGED <<job, told, deadline, relevant, enabled, retries>>

CompleteDelivery(n) ==
    /\ run[n].pc = "complete"
    /\ \/ Return(n, DependencyOutcome) /\ UNCHANGED delivery
       \/ /\ AtExpectedRevision(n)
          /\ \E late \in PastDeadline : CanComplete(delivery, run[n].completion, late)
          /\ delivery' = Moved(delivery, CompletedState(run[n].completion))
          /\ \/ Return(n, CASE run[n].completion = "retry" -> "retryable"
                            [] run[n].completion = "failed" -> "permanent"
                            [] OTHER -> "succeeded")
             \/ Return(n, DependencyOutcome)
    /\ UNCHANGED <<job, told, deadline, relevant, enabled, retries>>

\* engine.go: a claim lost meanwhile is not completed; a failure that
\* comes with the handler's timeout is replaced by a retryable one.
Finish(n) ==
    /\ run[n].pc = "finish"
    /\ run' = [run EXCEPT ![n] = Idle]
    /\ \/ ~Holds(n) /\ UNCHANGED job
       \/ /\ Holds(n)
          /\ \E outcome \in {run[n].outcome}
                              \cup (IF run[n].outcome = "succeeded" THEN {} ELSE {"retryable"}) :
               job' = [job EXCEPT !.status = FinishedStatus(job, outcome)]
    /\ UNCHANGED <<delivery, told, deadline, relevant, enabled, retries>>

Handler(n) ==
    \/ Read(n) \/ ReadAgain(n) \/ StartDelivery(n) \/ Send(n) \/ CompleteDelivery(n) \/ Finish(n)

\* The process is gone, or its engine shut down: nothing is completed.
Lose(n) ==
    /\ run[n].pc # "idle"
    /\ run' = [run EXCEPT ![n] = Idle]
    /\ UNCHANGED <<delivery, job, told, deadline, relevant, enabled, retries>>

----------------------------------------------------------------------------
(* Operators.  The revision the operator saw is checked in the transaction *)
(* that applies the control, so reading and applying are one step.         *)

\* Mutated form: a cancellation does not look at the Job.
CancelDeliveryRunning ==
    /\ CanCancel(delivery)
    /\ delivery' = Moved(delivery, "canceled")
    /\ job' = RequestCancellation(job)
    /\ UNCHANGED <<run, told, deadline, relevant, enabled, retries>>

CancelDelivery ==
    /\ job.status = "queued" /\ CanCancel(delivery)
    /\ delivery' = Moved(delivery, "canceled")
    /\ job' = RequestCancellation(job)
    /\ UNCHANGED <<run, told, deadline, relevant, enabled, retries>>

RetryDelivery ==
    /\ retries < OperatorRetries /\ retries' = retries + 1
    /\ job.status = "failed" /\ (Fenced => relevant)
    /\ \E late \in PastDeadline : CanOperatorRetry(delivery, late)
    /\ delivery' = Moved(delivery, "queued")
    /\ job' = [job EXCEPT !.status = "queued", !.maximum = job.attempts + 1]
    /\ UNCHANGED <<run, told, deadline, relevant, enabled>>

----------------------------------------------------------------------------
(* Maintenance *)

Suppressed ==
    /\ delivery.state \in Outstanding
    /\ delivery' = Moved(delivery, "suppressed")
    /\ job' = RequestCancellation(job)
    /\ UNCHANGED <<run, told, deadline, relevant, enabled, retries>>

\* Mutated form: only what waits in the queue expires.
SuppressExpiredQueued ==
    TRUE \in PastDeadline /\ delivery.state = "queued" /\ Suppressed
\* The daily cleanup Job.
SuppressExpired == TRUE \in PastDeadline /\ Suppressed

\* The monitor of a node on which mail is disabled.
SuppressOutstanding == (\E n \in Nodes : ~enabled[n]) /\ Suppressed

----------------------------------------------------------------------------
(* The surroundings *)

PassTime ==
    /\ deadline # "past"
    /\ deadline' = IF deadline = "before" THEN "around" ELSE "past"
    /\ UNCHANGED <<delivery, job, run, told, relevant, enabled, retries>>

\* The token is used, the Invitation revoked, the Sitting moved.
BecomeObsolete ==
    /\ Fenced /\ relevant /\ relevant' = FALSE
    /\ UNCHANGED <<delivery, job, run, told, deadline, enabled, retries>>

Disable(n) ==
    /\ run[n].pc = "idle" /\ enabled[n]
    /\ enabled' = [enabled EXCEPT ![n] = FALSE]
    /\ UNCHANGED <<delivery, job, run, told, deadline, relevant, retries>>

Next ==
    \/ \E n \in Nodes : Claim(n) \/ Handler(n) \/ Lose(n) \/ Disable(n)
    \/ Recover \/ CancelDelivery \/ RetryDelivery
    \/ SuppressExpired \/ SuppressOutstanding \/ PassTime \/ BecomeObsolete

Spec == Init /\ [][Next]_vars

\* Handlers return, some engine claims and recovers, the daily cleanup
\* runs and the deadline passes.
FairSpec ==
    /\ Spec
    /\ \A n \in Nodes : WF_vars(Handler(n))
    /\ WF_vars(Recover) /\ WF_vars(\E n \in Nodes : Claim(n))
    /\ WF_vars(SuppressExpired) /\ WF_vars(PassTime)

----------------------------------------------------------------------------
(* Properties *)

TypeOK ==
    /\ delivery \in Delivery /\ job \in Job
    /\ run \in [Nodes -> [pc : {"idle", "read", "read again", "start", "send",
                                "complete", "finish"},
                          attempt : Nat, last : BOOLEAN, seen : Delivery,
                          completion : Completions, outcome : Outcomes]]
    /\ told \in [1 .. MailMaximumAttempts -> {"nothing", "accepted", "failed"}]
    /\ deadline \in {"before", "around", "past"}
    /\ relevant \in BOOLEAN /\ enabled \in [Nodes -> BOOLEAN]
    /\ retries \in 0 .. OperatorRetries

\* The row says Accepted only when the transport accepted the LATEST send
\* it counts: an attempt that lost its lease while sending never records
\* its own answer over the send of the attempt that replaced it.
AcceptedIsLatest ==
    delivery.state = "accepted" => told[delivery.attempts] = "accepted"

\* The Job and the delivery tell one story, whichever attempt, operator or
\* sweep moved them: a Job that succeeded or was canceled leaves nothing
\* outstanding, and a canceled delivery has no Job left that could run.
JobAnswersDelivery ==
    /\ job.status \in {"succeeded", "canceled"} => delivery.state \in Settled
    /\ delivery.state = "canceled" => job.status = "canceled"

\* By its deadline, at the latest with the next daily cleanup, every
\* delivery is settled, whatever was lost on the way.
DeliverySettles == <>(delivery.state \in Settled)

=============================================================================
