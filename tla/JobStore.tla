------------------------------ MODULE JobStore ------------------------------
(***************************************************************************)
(* The durable Job store (server/store/sqlstore/job_store.go with the      *)
(* transitions of server/model/job.go): one row per Job, one row per       *)
(* claimed attempt, and the ledger of permanent occurrence keys.  Every    *)
(* action is one committed PostgreSQL transaction; a call the store        *)
(* refuses changes nothing and is not a step.                              *)
(*                                                                         *)
(* CURRENT_TIMESTAMP is the START of a transaction.  A transaction that    *)
(* waited for a row lock therefore acts at an instant `at` that may lie    *)
(* behind the clock `now`, and behind what a younger transaction already   *)
(* committed; at ranges over TransactionTimes.                             *)
(***************************************************************************)
EXTENDS Integers, FiniteSets

CONSTANTS
    Jobs,             \* Job IDs; an ID is never reused
    Nodes,            \* server nodes that claim work
    Keys,             \* (type, dedupe_key) pairs
    Operators,        \* operators that prepare and then apply a control
    MaximumAttempts,  \* maximum_attempts of a new Job (descriptor)
    Lease,            \* descriptor.LeaseDuration
    RetryDelay,       \* completion.RetryDelay
    BackoffCap,       \* the hour that bounds leaseExpiryBackoff
    Retention,        \* age after which succeeded or canceled history goes
    FailedRetention,  \* age after which failed history goes
    WorkLimit,        \* limit of a work reservation
    ClockSkew,        \* how far an enqueueing node's clock runs ahead
    Lag,              \* how far a transaction's start lies behind its locks
    MaxTime,          \* bound: the clock stops here
    MaxRevision       \* bound: no checkpoint or preparation past it

ASSUME JobStoreAssumption ==
    /\ MaximumAttempts \in Nat \ {0} /\ Lease \in Nat \ {0}
    /\ RetryDelay \in Nat \ {0} /\ BackoffCap \in Nat \ {0}
    /\ Retention \in Nat /\ FailedRetention \in Nat /\ WorkLimit \in Nat
    /\ ClockSkew \in Nat /\ Lag \in Nat
    /\ "none" \notin Jobs

VARIABLES
    now,          \* the database clock
    jobs,         \* the table jobs
    attempts,     \* the table job_attempts
    occurrences,  \* the table job_permanent_occurrences: key -> first Job
    targets       \* per operator: the ControlTarget it prepared, if any

vars == <<now, jobs, attempts, occurrences, targets>>

----------------------------------------------------------------------------
(* Rows *)

None == "none"
NoTime == -1

Active == {"queued", "running", "cancel_requested"}
Claimed == {"running", "cancel_requested"}
Terminal == {"succeeded", "failed", "canceled"}
JobStatuses == Active \cup Terminal

Kinds == {"succeeded", "retryable", "relinquished", "permanent", "canceled"}

Job == [status : JobStatuses \cup {"absent", "deleted"},
        policy : {"active", "permanent"},
        key : Keys \cup {None},
        updatedAt : Int, availableAt : Int, completedAt : Int,
        attemptCount : Nat, maximumAttempts : Nat,
        workReserved : Nat, checkpoint : Nat, revision : Nat]

Attempt == [job : Jobs, number : Nat \ {0}, node : Nodes,
            status : {"running", "succeeded", "failed", "canceled",
                      "lease_expired", "incompatible"},
            heartbeatAt : Int, leaseExpiresAt : Int]

Target == [job : Jobs, revision : Nat, kind : {"cancel", "retry"}, seen : Job]

AbsentJob ==
    [status |-> "absent", policy |-> "active", key |-> None,
     updatedAt |-> 0, availableAt |-> 0, completedAt |-> NoTime,
     attemptCount |-> 0, maximumAttempts |-> 0, workReserved |-> 0,
     checkpoint |-> 0, revision |-> 0]

AttemptsOf(j) == {a \in attempts : a.job = j}
Running(j) == {a \in attempts : a.job = j /\ a.status = "running"}
Later(s, t) == IF s < t THEN t ELSE s

\* Start instants a transaction committing now can have read.
TransactionTimes == {t \in 0 .. now : now - t <= Lag}

\* jobs_active_type_dedupe_key_idx: some Job of the key is already active.
ActiveKeyTaken(k) ==
    \E j \in Jobs : /\ jobs[j].policy = "active" /\ jobs[j].key = k
                    /\ jobs[j].status \in Active

----------------------------------------------------------------------------
(* Transitions of model.Job.  Each pairs the refusal condition of the      *)
(* method with the row it returns.                                         *)

NewJob(k, policy, createdAt) ==
    [AbsentJob EXCEPT !.status = "queued", !.policy = policy, !.key = k,
                      !.updatedAt = createdAt, !.availableAt = createdAt,
                      !.maximumAttempts = MaximumAttempts, !.revision = 1]

CanStart(r, at) == /\ r.status = "queued" /\ r.attemptCount < r.maximumAttempts
                   /\ at >= r.availableAt
Started(r, at) ==
    [r EXCEPT !.status = "running", !.updatedAt = at,
              !.attemptCount = @ + 1, !.revision = @ + 1]

CanUpdateProgress(r, at) == r.status \in Claimed /\ at >= r.updatedAt
\* Mutated form: a checkpoint keeps the revision.
ProgressedSilently(r, document, at) ==
    [r EXCEPT !.checkpoint = document, !.updatedAt = at]
Progressed(r, document, at) ==
    [r EXCEPT !.checkpoint = document, !.updatedAt = at, !.revision = @ + 1]

CanFinish(r, at) == r.status \in Claimed /\ at >= r.updatedAt
Finished(r, status, at) ==
    [r EXCEPT !.status = status, !.updatedAt = at, !.completedAt = at,
              !.revision = @ + 1]

CanRetry(r, availableAt, at) ==
    /\ r.status = "running" /\ r.attemptCount < r.maximumAttempts
    /\ availableAt > at /\ at >= r.updatedAt
\* Mutated form: every requeue gives the attempt slot back.
RequeuedWithSlot(r, availableAt, at) ==
    [r EXCEPT !.status = "queued", !.availableAt = availableAt,
              !.updatedAt = at, !.maximumAttempts = @ + 1, !.revision = @ + 1]
Requeued(r, availableAt, at) ==
    [r EXCEPT !.status = "queued", !.availableAt = availableAt,
              !.updatedAt = at, !.revision = @ + 1]

CanRelinquish(r, availableAt, at) ==
    r.status = "running" /\ availableAt > at /\ at >= r.updatedAt
Relinquished(r, availableAt, at) ==
    [Requeued(r, availableAt, at) EXCEPT !.maximumAttempts = @ + 1]

\* Mutated form: only a repeated request is refused.
CanRequestCancellationLate(r, at) ==
    r.status \in JobStatuses \ {"cancel_requested"} /\ at >= r.updatedAt
CanRequestCancellation(r, at) ==
    r.status \in {"queued", "running"} /\ at >= r.updatedAt
CancellationRequested(r, at) ==
    IF r.status = "queued" THEN Finished(r, "canceled", at)
    ELSE [r EXCEPT !.status = "cancel_requested", !.updatedAt = at,
                   !.revision = @ + 1]

CanExplicitRetry(r, at) == r.status \in {"failed", "canceled"} /\ at >= r.updatedAt
ExplicitlyRetried(r, at) ==
    [r EXCEPT !.status = "queued", !.availableAt = at, !.updatedAt = at,
              !.completedAt = NoTime, !.maximumAttempts = r.attemptCount + 1,
              !.revision = @ + 1]

(* Transitions of model.JobAttempt *)

Renewed(a, at) == [a EXCEPT !.heartbeatAt = at, !.leaseExpiresAt = at + Lease]
Ended(a, status) == [a EXCEPT !.status = status]

----------------------------------------------------------------------------
(* Enqueue.  A proposal the dedupe index or the ledger answers with the    *)
(* Job it already has changes nothing.                                     *)

EnqueueActive(j, k, createdAt) ==
    /\ jobs[j].status = "absent"
    /\ ~ActiveKeyTaken(k)
    /\ jobs' = [jobs EXCEPT ![j] = NewJob(k, "active", createdAt)]
    /\ UNCHANGED <<now, attempts, occurrences, targets>>

EnqueuePermanent(j, k, createdAt) ==
    /\ jobs[j].status = "absent"
    /\ occurrences[k] = None
    /\ occurrences' = [occurrences EXCEPT ![k] = j]
    /\ jobs' = [jobs EXCEPT ![j] = NewJob(k, "permanent", createdAt)]
    /\ UNCHANGED <<now, attempts, targets>>

----------------------------------------------------------------------------
(* ClaimNext: in one transaction, expire every lapsed attempt of any Job,  *)
(* recover those Jobs, then claim one claimable Job.                       *)

\* power(2, LEAST(GREATEST(attempt_count - 1, 0), 10))
PowerOfTwo == <<1, 2, 4, 8, 16, 32, 64, 128, 256, 512, 1024>>
Smaller(s, t) == IF s < t THEN s ELSE t

\* Every lease has lease_expires_at - heartbeat_at = LeaseDuration.
LeaseExpiryBackoff(attemptCount) ==
    Smaller(Lease * PowerOfTwo[Smaller(Later(attemptCount - 1, 0), 10) + 1],
            BackoffCap)

Lapsed(a, at) == a.status = "running" /\ a.leaseExpiresAt <= at

ExpiredAttempts(at) ==
    {IF Lapsed(a, at) THEN Ended(a, "lease_expired") ELSE a : a \in attempts}

Recovered(r, at) ==
    LET status == IF r.status = "cancel_requested" THEN "canceled"
                  ELSE IF r.attemptCount >= r.maximumAttempts THEN "failed"
                  ELSE "queued"
    IN  [r EXCEPT !.status = status,
                  !.completedAt = IF status = "queued" THEN NoTime ELSE at,
                  !.availableAt = at + LeaseExpiryBackoff(r.attemptCount),
                  !.updatedAt = Later(@, at),
                  !.revision = @ + 1]

RecoveredJobs(at) ==
    [j \in Jobs |->
        IF /\ \E a \in attempts : a.job = j /\ Lapsed(a, at)
           /\ jobs[j].status \in Claimed
        THEN Recovered(jobs[j], at) ELSE jobs[j]]

NewAttempt(j, number, n, at) ==
    [job |-> j, number |-> number, node |-> n, status |-> "running",
     heartbeatAt |-> at, leaseExpiresAt |-> at + Lease]

\* Rows another transaction holds locked are skipped, so the claim order
\* (available_at, created_at, id) is no promise: any claimable Job is taken.
Claimable(j, n, r, at) ==
    /\ r.availableAt <= at
    /\ CanStart(r, Later(r.updatedAt, at))
    /\ \A a \in AttemptsOf(j) : ~(a.node = n /\ a.status = "incompatible")

ClaimNext(n, at) ==
    \E j \in Jobs :
        LET r == RecoveredJobs(at)[j] IN
        /\ Claimable(j, n, r, at)
        /\ jobs' = [RecoveredJobs(at) EXCEPT ![j] = Started(r, Later(r.updatedAt, at))]
        /\ attempts' = ExpiredAttempts(at)
                         \cup {NewAttempt(j, r.attemptCount + 1, n, at)}
        /\ UNCHANGED <<now, occurrences, targets>>

\* Nothing claimable, or all of it locked: the recovery still commits.
RecoverOnly(at) ==
    /\ \E a \in attempts : Lapsed(a, at)
    /\ jobs' = RecoveredJobs(at)
    /\ attempts' = ExpiredAttempts(at)
    /\ UNCHANGED <<now, occurrences, targets>>

----------------------------------------------------------------------------
(* Calls of the worker that holds attempt a, current or long superseded.   *)
(* getFencedAttempt locks the attempt row and refuses a lost claim.        *)

\* Mutated form: the fence tests the lease alone.
FencedByLease(a, at) == at < a.leaseExpiresAt
Fenced(a, at) == a.status = "running" /\ at < a.leaseExpiresAt

ReplaceAttempt(a, b) == (attempts \ {a}) \cup {b}

\* Mutated form: a heartbeat is stamped with its own transaction start.
HeartbeatAtStart(a, at) ==
    /\ Fenced(a, at)
    /\ attempts' = ReplaceAttempt(a, Renewed(a, at))
    /\ UNCHANGED <<now, jobs, occurrences, targets>>

Heartbeat(a, at) ==
    /\ Fenced(a, at)
    /\ attempts' = ReplaceAttempt(a, Renewed(a, Later(a.heartbeatAt, at)))
    /\ UNCHANGED <<now, jobs, occurrences, targets>>

\* The checkpoint document is the number of the attempt that wrote it.
Checkpoint(a, at) ==
    LET r == jobs[a.job]
        jobAt == Later(r.updatedAt, at)
    IN  /\ Fenced(a, at)
        /\ CanUpdateProgress(r, jobAt)
        /\ r.revision < MaxRevision
        /\ jobs' = [jobs EXCEPT ![a.job] = Progressed(r, a.number, jobAt)]
        /\ UNCHANGED <<now, attempts, occurrences, targets>>

Reserved(r, at) ==
    [r EXCEPT !.workReserved = @ + 1, !.updatedAt = at, !.revision = @ + 1]

\* The statement tests the limit and not the status of the Job.
ReserveWork(a, at) ==
    LET r == jobs[a.job] IN
    /\ Fenced(a, at)
    /\ r.workReserved + 1 <= WorkLimit
    /\ jobs' = [jobs EXCEPT ![a.job] = Reserved(r, Later(r.updatedAt, at))]
    /\ UNCHANGED <<now, attempts, occurrences, targets>>

\* Mutated form: a cancellation requested meanwhile is overlooked.
EffectiveKindUnchanged(r, kind) == kind

\* A requeue cannot leave cancel_requested: it becomes the cancellation.
EffectiveKind(r, kind) ==
    IF r.status = "cancel_requested" /\ kind \in {"retryable", "relinquished"}
    THEN "canceled" ELSE kind

CanComplete(r, kind, at) ==
    CASE kind = "relinquished" -> CanRelinquish(r, at + RetryDelay, at)
      [] kind = "retryable" /\ r.attemptCount < r.maximumAttempts
           -> CanRetry(r, at + RetryDelay, at)
      [] OTHER -> CanFinish(r, at)

Completed(r, kind, at) ==
    CASE kind = "relinquished" -> Relinquished(r, at + RetryDelay, at)
      [] kind = "retryable" /\ r.attemptCount < r.maximumAttempts
           -> Requeued(r, at + RetryDelay, at)
      [] kind = "succeeded" -> Finished(r, "succeeded", at)
      [] kind = "canceled" -> Finished(r, "canceled", at)
      [] OTHER -> Finished(r, "failed", at)

AttemptStatus(kind) ==
    CASE kind = "succeeded" -> "succeeded"
      [] kind = "relinquished" -> "incompatible"
      [] kind = "canceled" -> "canceled"
      [] OTHER -> "failed"

Complete(a, requested, at) ==
    LET r == jobs[a.job]
        jobAt == Later(r.updatedAt, at)
        kind == EffectiveKind(r, requested)
    IN  /\ Fenced(a, at)
        /\ CanComplete(r, kind, jobAt)
        /\ jobs' = [jobs EXCEPT ![a.job] = Completed(r, kind, jobAt)]
        /\ attempts' = ReplaceAttempt(a, Ended(a, AttemptStatus(kind)))
        /\ UNCHANGED <<now, occurrences, targets>>

----------------------------------------------------------------------------
(* Operators: PrepareCancellation and PrepareRetry read the row; Cancel    *)
(* and Retry apply the control in a later transaction at that revision.    *)

Exists(j) == jobs[j].status \in JobStatuses

Prepare(o, j, kind) ==
    /\ Exists(j)
    /\ kind = "retry" => jobs[j].status \in {"failed", "canceled"}
    /\ targets' = [targets EXCEPT ![o] = {[job |-> j, revision |-> jobs[j].revision,
                                           kind |-> kind, seen |-> jobs[j]]}]
    /\ UNCHANGED <<now, jobs, attempts, occurrences>>

AtExpectedRevision(t) == Exists(t.job) /\ jobs[t.job].revision = t.revision

Cancel(o, at) ==
    \E t \in targets[o] :
        LET r == jobs[t.job]
            jobAt == Later(r.updatedAt, at)
        IN  /\ t.kind = "cancel" /\ AtExpectedRevision(t)
            /\ CanRequestCancellation(r, jobAt)
            /\ jobs' = [jobs EXCEPT ![t.job] = CancellationRequested(r, jobAt)]
            /\ targets' = [targets EXCEPT ![o] = {}]
            /\ UNCHANGED <<now, attempts, occurrences>>

\* Requeueing a Job whose key was taken meanwhile violates the unique index.
Retry(o, at) ==
    \E t \in targets[o] :
        LET r == jobs[t.job]
            jobAt == Later(r.updatedAt, at)
        IN  /\ t.kind = "retry" /\ AtExpectedRevision(t)
            /\ CanExplicitRetry(r, jobAt)
            /\ r.policy = "active" => ~ActiveKeyTaken(r.key)
            /\ r.revision < MaxRevision
            /\ jobs' = [jobs EXCEPT ![t.job] = ExplicitlyRetried(r, jobAt)]
            /\ targets' = [targets EXCEPT ![o] = {}]
            /\ UNCHANGED <<now, attempts, occurrences>>

----------------------------------------------------------------------------
(* Other writers of the table *)

\* A domain transaction withdraws the Job it no longer needs, for instance
\* the delivery Job of a suppressed mail, without a revision fence.
Withdraw(j, at) ==
    LET jobAt == Later(jobs[j].updatedAt, at) IN
    /\ CanRequestCancellation(jobs[j], jobAt)
    /\ jobs' = [jobs EXCEPT ![j] = CancellationRequested(jobs[j], jobAt)]
    /\ UNCHANGED <<now, attempts, occurrences, targets>>

PastRetention(r, at) ==
    \/ r.status \in {"succeeded", "canceled"} /\ r.completedAt <= at - Retention
    \/ r.status = "failed" /\ r.completedAt <= at - FailedRetention

Deleted(r) == [r EXCEPT !.status = "deleted"]

\* One page: rows that are locked, referenced or past the limit stay.
DeleteTerminalHistory(page, at) ==
    /\ page # {}
    /\ \A j \in page : PastRetention(jobs[j], at)
    /\ jobs' = [j \in Jobs |-> IF j \in page THEN Deleted(jobs[j]) ELSE jobs[j]]
    /\ attempts' = {a \in attempts : a.job \notin page}
    /\ UNCHANGED <<now, occurrences, targets>>

Tick ==
    /\ now < MaxTime
    /\ now' = now + 1
    /\ UNCHANGED <<jobs, attempts, occurrences, targets>>

----------------------------------------------------------------------------

Init ==
    /\ now = 0
    /\ jobs = [j \in Jobs |-> AbsentJob]
    /\ attempts = {}
    /\ occurrences = [k \in Keys |-> None]
    /\ targets = [o \in Operators |-> {}]

Enqueue ==
    \E j \in Jobs, k \in Keys, skew \in (-ClockSkew) .. ClockSkew :
        EnqueueActive(j, k, now + skew) \/ EnqueuePermanent(j, k, now + skew)

Claim == \E n \in Nodes, at \in TransactionTimes : ClaimNext(n, at)

Recovery == \E at \in TransactionTimes : RecoverOnly(at)

WorkerCall ==
    \E a \in attempts, at \in TransactionTimes :
        \/ Heartbeat(a, at)
        \/ Checkpoint(a, at)
        \/ ReserveWork(a, at)
        \/ \E kind \in Kinds : Complete(a, kind, at)

OperatorCall ==
    \E o \in Operators :
        \/ \E j \in Jobs, kind \in {"cancel", "retry"} : Prepare(o, j, kind)
        \/ \E at \in TransactionTimes : Cancel(o, at) \/ Retry(o, at)

Maintenance ==
    \E at \in TransactionTimes :
        \/ \E j \in Jobs : Withdraw(j, at)
        \/ \E page \in SUBSET Jobs : DeleteTerminalHistory(page, at)

Next == Enqueue \/ Claim \/ Recovery \/ WorkerCall \/ OperatorCall \/ Maintenance \/ Tick

Spec == Init /\ [][Next]_vars
----------------------------------------------------------------------------
(* Properties *)

\* Every row has its columns' types, and the clock is a natural number.
TypeOK ==
    /\ now \in Nat
    /\ jobs \in [Jobs -> Job]
    /\ attempts \in SUBSET Attempt
    /\ occurrences \in [Keys -> Jobs \cup {None}]
    /\ targets \in [Operators -> SUBSET Target]

\* A Job is running or cancel_requested exactly while one attempt of it is
\* running, and that attempt carries the Job's latest number: no two workers
\* ever hold the same Job, and no claim outlives its Job's requeue, end or
\* deletion (getFencedAttempt, Complete, ClaimNext).
ClaimsMatchJobs ==
    \A j \in Jobs :
        /\ \A a \in Running(j) : /\ jobs[j].status \in Claimed
                                 /\ a.number = jobs[j].attemptCount
        /\ jobs[j].status \in Claimed => Running(j) # {}

\* The attempts of a Job are numbered 1 .. attempt_count without a gap or a
\* repetition through retries, relinquishments, lease expiries and explicit
\* retries, so inserting an attempt never meets UNIQUE (job_id, number).
AttemptsNumbered ==
    \A j \in Jobs :
        Exists(j) =>
            /\ {a.number : a \in AttemptsOf(j)} = 1 .. jobs[j].attemptCount
            /\ \A a, b \in AttemptsOf(j) : a.number = b.number => a = b

\* A queued Job can still be claimed: no path requeues a Job whose attempts
\* are used up, which would leave it queued for ever (jobs_claim_idx query).
QueuedIsClaimable ==
    \A j \in Jobs :
        jobs[j].status = "queued" => jobs[j].attemptCount < jobs[j].maximumAttempts

\* The attempts of Job j that a node gave back, and how many others it may
\* have in all.
GivenBack(j) == {a \in AttemptsOf(j) : a.status = "incompatible"}
Allowance(j) == jobs[j].maximumAttempts - Cardinality(GivenBack(j))

\* A Job is run out at most as often as it may: a relinquished attempt gives
\* its slot back and no other attempt does, whether it failed, was canceled
\* or lost its lease.  Only an operator's explicit retry of a Job that ended
\* grants one execution more (Complete, ClaimNext, Retry).
FailureBudget ==
    [][\A j \in Jobs : Exists(j) /\ Exists(j)' =>
          /\ Cardinality(AttemptsOf(j) \ GivenBack(j))' <= Allowance(j)'
          /\ \/ Allowance(j)' <= Allowance(j)
             \/ /\ Allowance(j)' = Allowance(j) + 1
                /\ jobs[j].status \in {"failed", "canceled"}
                /\ \E o \in Operators : targets[o] # targets'[o]]_vars

\* The attempt a node relinquished as incompatible is its last on that Job.
IncompatibleNodeExcluded ==
    \A a, b \in attempts :
        (/\ a.job = b.job /\ a.node = b.node
         /\ a.status = "incompatible") => b.number <= a.number

\* An operator whose prepared revision still matches acts on exactly the row
\* it saw: a revision never stands for two different rows.
RevisionIdentifiesRow ==
    \A o \in Operators : \A t \in targets[o] :
        AtExpectedRevision(t) => jobs[t.job] = t.seen

\* A completion inside its lease is never refused, whatever the handler
\* reports and however late its transaction is: otherwise finished work would
\* wait for lease expiry and run again.
CompletionAccepted ==
    \A a \in attempts, at \in TransactionTimes, kind \in Kinds :
        LET r == jobs[a.job]
            jobAt == Later(r.updatedAt, at)
        IN  Fenced(a, at) => CanComplete(r, EffectiveKind(r, kind), jobAt)

\* At most one Job per actively deduplicated key is active, and a permanent
\* key never has a second Job, not even after its history was deleted.
Deduplicated ==
    \A i, j \in Jobs :
        (/\ i # j /\ jobs[i].key = jobs[j].key /\ jobs[i].key # None
         /\ jobs[i].policy = jobs[j].policy)
        => /\ jobs[i].policy = "active"
           /\ ~(jobs[i].status \in Active /\ jobs[j].status \in Active)

\* A superseded worker writes nothing: a checkpoint is only ever replaced by
\* the document of the attempt that holds the Job.
OnlyHolderCheckpoints ==
    [][\A j \in Jobs :
          jobs'[j].checkpoint # jobs[j].checkpoint =>
              /\ jobs[j].status \in Claimed
              /\ jobs'[j].checkpoint = jobs[j].attemptCount]_vars

\* A terminal Job only leaves its state through an operator's explicit retry
\* (not if it succeeded) or through the history cleanup, and a Job asked to
\* cancel is never queued or running again without such a retry.
TerminalStays ==
    [][\A j \in Jobs :
          /\ jobs[j].status = "succeeded" => jobs'[j].status \in {"succeeded", "deleted"}
          /\ jobs[j].status \in {"failed", "canceled"} =>
                \/ jobs'[j].status \in {jobs[j].status, "deleted"}
                \/ \E o \in Operators : targets[o] # targets'[o]
          /\ jobs[j].status = "cancel_requested" =>
                jobs'[j].status \in Terminal \cup {"cancel_requested"}]_vars

\* A lease the database clock has not reached is never shortened and never
\* expired by another node, even when heartbeats commit out of order.
LeaseHonoured ==
    [][\A a \in attempts : a.status = "running" =>
          \E b \in attempts' :
              /\ b.job = a.job /\ b.number = a.number
              /\ b.leaseExpiresAt >= a.leaseExpiresAt
              /\ b.status = "lease_expired" => a.leaseExpiresAt <= now]_vars
=============================================================================
