--------------------------- MODULE JobStoreProofs ---------------------------
(***************************************************************************)
(* The durable Job store, for any sets of Jobs, nodes, keys and operators  *)
(* and any lease, delay, lag and skew, in four parts.                      *)
(*   1. Every transaction keeps the two tables consistent: types, claims,  *)
(*      numbering and exclusions.  First what the transitions of model.Job *)
(*      and the steps of a transaction do to the tables, then each         *)
(*      transaction.                                                       *)
(*   2. How rows change over time: keys and the permanent ledger, prepared *)
(*      controls, checkpoints, terminal states and leases.                 *)
(*   3. The budget of executions.                                          *)
(*   4. Refinement: every committed transaction is a step of JobQueue, or  *)
(*      leaves what the users of the queue see as it is.                   *)
(***************************************************************************)
EXTENDS JobQueueRefinement, FiniteSetTheorems, TLAPS

\* A leaf that names no prover is tried with Zenon, then with SMT. SMT is listed
\* twice, here and at the leaves that need it: tlapm gives up on an encoding after
\* five seconds, and a second try starts afresh.
USE ZenonT(10), SMTT(30), SMTT(20), ZenonT(30)

\* The exponent table of leaseExpiryBackoff holds natural numbers.
LEMMA PowerOfTwoType == \A i \in 1 .. 11 : PowerOfTwo[i] \in Nat
  BY SMTT(30), SMTT(20) DEF PowerOfTwo

\* leaseExpiryBackoff yields a duration.
LEMMA BackoffType == \A c \in Nat : LeaseExpiryBackoff(c) \in Int
<1> SUFFICES ASSUME NEW c \in Nat PROVE LeaseExpiryBackoff(c) \in Int
  OBVIOUS
<1> DEFINE i == Smaller(Later(c - 1, 0), 10) + 1
<1>1. i \in 1 .. 11
  BY DEF Smaller, Later
<1>2. PowerOfTwo[i] \in Nat
  BY <1>1, PowerOfTwoType
<1> HIDE DEF i
<1>3. Lease * PowerOfTwo[i] \in Int
  BY <1>2, JobStoreAssumption
<1>4. QED
  BY <1>3, JobStoreAssumption DEF LeaseExpiryBackoff, i, Smaller

----------------------------------------------------------------------------
(* What each transition of model.Job does to the columns.                  *)

\* The columns no transition but NewJob writes stay as they are.
SameIdentity(r, u) == u.policy = r.policy /\ u.key = r.key

\* Job.Start counts the attempt.
LEMMA StartedFacts ==
  ASSUME NEW r \in Job, NEW at \in Int
  PROVE  /\ Started(r, at) \in Job /\ SameIdentity(r, Started(r, at))
         /\ Started(r, at).status = "running"
         /\ Started(r, at).attemptCount = r.attemptCount + 1
         /\ Started(r, at).maximumAttempts = r.maximumAttempts
         /\ Started(r, at).checkpoint = r.checkpoint
         /\ Started(r, at).revision = r.revision + 1
<1>1. r.attemptCount + 1 \in Nat /\ r.revision + 1 \in Nat
  BY SMTT(30), SMTT(20) DEF Job
<1>2. "running" \in JobStatuses \cup {"absent", "deleted"}
  BY DEF JobStatuses, Active
<1>3. QED
  BY <1>1, <1>2 DEF Started, Job, SameIdentity

\* Job.UpdateProgress replaces the checkpoint.
LEMMA ProgressedFacts ==
  ASSUME NEW r \in Job, NEW n \in Nat, NEW at \in Int
  PROVE  /\ Progressed(r, n, at) \in Job /\ SameIdentity(r, Progressed(r, n, at))
         /\ Progressed(r, n, at).status = r.status
         /\ Progressed(r, n, at).attemptCount = r.attemptCount
         /\ Progressed(r, n, at).maximumAttempts = r.maximumAttempts
         /\ Progressed(r, n, at).checkpoint = n
         /\ Progressed(r, n, at).revision = r.revision + 1
<1>1. r.revision + 1 \in Nat
  BY SMTT(30), SMTT(20) DEF Job
<1>2. QED
  BY <1>1 DEF Progressed, Job, SameIdentity

\* ReserveWork counts one unit.
LEMMA ReservedFacts ==
  ASSUME NEW r \in Job, NEW at \in Int
  PROVE  /\ Reserved(r, at) \in Job /\ SameIdentity(r, Reserved(r, at))
         /\ Reserved(r, at).status = r.status
         /\ Reserved(r, at).attemptCount = r.attemptCount
         /\ Reserved(r, at).maximumAttempts = r.maximumAttempts
         /\ Reserved(r, at).checkpoint = r.checkpoint
         /\ Reserved(r, at).revision = r.revision + 1
<1>1. r.revision + 1 \in Nat /\ r.workReserved + 1 \in Nat
  BY SMTT(30), SMTT(20) DEF Job
<1>2. QED
  BY <1>1 DEF Reserved, Job, SameIdentity

\* Job.Succeed, Job.Fail and Job.Cancel end the Job.
LEMMA FinishedFacts ==
  ASSUME NEW r \in Job, NEW s \in Terminal, NEW at \in Int
  PROVE  /\ Finished(r, s, at) \in Job /\ SameIdentity(r, Finished(r, s, at))
         /\ Finished(r, s, at).status = s
         /\ Finished(r, s, at).attemptCount = r.attemptCount
         /\ Finished(r, s, at).maximumAttempts = r.maximumAttempts
         /\ Finished(r, s, at).checkpoint = r.checkpoint
         /\ Finished(r, s, at).revision = r.revision + 1
<1>1. r.revision + 1 \in Nat
  BY SMTT(30), SMTT(20) DEF Job
<1>2. s \in JobStatuses \cup {"absent", "deleted"}
  BY DEF JobStatuses
<1>3. QED
  BY <1>1, <1>2 DEF Finished, Job, SameIdentity

\* Job.Retry requeues the Job.
LEMMA RequeuedFacts ==
  ASSUME NEW r \in Job, NEW av \in Int, NEW at \in Int
  PROVE  /\ Requeued(r, av, at) \in Job /\ SameIdentity(r, Requeued(r, av, at))
         /\ Requeued(r, av, at).status = "queued"
         /\ Requeued(r, av, at).attemptCount = r.attemptCount
         /\ Requeued(r, av, at).maximumAttempts = r.maximumAttempts
         /\ Requeued(r, av, at).checkpoint = r.checkpoint
         /\ Requeued(r, av, at).revision = r.revision + 1
<1>1. r.revision + 1 \in Nat
  BY SMTT(30), SMTT(20) DEF Job
<1>2. "queued" \in JobStatuses \cup {"absent", "deleted"}
  BY DEF JobStatuses, Active
<1>3. QED
  BY <1>1, <1>2 DEF Requeued, Job, SameIdentity

\* Job.Relinquish requeues the Job with one more slot.
LEMMA RelinquishedFacts ==
  ASSUME NEW r \in Job, NEW av \in Int, NEW at \in Int
  PROVE  /\ Relinquished(r, av, at) \in Job /\ SameIdentity(r, Relinquished(r, av, at))
         /\ Relinquished(r, av, at).status = "queued"
         /\ Relinquished(r, av, at).attemptCount = r.attemptCount
         /\ Relinquished(r, av, at).maximumAttempts = r.maximumAttempts + 1
         /\ Relinquished(r, av, at).checkpoint = r.checkpoint
         /\ Relinquished(r, av, at).revision = r.revision + 1
<1> DEFINE u == Requeued(r, av, at)
<1>1. u \in Job /\ SameIdentity(r, u) /\ u.status = "queued"
      /\ u.attemptCount = r.attemptCount /\ u.maximumAttempts = r.maximumAttempts
      /\ u.checkpoint = r.checkpoint /\ u.revision = r.revision + 1
  BY RequeuedFacts
<1> HIDE DEF u
<1>2. u.maximumAttempts + 1 \in Nat
  BY <1>1, SMTT(30), SMTT(20) DEF Job
<1>3. Relinquished(r, av, at) = [u EXCEPT !.maximumAttempts = u.maximumAttempts + 1]
  BY DEF u, Relinquished
<1>4. QED
  BY <1>1, <1>2, <1>3, ZenonT(60) DEF Job, SameIdentity

\* Job.ExplicitRetry requeues the Job for exactly one more attempt.
LEMMA ExplicitlyRetriedFacts ==
  ASSUME NEW r \in Job, NEW at \in Int
  PROVE  /\ ExplicitlyRetried(r, at) \in Job /\ SameIdentity(r, ExplicitlyRetried(r, at))
         /\ ExplicitlyRetried(r, at).status = "queued"
         /\ ExplicitlyRetried(r, at).attemptCount = r.attemptCount
         /\ ExplicitlyRetried(r, at).maximumAttempts = r.attemptCount + 1
         /\ ExplicitlyRetried(r, at).checkpoint = r.checkpoint
         /\ ExplicitlyRetried(r, at).revision = r.revision + 1
<1>1. r.revision + 1 \in Nat /\ r.attemptCount + 1 \in Nat /\ NoTime \in Int
  BY SMTT(30), SMTT(20) DEF Job, NoTime
<1>2. "queued" \in JobStatuses \cup {"absent", "deleted"}
  BY DEF JobStatuses, Active
<1>3. QED
  BY <1>1, <1>2 DEF ExplicitlyRetried, Job, SameIdentity

\* Job.RequestCancellation cancels queued work and marks running work.
LEMMA CancellationRequestedFacts ==
  ASSUME NEW r \in Job, NEW at \in Int
  PROVE  LET u == CancellationRequested(r, at) IN
         /\ u \in Job /\ SameIdentity(r, u)
         /\ u.status = IF r.status = "queued" THEN "canceled" ELSE "cancel_requested"
         /\ u.attemptCount = r.attemptCount
         /\ u.maximumAttempts = r.maximumAttempts
         /\ u.checkpoint = r.checkpoint
         /\ u.revision = r.revision + 1
<1>1. CASE r.status = "queued"
  BY <1>1, FinishedFacts, "canceled" \in Terminal DEF CancellationRequested, Terminal
<1>2. CASE r.status # "queued"
  <2>1. CancellationRequested(r, at)
          = [r EXCEPT !.status = "cancel_requested", !.updatedAt = at, !.revision = r.revision + 1]
    BY <1>2 DEF CancellationRequested
  <2>2. r.revision + 1 \in Nat
    BY SMTT(30), SMTT(20) DEF Job
  <2>3. "cancel_requested" \in JobStatuses \cup {"absent", "deleted"}
    BY DEF JobStatuses, Active
  <2>4. QED
    BY <1>2, <2>1, <2>2, <2>3, ZenonT(60) DEF Job, SameIdentity
<1>3. QED
  BY <1>1, <1>2

\* The recovery of a lost attempt cancels, fails or requeues its Job.
LEMMA RecoveredFacts ==
  ASSUME NEW r \in Job, NEW at \in Int
  PROVE  LET u == Recovered(r, at) IN
         /\ u \in Job /\ SameIdentity(r, u)
         /\ u.status \in Terminal \cup {"queued"}
         /\ u.status = "queued" => r.attemptCount < r.maximumAttempts
         /\ r.status = "cancel_requested" => u.status = "canceled"
         /\ u.attemptCount = r.attemptCount
         /\ u.maximumAttempts = r.maximumAttempts
         /\ u.checkpoint = r.checkpoint
         /\ u.revision = r.revision + 1
<1> DEFINE st == IF r.status = "cancel_requested" THEN "canceled"
                 ELSE IF r.attemptCount >= r.maximumAttempts THEN "failed"
                 ELSE "queued"
           ct == IF st = "queued" THEN NoTime ELSE at
           av == at + LeaseExpiryBackoff(r.attemptCount)
           up == Later(r.updatedAt, at)
<1>1. /\ st \in JobStatuses \cup {"absent", "deleted"}
      /\ st \in Terminal \cup {"queued"}
      /\ st = "queued" => r.attemptCount < r.maximumAttempts
      /\ r.status = "cancel_requested" => st = "canceled"
  BY SMTT(30), SMTT(20) DEF JobStatuses, Active, Terminal, Job
<1>2. r.revision + 1 \in Nat
  BY SMTT(30), SMTT(20) DEF Job
<1>3. ct \in Int /\ up \in Int
  BY SMTT(30), SMTT(20) DEF NoTime, Later, Job
<1>4. av \in Int
  BY BackoffType, SMTT(30), SMTT(20) DEF Job
<1>5. Recovered(r, at) = [r EXCEPT !.status = st, !.completedAt = ct, !.availableAt = av,
                                   !.updatedAt = up, !.revision = r.revision + 1]
  BY DEF Recovered
<1> HIDE DEF st, ct, av, up
<1>6. QED
  BY <1>1, <1>2, <1>3, <1>4, <1>5, ZenonT(60) DEF Job, SameIdentity

\* A completion ends the Job or requeues it with a slot to spare.
LEMMA CompletedFacts ==
  ASSUME NEW r \in Job, NEW kind \in Kinds, NEW at \in Int
  PROVE  LET u == Completed(r, kind, at) IN
         /\ u \in Job /\ SameIdentity(r, u)
         /\ u.status \in Terminal \cup {"queued"}
         /\ u.attemptCount = r.attemptCount
         /\ r.attemptCount <= r.maximumAttempts /\ u.status = "queued"
                => u.attemptCount < u.maximumAttempts
         /\ r.maximumAttempts <= u.maximumAttempts
         /\ u.checkpoint = r.checkpoint
         /\ u.revision = r.revision + 1
         /\ u.status = "queued" => kind \in {"retryable", "relinquished"}
<1>1. at + RetryDelay \in Int
  BY JobStoreAssumption
<1>2. CASE kind = "relinquished"
  BY <1>1, <1>2, RelinquishedFacts, JobStoreAssumption, SMTT(30), SMTT(20) DEF Completed, Job
<1>3. CASE kind = "retryable" /\ r.attemptCount < r.maximumAttempts
  <2>1. Completed(r, kind, at) = Requeued(r, at + RetryDelay, at)
    BY <1>3 DEF Completed
  <2>2. QED
    BY <1>1, <1>3, <2>1, RequeuedFacts, SMTT(30), SMTT(20) DEF Job
<1>4. CASE kind # "relinquished" /\ ~(kind = "retryable" /\ r.attemptCount < r.maximumAttempts)
  <2>1. PICK s \in Terminal : Completed(r, kind, at) = Finished(r, s, at)
    BY <1>4 DEF Completed, Terminal
  <2> DEFINE u == Finished(r, s, at)
  <2>2. /\ u \in Job /\ SameIdentity(r, u) /\ u.status = s
        /\ u.attemptCount = r.attemptCount /\ u.maximumAttempts = r.maximumAttempts
        /\ u.checkpoint = r.checkpoint /\ u.revision = r.revision + 1
    BY FinishedFacts, SMTT(30), SMTT(20)
  <2>3. s # "queued"
    BY DEF Terminal
  <2> HIDE DEF u
  <2>4. u.maximumAttempts \in Nat
    BY <2>2 DEF Job
  <2>5. QED
    BY <2>1, <2>2, <2>3, <2>4 DEF u
<1>5. QED
  BY <1>2, <1>3, <1>4

\* DeleteTerminalHistory removes the row; its identity is not reused.
LEMMA DeletedFacts ==
  ASSUME NEW r \in Job
  PROVE  /\ Deleted(r) \in Job /\ SameIdentity(r, Deleted(r))
         /\ Deleted(r).status = "deleted"
         /\ Deleted(r).attemptCount = r.attemptCount
         /\ Deleted(r).maximumAttempts = r.maximumAttempts
         /\ Deleted(r).checkpoint = r.checkpoint
         /\ Deleted(r).revision = r.revision
<1>1. "deleted" \in JobStatuses \cup {"absent", "deleted"}
  OBVIOUS
<1>2. QED
  BY <1>1 DEF Deleted, Job, SameIdentity

\* model.NewJob builds a queued row at revision 1.
LEMMA NewJobFacts ==
  ASSUME NEW k \in Keys, NEW p \in {"active", "permanent"}, NEW at \in Int
  PROVE  LET u == NewJob(k, p, at) IN
         /\ AbsentJob \in Job
         /\ u \in Job /\ u.status = "queued" /\ u.policy = p /\ u.key = k
         /\ u.attemptCount = 0 /\ u.maximumAttempts = MaximumAttempts
         /\ u.checkpoint = 0 /\ u.revision = 1
<1>1. AbsentJob \in Job
  BY DEF AbsentJob, Job, NoTime, None
<1>2. "queued" \in JobStatuses \cup {"absent", "deleted"}
  BY DEF JobStatuses, Active
<1>3. 1 \in Nat /\ MaximumAttempts \in Nat /\ k \in Keys \cup {None}
  BY JobStoreAssumption
<1>4. AbsentJob.attemptCount = 0 /\ AbsentJob.checkpoint = 0
  BY DEF AbsentJob
<1>5. QED
  BY <1>1, <1>2, <1>3, <1>4 DEF NewJob, Job

\* The transitions of model.JobAttempt keep job, number and node.
LEMMA AttemptFacts ==
  ASSUME NEW a \in Attempt, NEW at \in Int,
         NEW s \in {"succeeded", "failed", "canceled", "lease_expired", "incompatible"}
  PROVE  /\ Renewed(a, at) \in Attempt /\ Renewed(a, at).status = a.status
         /\ Renewed(a, at).job = a.job /\ Renewed(a, at).number = a.number
         /\ Renewed(a, at).node = a.node
         /\ Renewed(a, at).heartbeatAt = at /\ Renewed(a, at).leaseExpiresAt = at + Lease
         /\ Ended(a, s) \in Attempt /\ Ended(a, s).status = s
         /\ Ended(a, s).job = a.job /\ Ended(a, s).number = a.number
         /\ Ended(a, s).node = a.node
         /\ Ended(a, s).heartbeatAt = a.heartbeatAt
         /\ Ended(a, s).leaseExpiresAt = a.leaseExpiresAt
<1>1. at + Lease \in Int
  BY JobStoreAssumption
<1>2. s \in {"running", "succeeded", "failed", "canceled", "lease_expired", "incompatible"}
  OBVIOUS
<1>3. QED
  BY <1>1, <1>2 DEF Renewed, Ended, Attempt

----------------------------------------------------------------------------
(* The inductive invariant of the tables J (jobs) and A (job_attempts).    *)
(* It takes the tables as arguments because ClaimNext passes through an    *)
(* intermediate state: the recovery of lost attempts precedes the claim.   *)

Numbered(J, A) ==
  /\ \A a \in A : J[a.job].status \in JobStatuses /\ a.number <= J[a.job].attemptCount
  /\ \A a, b \in A : a.job = b.job /\ a.number = b.number => a = b
  /\ \A j \in Jobs : J[j].status \in JobStatuses =>
        \A n \in 1 .. J[j].attemptCount : \E a \in A : a.job = j /\ a.number = n

Exclusive(J, A) ==
  /\ \A a \in A : a.status = "running" =>
        J[a.job].status \in Claimed /\ a.number = J[a.job].attemptCount
  /\ \A j \in Jobs : J[j].status \in Claimed =>
        \E a \in A : a.job = j /\ a.status = "running"

Budgeted(J) ==
  \A j \in Jobs : /\ J[j].attemptCount <= J[j].maximumAttempts
                  /\ J[j].status = "queued" => J[j].attemptCount < J[j].maximumAttempts
                  /\ J[j].status = "absent" => J[j].attemptCount = 0

Excluded(A) ==
  \A a, b \in A : (a.job = b.job /\ a.node = b.node /\ a.status = "incompatible")
                    => b.number <= a.number

LeaseLength(A) == \A a \in A : a.leaseExpiresAt = a.heartbeatAt + Lease

Tables(J, A) ==
  /\ J \in [Jobs -> Job]
  /\ A \in SUBSET Attempt
  /\ Numbered(J, A)
  /\ Exclusive(J, A)
  /\ Budgeted(J)
  /\ Excluded(A)
  /\ LeaseLength(A)

\* A step that rewrites one row of jobs without starting, ending or
\* uncounting an attempt keeps the tables consistent.
LEMMA RowStep ==
  ASSUME NEW J, NEW A, Tables(J, A), NEW j \in Jobs, NEW u \in Job,
         J[j].status # "deleted", u.status \in JobStatuses,
         u.attemptCount = J[j].attemptCount,
         u.status \in Claimed <=> J[j].status \in Claimed,
         u.attemptCount <= u.maximumAttempts,
         u.status = "queued" => u.attemptCount < u.maximumAttempts
  PROVE  Tables([J EXCEPT ![j] = u], A)
<1> DEFINE K == [J EXCEPT ![j] = u]
<1>1. K \in [Jobs -> Job] /\ A \in SUBSET Attempt
  BY DEF Tables
<1>2. \A i \in Jobs : K[i] = IF i = j THEN u ELSE J[i]
  BY DEF Tables
<1>3. \A a \in A : a.job \in Jobs
  BY DEF Tables, Attempt
<1> HIDE DEF K
<1>4. Exclusive(K, A)
  BY <1>2, <1>3 DEF Tables, Exclusive
<1>5. Budgeted(K)
  BY <1>2 DEF Tables, Budgeted, JobStatuses, Active, Terminal
<1>6. Numbered(K, A)
  <2>1. \A a \in A : K[a.job].status \in JobStatuses /\ a.number <= K[a.job].attemptCount
    BY <1>2, <1>3 DEF Tables, Numbered
  <2>2. ASSUME NEW i \in Jobs, K[i].status \in JobStatuses, NEW n \in 1 .. K[i].attemptCount
        PROVE  \E a \in A : a.job = i /\ a.number = n
    <3>1. J[i].attemptCount = K[i].attemptCount /\ J[i].attemptCount \in Nat
      BY <1>2 DEF Tables, Job
    <3>2. CASE J[i].status \in JobStatuses
      BY <2>2, <3>1, <3>2, SMTT(30), SMTT(20) DEF Tables, Numbered
    <3>3. CASE J[i].status \notin JobStatuses
      <4>1. J[i].status = "absent"
        BY <1>2, <2>2, <3>3, SMTT(30), SMTT(20) DEF Tables, Job
      <4>2. J[i].attemptCount = 0
        BY <4>1 DEF Tables, Budgeted
      <4>3. QED
        BY <2>2, <3>1, <4>2
    <3>4. QED
      BY <3>2, <3>3
  <2>3. QED
    BY <2>1, <2>2 DEF Tables, Numbered
<1>7. QED
  BY <1>1, <1>4, <1>5, <1>6 DEF Tables, K

\* Replacing an attempt by one with the same job, number and node keeps the
\* numbering, whatever its new status.
LEMMA ReplacedAttempts ==
  ASSUME NEW J, NEW A, Tables(J, A), NEW a \in A, NEW b \in Attempt,
         b.job = a.job, b.number = a.number, b.node = a.node
  PROVE  /\ Numbered(J, (A \ {a}) \cup {b})
         /\ (A \ {a}) \cup {b} \in SUBSET Attempt
<1> DEFINE B == (A \ {a}) \cup {b}
<1>1. \A x \in B : x = b \/ (x \in A /\ x # a)
  OBVIOUS
<1>2. \A y \in A : \E x \in B : x.job = y.job /\ x.number = y.number
  OBVIOUS
<1> HIDE DEF B
<1>3. \A x \in B : J[x.job].status \in JobStatuses /\ x.number <= J[x.job].attemptCount
  BY <1>1 DEF Tables, Numbered
<1>4. ASSUME NEW x \in B, NEW y \in B, x.job = y.job, x.number = y.number
      PROVE  x = y
  <2>1. CASE x = b /\ y = b
    BY <2>1
  <2>2. CASE x # b /\ y # b
    BY <1>1, <1>4, <2>2 DEF Tables, Numbered
  <2>3. CASE x = b /\ y # b
    <3>1. y \in A /\ y # a
      BY <2>3, <1>1
    <3>2. y.job = a.job /\ y.number = a.number
      BY <2>3, <1>4
    <3>3. y = a
      BY <3>1, <3>2 DEF Tables, Numbered
    <3>4. QED
      BY <3>1, <3>3
  <2>4. CASE x # b /\ y = b
    <3>1. x \in A /\ x # a
      BY <2>4, <1>1
    <3>2. x = a
      BY <3>1, <2>4, <1>4, SMTT(30), SMTT(20) DEF Tables, Numbered
    <3>3. QED
      BY <3>1, <3>2
  <2>5. QED
    BY <2>1, <2>2, <2>3, <2>4
<1>5. \A j \in Jobs : J[j].status \in JobStatuses =>
        \A n \in 1 .. J[j].attemptCount : \E x \in B : x.job = j /\ x.number = n
  <2> SUFFICES ASSUME NEW j \in Jobs, J[j].status \in JobStatuses,
                      NEW n \in 1 .. J[j].attemptCount
               PROVE  \E x \in B : x.job = j /\ x.number = n
    OBVIOUS
  <2>1. PICK y \in A : y.job = j /\ y.number = n
    BY DEF Tables, Numbered
  <2>2. QED
    BY <1>2, <2>1
<1>6. B \in SUBSET Attempt
  BY DEF B, Tables
<1>7. QED
  BY <1>3, <1>4, <1>5, <1>6 DEF Numbered, B

\* Heartbeat: the running attempt stays running under a new lease.
LEMMA RenewStep ==
  ASSUME NEW J, NEW A, Tables(J, A), NEW a \in A, NEW b \in Attempt,
         a.status = "running", b.status = "running",
         b.job = a.job, b.number = a.number, b.node = a.node,
         b.leaseExpiresAt = b.heartbeatAt + Lease
  PROVE  Tables(J, (A \ {a}) \cup {b})
<1> DEFINE B == (A \ {a}) \cup {b}
<1>1. Numbered(J, B) /\ B \in SUBSET Attempt
  BY ReplacedAttempts
<1>2. \A x \in B : x = b \/ x \in A
  OBVIOUS
<1>3. \A x \in A : x # a => x \in B
  OBVIOUS
<1>4. b \in B
  OBVIOUS
<1> HIDE DEF B
<1>5. Exclusive(J, B)
  BY <1>2, <1>3, <1>4, SMTT(30), SMTT(20) DEF Tables, Exclusive
<1>6. Excluded(B)
  BY <1>2, SMTT(30), SMTT(20) DEF Tables, Excluded
<1>7. LeaseLength(B)
  BY <1>2 DEF Tables, LeaseLength
<1>8. QED
  BY <1>1, <1>5, <1>6, <1>7 DEF Tables, B

\* Complete: the running attempt ends together with its Job's claim.
LEMMA EndStep ==
  ASSUME NEW J, NEW A, Tables(J, A), NEW a \in A, NEW b \in Attempt, NEW u \in Job,
         a.status = "running", b.status # "running",
         b.job = a.job, b.number = a.number, b.node = a.node,
         b.leaseExpiresAt = b.heartbeatAt + Lease,
         u.status \in Terminal \cup {"queued"},
         u.attemptCount = J[a.job].attemptCount,
         u.attemptCount <= u.maximumAttempts,
         u.status = "queued" => u.attemptCount < u.maximumAttempts
  PROVE  Tables([J EXCEPT ![a.job] = u], (A \ {a}) \cup {b})
<1> DEFINE B == (A \ {a}) \cup {b}
           K == [J EXCEPT ![a.job] = u]
<1>1. Numbered(J, B) /\ B \in SUBSET Attempt
  BY ReplacedAttempts, SMTT(30), SMTT(20)
<1>2. \A x \in B : x = b \/ (x \in A /\ x # a)
  OBVIOUS
<1>3. \A x \in A : x # a => x \in B
  OBVIOUS
<1>4. a.job \in Jobs /\ a.number = J[a.job].attemptCount /\ J[a.job].status \in Claimed
  BY DEF Tables, Exclusive, Attempt
<1>5. /\ K \in [Jobs -> Job]
      /\ \A i \in Jobs : K[i] = IF i = a.job THEN u ELSE J[i]
  BY <1>4 DEF Tables
<1>6. \A x \in B : x.job \in Jobs
  BY <1>1 DEF Attempt
<1>7. u.status \in JobStatuses /\ u.status \notin Claimed /\ J[a.job].status \in JobStatuses
  BY <1>4 DEF JobStatuses, Active, Claimed, Terminal
<1>8. \A x \in B : x.job = a.job => x.status # "running"
  <2> SUFFICES ASSUME NEW x \in B, x.job = a.job, x.status = "running" PROVE FALSE
    OBVIOUS
  <2>1. x \in A /\ x # a
    BY <1>2
  <2>2. x.number = a.number
    BY <2>1, <1>4 DEF Tables, Exclusive
  <2>3. QED
    BY <2>1, <2>2 DEF Tables, Numbered
<1> HIDE DEF B, K
<1>9. Numbered(K, B)
  BY <1>1, <1>5, <1>6, <1>7, SMTT(30), SMTT(20) DEF Numbered
<1>10. Exclusive(K, B)
  <2>1. ASSUME NEW x \in B, x.status = "running"
        PROVE  K[x.job].status \in Claimed /\ x.number = K[x.job].attemptCount
    <3>1. x \in A /\ x.job # a.job /\ x.job \in Jobs
      BY <1>2, <1>6, <1>8, <2>1
    <3>2. QED
      BY <1>5, <2>1, <3>1 DEF Tables, Exclusive
  <2>2. ASSUME NEW j \in Jobs, K[j].status \in Claimed
        PROVE  \E x \in B : x.job = j /\ x.status = "running"
    <3>1. j # a.job /\ J[j].status \in Claimed
      BY <1>5, <1>7, <2>2
    <3>2. PICK x \in A : x.job = j /\ x.status = "running"
      BY <3>1 DEF Tables, Exclusive
    <3>3. QED
      BY <1>3, <3>1, <3>2
  <2>3. QED
    BY <2>1, <2>2 DEF Exclusive
<1>11. Budgeted(K)
  BY <1>5, <1>7 DEF Tables, Budgeted, JobStatuses, Active, Terminal
<1>12. Excluded(B)
  <2> SUFFICES ASSUME NEW x \in B, NEW y \in B, x.job = y.job, x.node = y.node,
                      x.status = "incompatible"
               PROVE  y.number <= x.number
    BY DEF Excluded
  <2>1. y.number <= K[y.job].attemptCount /\ y.number \in Nat /\ x.number \in Nat
    BY <1>1, <1>9 DEF Numbered, Attempt
  <2>2. CASE x = b
    BY <1>4, <1>5, <2>1, <2>2
  <2>3. CASE x # b /\ y = b
    BY <1>2, <2>3 DEF Tables, Excluded
  <2>4. CASE x # b /\ y # b
    BY <1>2, <2>4 DEF Tables, Excluded
  <2>5. QED
    BY <2>2, <2>3, <2>4
<1>13. LeaseLength(B)
  BY <1>2 DEF Tables, LeaseLength
<1>14. QED
  BY <1>1, <1>5, <1>9, <1>10, <1>11, <1>12, <1>13 DEF Tables, B, K

\* The attempts ClaimNext leaves behind are the old ones, the lapsed ended.
LEMMA ExpiredFacts ==
  ASSUME attempts \in SUBSET Attempt, NEW at \in Int
  PROVE  LET E == ExpiredAttempts(at) IN
         /\ E \in SUBSET Attempt
         /\ \A x \in E : \E y \in attempts :
               /\ x = IF Lapsed(y, at) THEN Ended(y, "lease_expired") ELSE y
               /\ x.job = y.job /\ x.number = y.number /\ x.node = y.node
               /\ x.heartbeatAt = y.heartbeatAt /\ x.leaseExpiresAt = y.leaseExpiresAt
               /\ x.status = IF Lapsed(y, at) THEN "lease_expired" ELSE y.status
         /\ \A y \in attempts : \E x \in E :
               /\ x.job = y.job /\ x.number = y.number /\ x.node = y.node
               /\ x.heartbeatAt = y.heartbeatAt /\ x.leaseExpiresAt = y.leaseExpiresAt
               /\ x.status = IF Lapsed(y, at) THEN "lease_expired" ELSE y.status
<1> DEFINE f(y) == IF Lapsed(y, at) THEN Ended(y, "lease_expired") ELSE y
           E == {f(y) : y \in attempts}
<1>1. ASSUME NEW y \in attempts
      PROVE  /\ f(y) \in Attempt
             /\ f(y).job = y.job /\ f(y).number = y.number /\ f(y).node = y.node
             /\ f(y).heartbeatAt = y.heartbeatAt /\ f(y).leaseExpiresAt = y.leaseExpiresAt
             /\ f(y).status = IF Lapsed(y, at) THEN "lease_expired" ELSE y.status
  <2>1. y \in Attempt
    OBVIOUS
  <2>2. CASE Lapsed(y, at)
    <3>1. "lease_expired" \in {"succeeded", "failed", "canceled", "lease_expired", "incompatible"}
      OBVIOUS
    <3>2. QED
      BY <2>1, <2>2, <3>1, AttemptFacts, SMTT(30), SMTT(20)
  <2>3. CASE ~Lapsed(y, at)
    BY <2>1, <2>3
  <2>4. QED
    BY <2>2, <2>3
<1>2. E = ExpiredAttempts(at)
  BY DEF ExpiredAttempts
<1>3. /\ \A x \in E : \E y \in attempts : x = f(y)
      /\ \A y \in attempts : f(y) \in E
  OBVIOUS
<1> HIDE DEF E, f
<1>4. E \in SUBSET Attempt
  BY <1>1, <1>3
<1>5. \A x \in E : \E y \in attempts :
         /\ x = f(y)
         /\ x.job = y.job /\ x.number = y.number /\ x.node = y.node
         /\ x.heartbeatAt = y.heartbeatAt /\ x.leaseExpiresAt = y.leaseExpiresAt
         /\ x.status = IF Lapsed(y, at) THEN "lease_expired" ELSE y.status
  BY <1>1, <1>3, SMTT(30), SMTT(20)
<1>6. \A y \in attempts : \E x \in E :
         /\ x.job = y.job /\ x.number = y.number /\ x.node = y.node
         /\ x.heartbeatAt = y.heartbeatAt /\ x.leaseExpiresAt = y.leaseExpiresAt
         /\ x.status = IF Lapsed(y, at) THEN "lease_expired" ELSE y.status
  BY <1>1, <1>3
<1>7. QED
  BY <1>2, <1>4, <1>5, <1>6 DEF f

\* The rows ClaimNext leaves behind: a Job with a lapsed attempt is
\* recovered, any other is untouched.
LEMMA RecoveredRows ==
  ASSUME Tables(jobs, attempts), NEW at \in Int
  PROVE  LET K == RecoveredJobs(at) IN
         /\ K \in [Jobs -> Job]
         /\ \A j \in Jobs : (\E a \in attempts : a.job = j /\ Lapsed(a, at)) =>
               /\ jobs[j].status \in Claimed /\ K[j] = Recovered(jobs[j], at)
         /\ \A j \in Jobs : ~(\E a \in attempts : a.job = j /\ Lapsed(a, at)) =>
               K[j] = jobs[j]
         /\ \A j \in Jobs : /\ K[j].attemptCount = jobs[j].attemptCount
                            /\ K[j].maximumAttempts = jobs[j].maximumAttempts
<1>1. \A j \in Jobs : jobs[j] \in Job
  BY DEF Tables
<1>2. \A j \in Jobs : RecoveredJobs(at)[j] =
         IF (\E a \in attempts : a.job = j /\ Lapsed(a, at)) /\ jobs[j].status \in Claimed
         THEN Recovered(jobs[j], at) ELSE jobs[j]
  BY DEF RecoveredJobs
<1>3. \A j \in Jobs : /\ Recovered(jobs[j], at) \in Job
                      /\ Recovered(jobs[j], at).attemptCount = jobs[j].attemptCount
                      /\ Recovered(jobs[j], at).maximumAttempts = jobs[j].maximumAttempts
  BY <1>1, RecoveredFacts
<1>4. RecoveredJobs(at) \in [Jobs -> Job]
  BY <1>1, <1>3 DEF RecoveredJobs
<1>5. \A j \in Jobs : (\E a \in attempts : a.job = j /\ Lapsed(a, at)) =>
          jobs[j].status \in Claimed
  BY DEF Tables, Exclusive, Lapsed
<1>6. QED
  BY <1>2, <1>3, <1>4, <1>5

\* The recovery of every lapsed attempt keeps the tables consistent.
LEMMA RecoverStep ==
  ASSUME Tables(jobs, attempts), NEW at \in Int
  PROVE  Tables(RecoveredJobs(at), ExpiredAttempts(at))
<1> DEFINE K == RecoveredJobs(at)
           E == ExpiredAttempts(at)
           Lost(j) == \E a \in attempts : a.job = j /\ Lapsed(a, at)
<1>1. attempts \in SUBSET Attempt /\ jobs \in [Jobs -> Job]
  BY DEF Tables
<1>2. /\ E \in SUBSET Attempt
      /\ \A x \in E : \E y \in attempts :
            /\ x = IF Lapsed(y, at) THEN Ended(y, "lease_expired") ELSE y
            /\ x.job = y.job /\ x.number = y.number /\ x.node = y.node
            /\ x.heartbeatAt = y.heartbeatAt /\ x.leaseExpiresAt = y.leaseExpiresAt
            /\ x.status = IF Lapsed(y, at) THEN "lease_expired" ELSE y.status
      /\ \A y \in attempts : \E x \in E :
            /\ x.job = y.job /\ x.number = y.number /\ x.node = y.node
            /\ x.heartbeatAt = y.heartbeatAt /\ x.leaseExpiresAt = y.leaseExpiresAt
            /\ x.status = IF Lapsed(y, at) THEN "lease_expired" ELSE y.status
  BY <1>1, ExpiredFacts
<1>3. /\ K \in [Jobs -> Job]
      /\ \A j \in Jobs : Lost(j) => jobs[j].status \in Claimed /\ K[j] = Recovered(jobs[j], at)
      /\ \A j \in Jobs : ~Lost(j) => K[j] = jobs[j]
      /\ \A j \in Jobs : /\ K[j].attemptCount = jobs[j].attemptCount
                         /\ K[j].maximumAttempts = jobs[j].maximumAttempts
  BY RecoveredRows
<1>4. \A j \in Jobs : Lost(j) => /\ K[j].status \in Terminal \cup {"queued"}
                                 /\ K[j].status = "queued" =>
                                      K[j].attemptCount < K[j].maximumAttempts
  <2>1. \A q \in Job :
           /\ Recovered(q, at).status \in Terminal \cup {"queued"}
           /\ Recovered(q, at).status = "queued" => q.attemptCount < q.maximumAttempts
    BY RecoveredFacts
  <2>2. QED
    BY <1>1, <1>3, <2>1, SMTT(30), SMTT(20)
<1>5. \A j \in Jobs : jobs[j].status \in JobStatuses <=> K[j].status \in JobStatuses
  BY <1>3, <1>4 DEF JobStatuses, Active, Claimed, Terminal
<1>6. \A a \in attempts : a.job \in Jobs /\ a.number \in Nat
  BY <1>1 DEF Attempt
<1> HIDE DEF K, E
<1>7. Numbered(K, E)
  <2>1. \A x \in E : K[x.job].status \in JobStatuses /\ x.number <= K[x.job].attemptCount
    <3>1. \A y \in attempts : K[y.job].status \in JobStatuses /\ y.number <= K[y.job].attemptCount
      BY <1>3, <1>5, <1>6 DEF Tables, Numbered
    <3>2. QED
      BY <1>2, <3>1
  <2>2. ASSUME NEW x \in E, NEW y \in E, x.job = y.job, x.number = y.number
        PROVE  x = y
    <3>1. PICK p \in attempts :
             /\ x = IF Lapsed(p, at) THEN Ended(p, "lease_expired") ELSE p
             /\ x.job = p.job /\ x.number = p.number
      BY <1>2
    <3>2. PICK q \in attempts :
             /\ y = IF Lapsed(q, at) THEN Ended(q, "lease_expired") ELSE q
             /\ y.job = q.job /\ y.number = q.number
      BY <1>2
    <3>3. p = q
      BY <2>2, <3>1, <3>2, SMTT(30), SMTT(20) DEF Tables, Numbered
    <3>4. QED
      BY <3>1, <3>2, <3>3
  <2>3. ASSUME NEW j \in Jobs, K[j].status \in JobStatuses, NEW n \in 1 .. K[j].attemptCount
        PROVE  \E x \in E : x.job = j /\ x.number = n
    <3>1. PICK y \in attempts : y.job = j /\ y.number = n
      BY <1>3, <1>5, <2>3, SMTT(30), SMTT(20) DEF Tables, Numbered
    <3>2. QED
      BY <1>2, <3>1
  <2>4. QED
    BY <2>1, <2>2, <2>3 DEF Numbered
<1>8. Exclusive(K, E)
  <2>1. ASSUME NEW x \in E, x.status = "running"
        PROVE  K[x.job].status \in Claimed /\ x.number = K[x.job].attemptCount
    <3>1. PICK y \in attempts : /\ x.job = y.job /\ x.number = y.number
                                /\ x.status = IF Lapsed(y, at) THEN "lease_expired" ELSE y.status
      BY <1>2
    <3>2. y.status = "running" /\ ~Lapsed(y, at)
      BY <2>1, <3>1
    <3>3. y.number = jobs[y.job].attemptCount /\ jobs[y.job].status \in Claimed
      BY <3>2 DEF Tables, Exclusive
    <3>4. ~Lost(y.job)
      <4> SUFFICES ASSUME NEW a \in attempts, a.job = y.job, Lapsed(a, at) PROVE FALSE
        OBVIOUS
      <4>1. a.number = y.number
        BY <3>3 DEF Tables, Exclusive, Lapsed
      <4>2. a = y
        BY <4>1 DEF Tables, Numbered
      <4>3. QED
        BY <3>2, <4>2
    <3>5. K[y.job] = jobs[y.job]
      BY <1>3, <1>6, <3>4
    <3>6. QED
      BY <3>1, <3>3, <3>5
  <2>2. ASSUME NEW j \in Jobs, K[j].status \in Claimed
        PROVE  \E x \in E : x.job = j /\ x.status = "running"
    <3>1. ~Lost(j)
      BY <1>4, <2>2 DEF Claimed, Terminal
    <3>2. jobs[j].status \in Claimed
      BY <1>3, <2>2, <3>1
    <3>3. PICK y \in attempts : y.job = j /\ y.status = "running"
      BY <3>2 DEF Tables, Exclusive
    <3>4. ~Lapsed(y, at)
      BY <3>1, <3>3
    <3>5. QED
      BY <1>2, <3>3, <3>4, SMTT(30), SMTT(20)
  <2>3. QED
    BY <2>1, <2>2 DEF Exclusive
<1>9. Budgeted(K)
  <2> SUFFICES ASSUME NEW j \in Jobs
               PROVE  /\ K[j].attemptCount <= K[j].maximumAttempts
                      /\ K[j].status = "queued" => K[j].attemptCount < K[j].maximumAttempts
                      /\ K[j].status = "absent" => K[j].attemptCount = 0
    BY DEF Budgeted
  <2>1. CASE Lost(j)
    BY <1>3, <1>4, <2>1 DEF Tables, Budgeted, Terminal
  <2>2. CASE ~Lost(j)
    BY <1>3, <2>2 DEF Tables, Budgeted
  <2>3. QED
    BY <2>1, <2>2
<1>10. Excluded(E)
  <2> SUFFICES ASSUME NEW x \in E, NEW y \in E, x.job = y.job, x.node = y.node,
                      x.status = "incompatible"
               PROVE  y.number <= x.number
    BY DEF Excluded
  <2>1. PICK p \in attempts : /\ x.job = p.job /\ x.number = p.number /\ x.node = p.node
                              /\ x.status = IF Lapsed(p, at) THEN "lease_expired" ELSE p.status
    BY <1>2
  <2>2. PICK q \in attempts : y.job = q.job /\ y.number = q.number /\ y.node = q.node
    BY <1>2
  <2>3. p.status = "incompatible"
    BY <2>1
  <2>4. QED
    BY <2>1, <2>2, <2>3 DEF Tables, Excluded
<1>11. LeaseLength(E)
  BY <1>2, SMTT(30), SMTT(20) DEF Tables, LeaseLength
<1>12. QED
  BY <1>2, <1>3, <1>7, <1>8, <1>9, <1>10, <1>11 DEF Tables, K, E

\* ClaimNext after the recovery: a queued Job gets its next attempt.
LEMMA StartStep ==
  ASSUME NEW J, NEW A, Tables(J, A), NEW j \in Jobs, NEW u \in Job, NEW b \in Attempt,
         J[j].status = "queued", u.status = "running",
         u.attemptCount = J[j].attemptCount + 1,
         u.maximumAttempts = J[j].maximumAttempts,
         b.job = j, b.number = J[j].attemptCount + 1, b.status = "running",
         b.leaseExpiresAt = b.heartbeatAt + Lease,
         \A x \in A : ~(x.job = j /\ x.node = b.node /\ x.status = "incompatible")
  PROVE  Tables([J EXCEPT ![j] = u], A \cup {b})
<1> DEFINE K == [J EXCEPT ![j] = u]
           B == A \cup {b}
<1>1. /\ K \in [Jobs -> Job] /\ B \in SUBSET Attempt
      /\ \A i \in Jobs : K[i] = IF i = j THEN u ELSE J[i]
  BY DEF Tables
<1>2. \A x \in B : x.job \in Jobs /\ x.number \in Nat
  BY <1>1 DEF Attempt
<1>3. /\ J[j].attemptCount \in Nat
      /\ J[j].attemptCount < J[j].maximumAttempts
      /\ \A x \in A : x.job = j => x.number <= J[j].attemptCount
  BY DEF Tables, Job, Numbered, Budgeted
<1>4. u.status \in JobStatuses /\ J[j].status \in JobStatuses /\ u.status \in Claimed
      /\ J[j].status \notin Claimed
  BY DEF JobStatuses, Active, Claimed
<1>5. \A x \in B : x = b \/ x \in A
  OBVIOUS
<1>6. b \in B /\ A \subseteq B
  OBVIOUS
<1> HIDE DEF K, B
<1>7. Numbered(K, B)
  <2>1. ASSUME NEW x \in B
        PROVE  K[x.job].status \in JobStatuses /\ x.number <= K[x.job].attemptCount
    <3>1. CASE x = b
      BY <1>1, <1>3, <1>4, <3>1, SMTT(30), SMTT(20)
    <3>2. CASE x \in A /\ x.job = j
      BY <1>1, <1>2, <1>3, <1>4, <3>2, SMTT(30), SMTT(20)
    <3>3. CASE x \in A /\ x.job # j
      BY <1>1, <1>2, <3>3 DEF Tables, Numbered
    <3>4. QED
      BY <1>5, <3>1, <3>2, <3>3
  <2>2. ASSUME NEW x \in B, NEW y \in B, x.job = y.job, x.number = y.number
        PROVE  x = y
    <3>1. CASE x \in A /\ y \in A
      BY <2>2, <3>1 DEF Tables, Numbered
    <3>2. CASE x = b /\ y \in A
      BY <1>2, <1>3, <2>2, <3>2
    <3>3. CASE x \in A /\ y = b
      BY <1>2, <1>3, <2>2, <3>3
    <3>4. QED
      BY <1>5, <3>1, <3>2, <3>3
  <2>3. ASSUME NEW i \in Jobs, K[i].status \in JobStatuses, NEW n \in 1 .. K[i].attemptCount
        PROVE  \E x \in B : x.job = i /\ x.number = n
    <3>1. CASE i = j /\ n = J[j].attemptCount + 1
      BY <1>6, <3>1
    <3>2. CASE i = j /\ n # J[j].attemptCount + 1
      <4>1. n \in 1 .. J[j].attemptCount
        BY <1>1, <1>3, <2>3, <3>2, SMTT(30), SMTT(20)
      <4>2. QED
        <5>1. \E x \in A : x.job = j /\ x.number = n
          BY <1>4, <4>1 DEF Tables, Numbered
        <5>2. QED
          BY <1>6, <3>2, <5>1
    <3>3. CASE i # j
      BY <1>1, <1>6, <2>3, <3>3, SMTT(30), SMTT(20) DEF Tables, Numbered
    <3>4. QED
      BY <3>1, <3>2, <3>3
  <2>4. QED
    BY <2>1, <2>2, <2>3 DEF Numbered
<1>8. Exclusive(K, B)
  <2>1. ASSUME NEW x \in B, x.status = "running"
        PROVE  K[x.job].status \in Claimed /\ x.number = K[x.job].attemptCount
    <3>1. CASE x = b
      BY <1>1, <1>4, <3>1
    <3>2. CASE x \in A
      <4>1. x.job # j
        BY <1>4, <2>1, <3>2 DEF Tables, Exclusive
      <4>2. QED
        BY <1>1, <1>2, <2>1, <3>2, <4>1 DEF Tables, Exclusive
    <3>3. QED
      BY <1>5, <3>1, <3>2
  <2>2. ASSUME NEW i \in Jobs, K[i].status \in Claimed
        PROVE  \E x \in B : x.job = i /\ x.status = "running"
    <3>1. CASE i = j
      BY <1>6, <3>1
    <3>2. CASE i # j
      BY <1>1, <1>6, <2>2, <3>2 DEF Tables, Exclusive
    <3>3. QED
      BY <3>1, <3>2
  <2>3. QED
    BY <2>1, <2>2 DEF Exclusive
<1>9. Budgeted(K)
  <2>1. u.maximumAttempts \in Nat /\ u.attemptCount <= u.maximumAttempts
    BY <1>3, SMTT(30), SMTT(20) DEF Job
  <2>2. QED
    BY <1>1, <2>1 DEF Tables, Budgeted
<1>10. Excluded(B)
  <2> SUFFICES ASSUME NEW x \in B, NEW y \in B, x.job = y.job, x.node = y.node,
                      x.status = "incompatible"
               PROVE  y.number <= x.number
    BY DEF Excluded
  <2>1. x \in A
    BY <1>5
  <2>2. y # b
    BY <2>1
  <2>3. QED
    BY <1>5, <2>1, <2>2 DEF Tables, Excluded
<1>11. LeaseLength(B)
  BY <1>5 DEF Tables, LeaseLength
<1>12. QED
  BY <1>1, <1>7, <1>8, <1>9, <1>10, <1>11 DEF Tables, K, B

\* DeleteTerminalHistory removes terminal rows together with their attempts.
LEMMA DeleteStep ==
  ASSUME NEW J, NEW A, Tables(J, A), NEW page \in SUBSET Jobs,
         \A j \in page : J[j].status \in Terminal
  PROVE  Tables([j \in Jobs |-> IF j \in page THEN Deleted(J[j]) ELSE J[j]],
                {a \in A : a.job \notin page})
<1> DEFINE K == [j \in Jobs |-> IF j \in page THEN Deleted(J[j]) ELSE J[j]]
           B == {a \in A : a.job \notin page}
<1>1. \A j \in Jobs : /\ Deleted(J[j]) \in Job /\ Deleted(J[j]).status = "deleted"
                      /\ Deleted(J[j]).attemptCount = J[j].attemptCount
                      /\ Deleted(J[j]).maximumAttempts = J[j].maximumAttempts
  BY DeletedFacts DEF Tables
<1>2. \A j \in Jobs : K[j] = IF j \in page THEN Deleted(J[j]) ELSE J[j]
  OBVIOUS
<1>3. K \in [Jobs -> Job] /\ B \in SUBSET Attempt
  BY <1>1 DEF Tables
<1>4. \A x \in B : x \in A /\ x.job \notin page /\ x.job \in Jobs
  BY <1>3 DEF Attempt
<1>5. \A x \in A : x.job \notin page => x \in B
  OBVIOUS
<1>6. "deleted" \notin JobStatuses /\ "deleted" \notin Claimed
  BY DEF JobStatuses, Active, Claimed, Terminal
<1> HIDE DEF K, B
<1>7. \A j \in Jobs : K[j].status \in JobStatuses => j \notin page /\ K[j] = J[j]
  BY <1>1, <1>2, <1>6
<1>8. \A x \in B : K[x.job] = J[x.job]
  BY <1>2, <1>4
<1>9. Numbered(K, B)
  BY <1>4, <1>5, <1>7, <1>8, SMTT(30), SMTT(20) DEF Tables, Numbered
<1>10. \A j \in Jobs : K[j].status \in Claimed => j \notin page /\ K[j] = J[j]
  BY <1>1, <1>2, <1>6
<1>11. Exclusive(K, B)
  BY <1>4, <1>5, <1>8, <1>10, SMTT(30), SMTT(20) DEF Tables, Exclusive
<1>12. Budgeted(K)
  BY <1>1, <1>2 DEF Tables, Budgeted
<1>13. Excluded(B) /\ LeaseLength(B)
  BY <1>4 DEF Tables, Excluded, LeaseLength
<1>14. QED
  BY <1>3, <1>9, <1>11, <1>12, <1>13 DEF Tables, K, B

----------------------------------------------------------------------------
(* Every transaction keeps the tables consistent.                          *)

Consistent == now \in Nat /\ Tables(jobs, attempts)

\* A transaction's start is an instant, and so is the transition it stamps.
LEMMA StampType ==
  ASSUME now \in Nat, NEW r \in Job, NEW at \in TransactionTimes
  PROVE  at \in Int /\ Later(r.updatedAt, at) \in Int /\ Later(r.updatedAt, at) >= r.updatedAt
  BY SMTT(30), SMTT(20) DEF TransactionTimes, Later, Job

\* Enqueue adds a queued row that has no attempts.
LEMMA EnqueueKeeps == ASSUME Consistent, Enqueue PROVE Tables(jobs, attempts)'
<1>1. PICK j \in Jobs, k \in Keys, skew \in (-ClockSkew) .. ClockSkew :
         EnqueueActive(j, k, now + skew) \/ EnqueuePermanent(j, k, now + skew)
  BY DEF Enqueue
<1>2. now + skew \in Int
  BY JobStoreAssumption DEF Consistent
<1>3. PICK p \in {"active", "permanent"} :
         /\ jobs[j].status = "absent" /\ attempts' = attempts
         /\ jobs' = [jobs EXCEPT ![j] = NewJob(k, p, now + skew)]
  BY <1>1 DEF EnqueueActive, EnqueuePermanent
<1> DEFINE u == NewJob(k, p, now + skew)
<1>4. /\ u \in Job /\ u.status = "queued"
      /\ u.attemptCount = 0 /\ u.maximumAttempts = MaximumAttempts
  BY <1>2, NewJobFacts, SMTT(30), SMTT(20)
<1> HIDE DEF u
<1>5. /\ u.attemptCount = jobs[j].attemptCount /\ jobs[j].status # "deleted"
      /\ u.status \in JobStatuses /\ (u.status \in Claimed <=> jobs[j].status \in Claimed)
      /\ u.attemptCount <= u.maximumAttempts /\ u.attemptCount < u.maximumAttempts
  BY <1>3, <1>4, JobStoreAssumption, SMTT(30), SMTT(20)
     DEF Consistent, Tables, Budgeted, JobStatuses, Active, Claimed
<1>6. Tables([jobs EXCEPT ![j] = u], attempts)
  BY <1>4, <1>5, RowStep DEF Consistent
<1>7. QED
  BY <1>3, <1>6 DEF u

\* ClaimNext: the recovery step followed by the start of one Job.
LEMMA ClaimKeeps == ASSUME Consistent, Claim PROVE Tables(jobs, attempts)'
<1>1. PICK n \in Nodes, at \in TransactionTimes : ClaimNext(n, at)
  BY DEF Claim
<1> DEFINE J == RecoveredJobs(at)
           A == ExpiredAttempts(at)
<1>2. at \in Int
  BY DEF TransactionTimes
<1>3. Tables(J, A)
  BY <1>2, RecoverStep DEF Consistent
<1>4. PICK j \in Jobs :
         /\ Claimable(j, n, J[j], at)
         /\ jobs' = [J EXCEPT ![j] = Started(J[j], Later(J[j].updatedAt, at))]
         /\ attempts' = A \cup {NewAttempt(j, J[j].attemptCount + 1, n, at)}
  BY <1>1 DEF ClaimNext
<1> DEFINE u == Started(J[j], Later(J[j].updatedAt, at))
           b == NewAttempt(j, J[j].attemptCount + 1, n, at)
<1>5. J[j] \in Job
  BY <1>3 DEF Tables
<1>6. Later(J[j].updatedAt, at) \in Int
  BY <1>2, <1>5 DEF Later, Job
<1>7. /\ u \in Job /\ u.status = "running"
      /\ u.attemptCount = J[j].attemptCount + 1
      /\ u.maximumAttempts = J[j].maximumAttempts
  BY <1>5, <1>6, StartedFacts
<1>8. J[j].status = "queued"
  BY <1>4 DEF Claimable, CanStart
<1>9. /\ b \in Attempt /\ b.job = j /\ b.number = J[j].attemptCount + 1
      /\ b.status = "running" /\ b.node = n /\ b.leaseExpiresAt = b.heartbeatAt + Lease
  <2>1. J[j].attemptCount + 1 \in Nat \ {0}
    BY <1>5, SMTT(30), SMTT(20) DEF Job
  <2>2. at + Lease \in Int
    BY <1>2, JobStoreAssumption
  <2>3. QED
    BY <1>2, <2>1, <2>2 DEF NewAttempt, Attempt
<1>10. \A x \in A : ~(x.job = j /\ x.node = b.node /\ x.status = "incompatible")
  <2> SUFFICES ASSUME NEW x \in A, x.job = j, x.node = n, x.status = "incompatible"
               PROVE  FALSE
    BY <1>9
  <2>1. attempts \in SUBSET Attempt
    BY DEF Consistent, Tables
  <2>2. PICK y \in attempts : /\ x.job = y.job /\ x.node = y.node
                              /\ x.status = IF Lapsed(y, at) THEN "lease_expired" ELSE y.status
    BY <1>2, <2>1, ExpiredFacts
  <2>3. y.status = "incompatible"
    BY <2>2
  <2>4. QED
    BY <1>4, <2>2, <2>3 DEF Claimable, AttemptsOf
<1> HIDE DEF J, A, u, b
<1>11. Tables([J EXCEPT ![j] = u], A \cup {b})
  BY <1>3, <1>7, <1>8, <1>9, <1>10, StartStep
<1>12. QED
  BY <1>4, <1>11 DEF u, b

\* The recovery commits even when nothing is claimed.
LEMMA RecoveryKeeps == ASSUME Consistent, Recovery PROVE Tables(jobs, attempts)'
<1>1. PICK at \in TransactionTimes : RecoverOnly(at)
  BY DEF Recovery
<1>2. at \in Int
  BY DEF TransactionTimes
<1>3. QED
  BY <1>1, <1>2, RecoverStep DEF Consistent, RecoverOnly

\* Heartbeat, Checkpoint, ReserveWork and Complete act under the fence.
LEMMA WorkerKeeps == ASSUME Consistent, WorkerCall PROVE Tables(jobs, attempts)'
<1>1. PICK a \in attempts, at \in TransactionTimes :
         \/ Heartbeat(a, at) \/ Checkpoint(a, at) \/ ReserveWork(a, at)
         \/ \E kind \in Kinds : Complete(a, kind, at)
  BY DEF WorkerCall
<1> DEFINE r == jobs[a.job]
           jobAt == Later(r.updatedAt, at)
<1>2. a \in Attempt /\ a.job \in Jobs /\ r \in Job
  BY DEF Consistent, Tables, Attempt
<1>3. at \in Int /\ jobAt \in Int
  BY <1>2, StampType DEF Consistent
<1>4. a.status = "running" /\ r.status \in Claimed /\ a.number \in Nat
      /\ r.attemptCount <= r.maximumAttempts /\ r.status \in JobStatuses
      /\ r.status # "deleted" /\ r.status # "queued"
  <2>1. a.status = "running"
    BY <1>1 DEF Heartbeat, Checkpoint, ReserveWork, Complete, Fenced
  <2>2. r.status \in Claimed /\ r.attemptCount <= r.maximumAttempts
    BY <1>2, <2>1 DEF Consistent, Tables, Exclusive, Budgeted
  <2>3. a.number \in Nat
    BY <1>2 DEF Attempt
  <2>4. r.status \in JobStatuses /\ r.status # "deleted" /\ r.status # "queued"
    <3> HIDE DEF r
    <3>1. QED
      BY <2>2 DEF Claimed, JobStatuses, Active
  <2>5. QED
    BY <2>1, <2>2, <2>3, <2>4
<1>5. CASE Heartbeat(a, at)
  <2> DEFINE hb == Later(a.heartbeatAt, at)
             b == Renewed(a, hb)
  <2>1. hb \in Int
    BY <1>2, <1>3 DEF Later, Attempt
  <2>2. /\ b \in Attempt /\ b.status = a.status /\ b.job = a.job /\ b.number = a.number
        /\ b.node = a.node /\ b.heartbeatAt = hb /\ b.leaseExpiresAt = hb + Lease
    BY <1>2, <2>1, AttemptFacts, SMTT(30), SMTT(20)
  <2>3. jobs' = jobs /\ attempts' = (attempts \ {a}) \cup {b}
    BY <1>5 DEF Heartbeat, ReplaceAttempt
  <2> HIDE DEF b
  <2>4. Tables(jobs, (attempts \ {a}) \cup {b})
    BY <1>4, <2>2, RenewStep DEF Consistent
  <2>5. QED
    BY <2>3, <2>4
<1>6. CASE Checkpoint(a, at)
  <2> DEFINE u == Progressed(r, a.number, jobAt)
  <2>1. /\ u \in Job /\ u.status = r.status /\ u.attemptCount = r.attemptCount
        /\ u.maximumAttempts = r.maximumAttempts
    <3> HIDE DEF r, jobAt
    <3>1. r \in Job /\ a.number \in Nat /\ jobAt \in Int
      BY <1>2, <1>3, <1>4
    <3>2. \A q \in Job, n \in Nat, t \in Int :
             /\ Progressed(q, n, t) \in Job /\ Progressed(q, n, t).status = q.status
             /\ Progressed(q, n, t).attemptCount = q.attemptCount
             /\ Progressed(q, n, t).maximumAttempts = q.maximumAttempts
      BY ProgressedFacts, SMTT(30), SMTT(20)
    <3>3. QED
      BY <3>1, <3>2
  <2>2. jobs' = [jobs EXCEPT ![a.job] = u] /\ attempts' = attempts
    BY <1>6 DEF Checkpoint
  <2> HIDE DEF u
  <2>3. Tables([jobs EXCEPT ![a.job] = u], attempts)
    BY <1>2, <1>4, <2>1, RowStep DEF Consistent
  <2>4. QED
    BY <2>2, <2>3
<1>7. CASE ReserveWork(a, at)
  <2> DEFINE u == Reserved(r, jobAt)
  <2>1. /\ u \in Job /\ u.status = r.status /\ u.attemptCount = r.attemptCount
        /\ u.maximumAttempts = r.maximumAttempts
    BY <1>2, <1>3, ReservedFacts
  <2>2. jobs' = [jobs EXCEPT ![a.job] = u] /\ attempts' = attempts
    BY <1>7 DEF ReserveWork
  <2> HIDE DEF u
  <2>3. Tables([jobs EXCEPT ![a.job] = u], attempts)
    BY <1>2, <1>4, <2>1, RowStep DEF Consistent
  <2>4. QED
    BY <2>2, <2>3
<1>8. CASE \E kind \in Kinds : Complete(a, kind, at)
  <2>1. PICK q \in Kinds : Complete(a, q, at)
    BY <1>8
  <2> DEFINE kind == EffectiveKind(r, q)
             u == Completed(r, kind, jobAt)
             b == Ended(a, AttemptStatus(kind))
  <2>2. kind \in Kinds
    BY DEF EffectiveKind, Kinds
  <2>3. AttemptStatus(kind) \in {"succeeded", "failed", "canceled", "lease_expired", "incompatible"}
    BY DEF AttemptStatus
  <2>4. /\ b \in Attempt /\ b.status = AttemptStatus(kind) /\ b.job = a.job
        /\ b.number = a.number /\ b.node = a.node
        /\ b.heartbeatAt = a.heartbeatAt /\ b.leaseExpiresAt = a.leaseExpiresAt
    BY <1>2, <2>3, AttemptFacts, SMTT(30), SMTT(20)
  <2>5. b.status # "running"
    BY <2>3, <2>4
  <2>6. b.leaseExpiresAt = b.heartbeatAt + Lease
    BY <2>4 DEF Consistent, Tables, LeaseLength
  <2>7. /\ u \in Job /\ u.status \in Terminal \cup {"queued"}
        /\ u.attemptCount = r.attemptCount /\ r.maximumAttempts <= u.maximumAttempts
        /\ u.status = "queued" => u.attemptCount < u.maximumAttempts
    <3> HIDE DEF r, jobAt, kind
    <3>1. /\ u \in Job /\ u.status \in Terminal \cup {"queued"}
          /\ u.attemptCount = r.attemptCount
          /\ r.attemptCount <= r.maximumAttempts /\ u.status = "queued"
                => u.attemptCount < u.maximumAttempts
          /\ r.maximumAttempts <= u.maximumAttempts
      BY <1>2, <1>3, <2>2, CompletedFacts, SMTT(30), SMTT(20)
    <3> HIDE DEF u
    <3>2. QED
      BY <1>4, <3>1
  <2>8. /\ jobs' = [jobs EXCEPT ![a.job] = u]
        /\ attempts' = (attempts \ {a}) \cup {b}
    BY <2>1 DEF Complete, ReplaceAttempt
  <2> HIDE DEF u, b, kind
  <2>9. u.attemptCount <= u.maximumAttempts
    BY <1>2, <1>4, <2>7, SMTT(30), SMTT(20) DEF Job
  <2>10. Tables([jobs EXCEPT ![a.job] = u], (attempts \ {a}) \cup {b})
    BY <1>4, <2>4, <2>5, <2>6, <2>7, <2>9, EndStep DEF Consistent
  <2>11. QED
    BY <2>8, <2>10
<1>9. QED
  BY <1>1, <1>5, <1>6, <1>7, <1>8

\* Job.RequestCancellation on an existing row, by an operator or a domain
\* transaction.
LEMMA CancellationKeeps ==
  ASSUME Consistent, NEW j \in Jobs, NEW at \in TransactionTimes,
         LET jobAt == Later(jobs[j].updatedAt, at) IN
           /\ CanRequestCancellation(jobs[j], jobAt)
           /\ jobs' = [jobs EXCEPT ![j] = CancellationRequested(jobs[j], jobAt)],
         attempts' = attempts
  PROVE  Tables(jobs, attempts)'
<1> DEFINE r == jobs[j]
           jobAt == Later(r.updatedAt, at)
           u == CancellationRequested(r, jobAt)
<1>1. r \in Job
  BY DEF Consistent, Tables
<1>2. jobAt \in Int
  BY <1>1, StampType DEF Consistent
<1>3. /\ u \in Job /\ u.attemptCount = r.attemptCount /\ u.maximumAttempts = r.maximumAttempts
      /\ u.status = IF r.status = "queued" THEN "canceled" ELSE "cancel_requested"
  <2> HIDE DEF r, jobAt
  <2>1. QED
    BY <1>1, <1>2, CancellationRequestedFacts
<1>4. r.status \in {"queued", "running"} /\ jobs' = [jobs EXCEPT ![j] = u]
  BY DEF CanRequestCancellation
<1> HIDE DEF u
<1>5. /\ u.status \in JobStatuses /\ r.status # "deleted"
      /\ u.status \in Claimed <=> r.status \in Claimed
      /\ u.status # "queued"
  BY <1>3, <1>4 DEF JobStatuses, Active, Claimed, Terminal
<1>6. u.attemptCount <= u.maximumAttempts
  BY <1>3 DEF Consistent, Tables, Budgeted
<1>7. Tables([jobs EXCEPT ![j] = u], attempts)
  BY <1>3, <1>5, <1>6, RowStep DEF Consistent
<1>8. QED
  BY <1>4, <1>7

\* Operator controls.
LEMMA OperatorKeeps ==
  ASSUME Consistent, OperatorCall, targets \in [Operators -> SUBSET Target]
  PROVE  Tables(jobs, attempts)'
<1>1. PICK o \in Operators :
         \/ \E j \in Jobs, kind \in {"cancel", "retry"} : Prepare(o, j, kind)
         \/ \E at \in TransactionTimes : Cancel(o, at) \/ Retry(o, at)
  BY DEF OperatorCall
<1>2. CASE \E j \in Jobs, kind \in {"cancel", "retry"} : Prepare(o, j, kind)
  BY <1>2 DEF Consistent, Prepare
<1>3. ASSUME NEW at \in TransactionTimes, Cancel(o, at)
      PROVE  Tables(jobs, attempts)'
  <2>1. PICK t \in targets[o] :
           LET jobAt == Later(jobs[t.job].updatedAt, at) IN
           /\ CanRequestCancellation(jobs[t.job], jobAt)
           /\ jobs' = [jobs EXCEPT ![t.job] = CancellationRequested(jobs[t.job], jobAt)]
           /\ attempts' = attempts
    BY <1>3 DEF Cancel
  <2>2. t.job \in Jobs
    BY SMTT(30), SMTT(20) DEF Target
  <2>3. QED
    BY <2>1, <2>2, CancellationKeeps
<1>4. ASSUME NEW at \in TransactionTimes, Retry(o, at)
      PROVE  Tables(jobs, attempts)'
  <2>1. PICK t \in targets[o] :
           LET r == jobs[t.job]
               jobAt == Later(r.updatedAt, at)
           IN  /\ CanExplicitRetry(r, jobAt)
               /\ jobs' = [jobs EXCEPT ![t.job] = ExplicitlyRetried(r, jobAt)]
               /\ attempts' = attempts
    BY <1>4 DEF Retry
  <2> DEFINE r == jobs[t.job]
             jobAt == Later(r.updatedAt, at)
             u == ExplicitlyRetried(r, jobAt)
  <2>2. t.job \in Jobs /\ r \in Job
    BY SMTT(30), SMTT(20) DEF Target, Consistent, Tables
  <2>3. jobAt \in Int
    BY <2>2, StampType DEF Consistent
  <2>4. /\ u \in Job /\ u.status = "queued" /\ u.attemptCount = r.attemptCount
        /\ u.maximumAttempts = r.attemptCount + 1
    BY <2>2, <2>3, ExplicitlyRetriedFacts
  <2>5. r.status \in {"failed", "canceled"} /\ jobs' = [jobs EXCEPT ![t.job] = u]
    BY <2>1 DEF CanExplicitRetry
  <2> HIDE DEF u
  <2>6. /\ u.status \in JobStatuses /\ r.status # "deleted"
        /\ u.status \in Claimed <=> r.status \in Claimed
        /\ u.attemptCount <= u.maximumAttempts /\ u.attemptCount < u.maximumAttempts
    BY <2>2, <2>4, <2>5, SMTT(30), SMTT(20) DEF JobStatuses, Active, Claimed, Job
  <2>7. Tables([jobs EXCEPT ![t.job] = u], attempts)
    BY <2>2, <2>4, <2>6, RowStep DEF Consistent
  <2>8. QED
    BY <2>1, <2>5, <2>7
<1>5. QED
  BY <1>1, <1>2, <1>3, <1>4

\* Withdrawals and the history cleanup.
LEMMA MaintenanceKeeps == ASSUME Consistent, Maintenance PROVE Tables(jobs, attempts)'
<1>1. PICK at \in TransactionTimes :
         \/ \E j \in Jobs : Withdraw(j, at)
         \/ \E page \in SUBSET Jobs : DeleteTerminalHistory(page, at)
  BY DEF Maintenance
<1>2. ASSUME NEW j \in Jobs, Withdraw(j, at)
      PROVE  Tables(jobs, attempts)'
  BY <1>2, CancellationKeeps DEF Withdraw
<1>3. ASSUME NEW page \in SUBSET Jobs, DeleteTerminalHistory(page, at)
      PROVE  Tables(jobs, attempts)'
  <2>1. \A j \in page : jobs[j].status \in Terminal
    BY <1>3 DEF DeleteTerminalHistory, PastRetention, Terminal
  <2>2. Tables([j \in Jobs |-> IF j \in page THEN Deleted(jobs[j]) ELSE jobs[j]],
               {a \in attempts : a.job \notin page})
    BY <2>1, DeleteStep, SMTT(30), SMTT(20) DEF Consistent
  <2>3. QED
    BY <1>3, <2>2 DEF DeleteTerminalHistory
<1>4. QED
  BY <1>1, <1>2, <1>3

\* The inductive invariant: the tables are consistent and the two remaining
\* tables are typed.
IInv ==
  /\ Consistent
  /\ occurrences \in [Keys -> Jobs \cup {None}]
  /\ targets \in [Operators -> SUBSET Target]

\* The empty database satisfies it.
LEMMA IInvInit == Init => IInv
<1> SUFFICES ASSUME Init PROVE IInv
  OBVIOUS
<1>1. AbsentJob \in Job
  BY DEF AbsentJob, Job, NoTime, None
<1>2. jobs \in [Jobs -> Job] /\ attempts = {} /\ \A j \in Jobs : jobs[j] = AbsentJob
  BY <1>1 DEF Init
<1>3. AbsentJob.status = "absent" /\ AbsentJob.attemptCount = 0 /\ AbsentJob.maximumAttempts = 0
  BY DEF AbsentJob
<1>4. "absent" \notin JobStatuses /\ "absent" \notin Claimed
  BY DEF JobStatuses, Active, Claimed, Terminal
<1>5. Tables(jobs, attempts)
  BY <1>2, <1>3, <1>4, SMTT(30), SMTT(20)
     DEF Tables, Numbered, Exclusive, Budgeted, Excluded, LeaseLength
<1>6. QED
  BY <1>5 DEF Init, IInv, Consistent

\* Only Tick moves the clock, only a permanent enqueue writes the ledger and
\* only an operator touches a prepared target.
LEMMA Frames ==
  ASSUME [Next]_vars
  PROVE  /\ Tick \/ now' = now
         /\ occurrences' = occurrences
              \/ \E j \in Jobs, k \in Keys : occurrences' = [occurrences EXCEPT ![k] = j]
         /\ Enqueue \/ occurrences' = occurrences
         /\ OperatorCall \/ targets' = targets
<1>1. CASE Enqueue
  BY <1>1 DEF Enqueue, EnqueueActive, EnqueuePermanent
<1>2. CASE Claim
  <2>1. PICK n \in Nodes, at \in TransactionTimes : ClaimNext(n, at)
    BY <1>2 DEF Claim
  <2>2. UNCHANGED <<now, occurrences, targets>>
    BY <2>1 DEF ClaimNext
  <2>3. QED
    BY <2>2
<1>3. CASE Recovery
  BY <1>3 DEF Recovery, RecoverOnly
<1>4. CASE WorkerCall
  <2>1. PICK a \in attempts, at \in TransactionTimes :
           \/ Heartbeat(a, at)
           \/ Checkpoint(a, at)
           \/ ReserveWork(a, at)
           \/ \E kind \in Kinds : Complete(a, kind, at)
    BY <1>4 DEF WorkerCall
  <2>2. UNCHANGED <<now, occurrences, targets>>
    BY <2>1 DEF Heartbeat, Checkpoint, ReserveWork, Complete
  <2>3. QED
    BY <2>2
<1>5. CASE OperatorCall
  <2>1. PICK o \in Operators :
           \/ \E j \in Jobs, kind \in {"cancel", "retry"} : Prepare(o, j, kind)
           \/ \E at \in TransactionTimes : Cancel(o, at) \/ Retry(o, at)
    BY <1>5 DEF OperatorCall
  <2>2. UNCHANGED <<now, occurrences>>
    BY <2>1 DEF Prepare, Cancel, Retry
  <2>3. QED
    BY <1>5, <2>2
<1>6. CASE Maintenance
  BY <1>6 DEF Maintenance, Withdraw, DeleteTerminalHistory
<1>7. CASE Tick \/ UNCHANGED vars
  BY <1>7 DEF Tick, vars
<1>8. QED
  BY <1>1, <1>2, <1>3, <1>4, <1>5, <1>6, <1>7 DEF Next

\* Every step preserves it.
LEMMA IInvNext == IInv /\ [Next]_vars => IInv'
<1> SUFFICES ASSUME IInv, [Next]_vars PROVE IInv'
  OBVIOUS
<1> USE DEF IInv
<1>1. Tables(jobs, attempts)'
  <2>1. CASE Enqueue
    BY <2>1, EnqueueKeeps
  <2>2. CASE Claim
    BY <2>2, ClaimKeeps
  <2>3. CASE Recovery
    BY <2>3, RecoveryKeeps
  <2>4. CASE WorkerCall
    BY <2>4, WorkerKeeps
  <2>5. CASE OperatorCall
    BY <2>5, OperatorKeeps
  <2>6. CASE Maintenance
    BY <2>6, MaintenanceKeeps
  <2>7. CASE Tick \/ UNCHANGED vars
    BY <2>7 DEF Tick, vars, Consistent
  <2>8. QED
    BY <2>1, <2>2, <2>3, <2>4, <2>5, <2>6, <2>7 DEF Next
<1>2. now' \in Nat
  BY Frames DEF Consistent, Tick
<1>3. (occurrences \in [Keys -> Jobs \cup {None}])'
  BY Frames
<1>4. (targets \in [Operators -> SUBSET Target])'
  <2>1. ASSUME NEW o \in Operators, NEW j \in Jobs, NEW kind \in {"cancel", "retry"},
               Prepare(o, j, kind)
        PROVE  (targets \in [Operators -> SUBSET Target])'
    <3>1. jobs[j] \in Job /\ jobs[j].revision \in Nat
      BY DEF Consistent, Tables, Job
    <3>2. [job |-> j, revision |-> jobs[j].revision, kind |-> kind, seen |-> jobs[j]] \in Target
      BY <3>1 DEF Target
    <3>3. QED
      BY <2>1, <3>2 DEF Prepare
  <2>2. CASE OperatorCall
    <3>1. PICK o \in Operators :
             \/ \E j \in Jobs, kind \in {"cancel", "retry"} : Prepare(o, j, kind)
             \/ \E at \in TransactionTimes : Cancel(o, at) \/ Retry(o, at)
      BY <2>2 DEF OperatorCall
    <3>2. CASE \E at \in TransactionTimes : Cancel(o, at) \/ Retry(o, at)
      <4>1. targets' = [targets EXCEPT ![o] = {}]
        BY <3>2 DEF Cancel, Retry
      <4>2. QED
        BY <4>1
    <3>3. QED
      BY <2>1, <3>1, <3>2
  <2>3. QED
    BY <2>2, Frames
<1>5. QED
  BY <1>1, <1>2, <1>3, <1>4 DEF Consistent

\* In every reachable state the tables are consistent with each other.
THEOREM IInvHolds == Spec => []IInv
BY IInvInit, IInvNext, PTL DEF Spec

\* Every reachable row has its columns' types.
THEOREM TypeCorrect == Spec => []TypeOK
<1>1. IInv => TypeOK
  BY DEF IInv, TypeOK, Consistent, Tables
<1>2. QED
  BY <1>1, IInvHolds, PTL

\* A Job is claimed exactly while one attempt of it runs, the one that carries
\* its latest number.
THEOREM ClaimsMatch == Spec => []ClaimsMatchJobs
<1>1. IInv => ClaimsMatchJobs
  BY SMTT(30), SMTT(20) DEF IInv, ClaimsMatchJobs, Consistent, Tables, Exclusive, Numbered, Running, Attempt
<1>2. QED
  BY <1>1, IInvHolds, PTL

\* The attempts of a Job are numbered without a gap or a repetition.
THEOREM Numbering == Spec => []AttemptsNumbered
<1>1. IInv => AttemptsNumbered
  BY SMTT(30), SMTT(20) DEF IInv, AttemptsNumbered, Consistent, Tables, Numbered, AttemptsOf, Exists, Attempt, Job
<1>2. QED
  BY <1>1, IInvHolds, PTL

\* A queued Job can always still be claimed.
THEOREM NeverStranded == Spec => []QueuedIsClaimable
<1>1. IInv => QueuedIsClaimable
  BY DEF IInv, QueuedIsClaimable, Consistent, Tables, Budgeted
<1>2. QED
  BY <1>1, IInvHolds, PTL

\* A node never claims again a Job it relinquished as incompatible.
THEOREM Excludes == Spec => []IncompatibleNodeExcluded
<1>1. IInv => IncompatibleNodeExcluded
  BY DEF IInv, IncompatibleNodeExcluded, Consistent, Tables, Excluded
<1>2. QED
  BY <1>1, IInvHolds, PTL

\* A completion inside its lease is never refused.
THEOREM NeverRefused == Spec => []CompletionAccepted
<1>1. ASSUME IInv PROVE CompletionAccepted
  <2> SUFFICES ASSUME NEW a \in attempts, NEW at \in TransactionTimes, NEW kind \in Kinds,
                      Fenced(a, at)
               PROVE  CanComplete(jobs[a.job], EffectiveKind(jobs[a.job], kind),
                                  Later(jobs[a.job].updatedAt, at))
    BY DEF CompletionAccepted
  <2> DEFINE r == jobs[a.job]
             jobAt == Later(r.updatedAt, at)
             k == EffectiveKind(r, kind)
  <2>1. a.job \in Jobs /\ r \in Job /\ r.status \in Claimed
    BY <1>1 DEF IInv, Consistent, Tables, Exclusive, Fenced, Attempt
  <2>2. jobAt \in Int /\ jobAt >= r.updatedAt
    BY <1>1, <2>1, SMTT(30), SMTT(20) DEF IInv, Consistent, TransactionTimes, Later, Job
  <2>3. k \in {"retryable", "relinquished"} => r.status = "running"
    BY <2>1 DEF EffectiveKind, Claimed
  <2> HIDE DEF jobAt, k, r
  <2>4. CanFinish(r, jobAt)
    BY <2>1, <2>2 DEF CanFinish
  <2>5. jobAt + RetryDelay > jobAt
    BY <2>2, JobStoreAssumption
  <2>6. CanComplete(r, k, jobAt)
    BY <2>2, <2>3, <2>4, <2>5 DEF CanComplete, CanRelinquish, CanRetry
  <2>7. QED
    BY <2>6 DEF r, jobAt, k
<1>2. QED
  BY <1>1, IInvHolds, PTL

-----------------------------------------------------------------------------
(* Part 2: rows over time *)

(* What a step that is neither an enqueue nor an explicit retry may do to  *)
(* a row.                                                                  *)

Kept(r, u) ==
  /\ SameIdentity(r, u)
  /\ u.status \in Active => r.status \in Active
  /\ u.status = "absent" => u = r
  /\ u = r \/ u.revision > r.revision \/ (u.status = "deleted" /\ u.revision = r.revision)
  /\ u.checkpoint = r.checkpoint \/ (r.status \in Claimed /\ u.checkpoint = r.attemptCount)
  /\ r.status \in Terminal => u.status \in {r.status, "deleted"}
  /\ r.status = "cancel_requested" => u.status \in Terminal \cup {"cancel_requested"}

\* A row that is not touched is kept.
LEMMA KeptRefl == ASSUME NEW r \in Job PROVE Kept(r, r)
  BY DEF Kept, SameIdentity, Terminal

\* A row of the table is kept when the step rewrites it to a kept one.
LEMMA KeptOne ==
  ASSUME IInv, NEW j \in Jobs, NEW u, Kept(jobs[j], u), jobs' = [jobs EXCEPT ![j] = u]
  PROVE  \A i \in Jobs : Kept(jobs[i], jobs'[i])
<1> SUFFICES ASSUME NEW i \in Jobs PROVE Kept(jobs[i], jobs'[i])
  OBVIOUS
<1>1. jobs \in [Jobs -> Job]
  BY DEF IInv, Consistent, Tables
<1>2. jobs'[i] = IF i = j THEN u ELSE jobs[i]
  BY <1>1
<1>3. QED
  BY <1>1, <1>2, KeptRefl

\* Job.RequestCancellation keeps the row.
LEMMA CancellationKept ==
  ASSUME NEW r \in Job, NEW at \in Int, CanRequestCancellation(r, at)
  PROVE  Kept(r, CancellationRequested(r, at))
<1> DEFINE u == CancellationRequested(r, at)
<1>1. /\ u \in Job /\ SameIdentity(r, u)
      /\ u.status = IF r.status = "queued" THEN "canceled" ELSE "cancel_requested"
      /\ u.checkpoint = r.checkpoint
      /\ u.revision = r.revision + 1
  BY CancellationRequestedFacts
<1>2. r.status \in {"queued", "running"} /\ r.revision \in Nat
  BY DEF CanRequestCancellation, Job
<1> HIDE DEF u
<1>3. QED
  BY <1>1, <1>2 DEF Kept, Active, Terminal, u

\* The recovery of a lost attempt keeps the row.
LEMMA RecoveredKept ==
  ASSUME NEW r \in Job, NEW at \in Int, r.status \in Claimed
  PROVE  Kept(r, Recovered(r, at))
<1> DEFINE u == Recovered(r, at)
<1>1. /\ u \in Job /\ SameIdentity(r, u)
      /\ u.status \in Terminal \cup {"queued"}
      /\ r.status = "cancel_requested" => u.status = "canceled"
      /\ u.checkpoint = r.checkpoint /\ u.revision = r.revision + 1
  BY RecoveredFacts
<1>2. r.revision \in Nat
  BY DEF Job
<1> HIDE DEF u
<1>3. Kept(r, u)
  BY <1>1, <1>2 DEF Kept, Active, Claimed, Terminal
<1>4. QED
  BY <1>3 DEF u

\* Every call of a worker keeps every row.
LEMMA WorkerKept ==
  ASSUME IInv, WorkerCall PROVE \A i \in Jobs : Kept(jobs[i], jobs'[i])
<1>1. PICK a \in attempts, at \in TransactionTimes :
         \/ Heartbeat(a, at)
         \/ Checkpoint(a, at)
         \/ ReserveWork(a, at)
         \/ \E kind \in Kinds : Complete(a, kind, at)
  BY DEF WorkerCall
<1> DEFINE r == jobs[a.job]
           jobAt == Later(r.updatedAt, at)
<1>2. a \in Attempt /\ a.job \in Jobs /\ a.number \in Nat /\ r \in Job /\ r.revision \in Nat
  BY DEF IInv, Consistent, Tables, Attempt, Job
<1>3. jobAt \in Int
  BY <1>2, StampType DEF IInv, Consistent
<1>4. Fenced(a, at) => /\ r.status \in Claimed /\ a.number = r.attemptCount
                       /\ a.status = "running"
  BY DEF IInv, Consistent, Tables, Exclusive, Fenced
<1>5. CASE Heartbeat(a, at)
  <2>1. jobs' = jobs
    BY <1>5 DEF Heartbeat
  <2>2. QED
    BY <2>1, KeptRefl DEF IInv, Consistent, Tables
<1>6. CASE Checkpoint(a, at)
  <2> DEFINE u == Progressed(r, a.number, jobAt)
  <2>1. Fenced(a, at) /\ jobs' = [jobs EXCEPT ![a.job] = u]
    BY <1>6 DEF Checkpoint
  <2>2. /\ u \in Job /\ SameIdentity(r, u) /\ u.status = r.status
        /\ u.checkpoint = a.number /\ u.revision = r.revision + 1
    <3> HIDE DEF r, jobAt
    <3>1. QED
      BY <1>2, <1>3, ProgressedFacts
  <2> HIDE DEF u
  <2>3. Kept(r, u)
    BY <1>2, <1>4, <2>1, <2>2 DEF Kept, Active, Claimed, Terminal
  <2>4. QED
    BY <1>2, <2>1, <2>3, KeptOne
<1>7. CASE ReserveWork(a, at)
  <2> DEFINE u == Reserved(r, jobAt)
  <2>1. Fenced(a, at) /\ jobs' = [jobs EXCEPT ![a.job] = u]
    BY <1>7 DEF ReserveWork
  <2>2. /\ u \in Job /\ SameIdentity(r, u) /\ u.status = r.status
        /\ u.checkpoint = r.checkpoint /\ u.revision = r.revision + 1
    <3> HIDE DEF r, jobAt
    <3>1. QED
      BY <1>2, <1>3, ReservedFacts
  <2> HIDE DEF u
  <2>3. Kept(r, u)
    BY <1>2, <1>4, <2>1, <2>2, SMTT(30), SMTT(20) DEF Kept, Active, Claimed, Terminal
  <2>4. QED
    BY <1>2, <2>1, <2>3, KeptOne
<1>8. ASSUME NEW requested \in Kinds, Complete(a, requested, at)
      PROVE  \A i \in Jobs : Kept(jobs[i], jobs'[i])
  <2> DEFINE kind == EffectiveKind(r, requested)
             u == Completed(r, kind, jobAt)
  <2>1. Fenced(a, at) /\ jobs' = [jobs EXCEPT ![a.job] = u]
    BY <1>8 DEF Complete
  <2>2. kind \in Kinds /\ (r.status = "cancel_requested" => kind \notin {"retryable", "relinquished"})
    BY DEF EffectiveKind, Kinds
  <2>3. /\ u \in Job /\ SameIdentity(r, u) /\ u.status \in Terminal \cup {"queued"}
        /\ u.checkpoint = r.checkpoint /\ u.revision = r.revision + 1
        /\ u.status = "queued" => kind \in {"retryable", "relinquished"}
    <3> HIDE DEF r, jobAt, kind
    <3>1. r \in Job /\ jobAt \in Int /\ kind \in Kinds
      BY <1>2, <1>3, <2>2
    <3>2. \A q \in Job, k \in Kinds, t \in Int :
             /\ SameIdentity(q, Completed(q, k, t)) /\ Completed(q, k, t) \in Job
             /\ Completed(q, k, t).status \in Terminal \cup {"queued"}
             /\ Completed(q, k, t).checkpoint = q.checkpoint
             /\ Completed(q, k, t).revision = q.revision + 1
             /\ Completed(q, k, t).status = "queued" => k \in {"retryable", "relinquished"}
      BY CompletedFacts, SMTT(30), SMTT(20)
    <3>3. QED
      BY <3>1, <3>2, SMTT(30), SMTT(20)
  <2> HIDE DEF u, kind
  <2>4. Kept(r, u)
    BY <1>2, <1>4, <2>1, <2>2, <2>3 DEF Kept, Active, Claimed, Terminal
  <2>5. QED
    BY <1>2, <2>1, <2>4, KeptOne
<1>9. QED
  BY <1>1, <1>5, <1>6, <1>7, <1>8

\* A claim keeps every row: the recovered ones and the one it starts.
LEMMA ClaimKept ==
  ASSUME IInv, Claim PROVE \A i \in Jobs : Kept(jobs[i], jobs'[i])
<1>1. PICK n \in Nodes, at \in TransactionTimes : ClaimNext(n, at)
  BY DEF Claim
<1> DEFINE K == RecoveredJobs(at)
<1>2. PICK j \in Jobs :
         /\ CanStart(K[j], Later(K[j].updatedAt, at))
         /\ jobs' = [K EXCEPT ![j] = Started(K[j], Later(K[j].updatedAt, at))]
  BY <1>1 DEF ClaimNext, Claimable
<1>3. at \in Int /\ Tables(jobs, attempts) /\ jobs \in [Jobs -> Job] /\ now \in Nat
  BY SMTT(30), SMTT(20) DEF IInv, Consistent, Tables, TransactionTimes
<1>4. /\ K \in [Jobs -> Job]
      /\ \A i \in Jobs : K[i] = jobs[i] \/ (jobs[i].status \in Claimed /\ K[i] = Recovered(jobs[i], at))
  BY <1>3, RecoveredRows
<1> HIDE DEF K
<1>5. \A i \in Jobs : Kept(jobs[i], K[i])
  BY <1>3, <1>4, KeptRefl, RecoveredKept
<1> DEFINE u == Started(K[j], Later(K[j].updatedAt, at))
<1>6. /\ u \in Job /\ SameIdentity(K[j], u)
      /\ u.status = "running" /\ u.checkpoint = K[j].checkpoint
      /\ u.revision = K[j].revision + 1
  <2>1. Later(K[j].updatedAt, at) \in Int /\ K[j] \in Job
    BY <1>3, <1>4, StampType
  <2>2. QED
    BY <2>1, StartedFacts
<1>7. jobs' = [K EXCEPT ![j] = u] /\ K[j].status = "queued"
  BY <1>2 DEF CanStart
<1> HIDE DEF u
<1>8. Kept(jobs[j], u)
  <2>1. Kept(jobs[j], K[j]) /\ jobs[j].revision \in Nat /\ K[j].revision \in Nat
    BY <1>3, <1>4, <1>5 DEF Job
  <2>2. K[j].revision >= jobs[j].revision /\ jobs[j].status \in {"queued", "running"}
    BY <1>7, <2>1 DEF Kept, Active, Terminal
  <2>3. QED
    BY <1>6, <1>7, <2>1, <2>2, SMTT(30), SMTT(20) DEF Kept, Active, Claimed, Terminal, SameIdentity
<1>9. \A i \in Jobs : jobs'[i] = IF i = j THEN u ELSE K[i]
  BY <1>4, <1>7
<1>10. QED
  BY <1>5, <1>8, <1>9

\* Every step but an enqueue and an explicit retry keeps every row.
LEMMA RowsKept ==
  ASSUME IInv, [Next]_vars, ~Enqueue,
         ~\E o \in Operators, at \in TransactionTimes : Retry(o, at)
  PROVE  \A i \in Jobs : Kept(jobs[i], jobs'[i])
<1>1. jobs \in [Jobs -> Job] /\ now \in Nat /\ Tables(jobs, attempts)
  BY DEF IInv, Consistent, Tables
<1>2. jobs' = jobs => \A i \in Jobs : Kept(jobs[i], jobs'[i])
  BY <1>1, KeptRefl
<1>3. CASE Recovery
  <2>1. PICK at \in TransactionTimes : jobs' = RecoveredJobs(at)
    BY <1>3 DEF Recovery, RecoverOnly
  <2>2. at \in Int
    BY <1>1 DEF TransactionTimes
  <2>3. \A i \in Jobs : \/ jobs'[i] = jobs[i]
                        \/ jobs[i].status \in Claimed /\ jobs'[i] = Recovered(jobs[i], at)
    BY <1>1, <2>1, <2>2, RecoveredRows
  <2>4. QED
    BY <1>1, <2>2, <2>3, KeptRefl, RecoveredKept
<1>4. CASE OperatorCall
  <2>1. PICK o \in Operators :
           \/ \E j \in Jobs, kind \in {"cancel", "retry"} : Prepare(o, j, kind)
           \/ \E at \in TransactionTimes : Cancel(o, at)
    BY <1>4 DEF OperatorCall
  <2>2. CASE \E j \in Jobs, kind \in {"cancel", "retry"} : Prepare(o, j, kind)
    BY <1>2, <2>2 DEF Prepare
  <2>3. ASSUME NEW at \in TransactionTimes, Cancel(o, at)
        PROVE  \A i \in Jobs : Kept(jobs[i], jobs'[i])
    <3>1. PICK t \in targets[o] :
             LET jobAt == Later(jobs[t.job].updatedAt, at) IN
             /\ CanRequestCancellation(jobs[t.job], jobAt)
             /\ jobs' = [jobs EXCEPT ![t.job] = CancellationRequested(jobs[t.job], jobAt)]
      BY <2>3 DEF Cancel
    <3>2. t.job \in Jobs
      BY SMTT(30), SMTT(20) DEF IInv, Target
    <3>3. Later(jobs[t.job].updatedAt, at) \in Int /\ jobs[t.job] \in Job
      BY <1>1, <3>2, StampType
    <3>4. Kept(jobs[t.job], CancellationRequested(jobs[t.job], Later(jobs[t.job].updatedAt, at)))
      BY <3>1, <3>3, CancellationKept
    <3>5. QED
      BY <3>1, <3>2, <3>4, KeptOne
  <2>4. QED
    BY <2>1, <2>2, <2>3
<1>5. CASE Maintenance
  <2>1. PICK at \in TransactionTimes :
           \/ \E j \in Jobs : Withdraw(j, at)
           \/ \E page \in SUBSET Jobs : DeleteTerminalHistory(page, at)
    BY <1>5 DEF Maintenance
  <2>2. ASSUME NEW j \in Jobs, Withdraw(j, at)
        PROVE  \A i \in Jobs : Kept(jobs[i], jobs'[i])
    <3>1. Later(jobs[j].updatedAt, at) \in Int /\ jobs[j] \in Job
      BY <1>1, StampType
    <3>2. Kept(jobs[j], CancellationRequested(jobs[j], Later(jobs[j].updatedAt, at)))
      BY <2>2, <3>1, CancellationKept DEF Withdraw
    <3>3. QED
      BY <2>2, <3>2, KeptOne DEF Withdraw
  <2>3. ASSUME NEW page \in SUBSET Jobs, DeleteTerminalHistory(page, at), NEW i \in Jobs
        PROVE  Kept(jobs[i], jobs'[i])
    <3>1. jobs'[i] = IF i \in page THEN Deleted(jobs[i]) ELSE jobs[i]
      BY <2>3 DEF DeleteTerminalHistory
    <3>2. i \in page => jobs[i].status \in Terminal
      BY <2>3 DEF DeleteTerminalHistory, PastRetention, Terminal
    <3> DEFINE u == Deleted(jobs[i])
    <3>3. /\ SameIdentity(jobs[i], u) /\ u.status = "deleted"
          /\ u.checkpoint = jobs[i].checkpoint /\ u.revision = jobs[i].revision
      BY <1>1, DeletedFacts
    <3> HIDE DEF u
    <3>4. i \in page => Kept(jobs[i], u)
      BY <3>2, <3>3 DEF Kept, Active, Terminal
    <3>5. QED
      BY <1>1, <3>1, <3>4, KeptRefl DEF u
  <2>4. QED
    BY <2>1, <2>2, <2>3
<1>6. CASE Tick \/ UNCHANGED vars
  BY <1>2, <1>6 DEF Tick, vars
<1>7. QED
  BY <1>3, <1>4, <1>5, <1>6, ClaimKept, WorkerKept DEF Next

----------------------------------------------------------------------------
(* The second inductive invariant: keys, ledger and prepared targets.      *)

Unborn == \A j \in Jobs : jobs[j].status = "absent" =>
              /\ jobs[j].checkpoint = 0 /\ jobs[j].policy = "active"
              /\ jobs[j].revision = 0

Ledgered == \A j \in Jobs : jobs[j].policy = "permanent" =>
                jobs[j].key \in Keys /\ occurrences[jobs[j].key] = j

ActiveOnce ==
  \A i, j \in Jobs :
     (/\ i # j /\ jobs[i].key = jobs[j].key /\ jobs[i].key # None
      /\ jobs[i].policy = "active" /\ jobs[j].policy = "active")
     => ~(jobs[i].status \in Active /\ jobs[j].status \in Active)

Fresh ==
  \A o \in Operators : \A t \in targets[o] :
     /\ t.revision <= jobs[t.job].revision
     /\ AtExpectedRevision(t) => jobs[t.job] = t.seen

Ledger == Unborn /\ Ledgered /\ ActiveOnce /\ Fresh

\* An enqueue turns one absent row into a fresh one.
LEMMA EnqueueRows ==
  ASSUME IInv, Enqueue
  PROVE  \E j \in Jobs, k \in Keys, p \in {"active", "permanent"} :
           /\ jobs[j].status = "absent"
           /\ jobs'[j].status = "queued" /\ jobs'[j].policy = p /\ jobs'[j].key = k
           /\ jobs'[j].checkpoint = 0 /\ jobs'[j].revision = 1
           /\ \A i \in Jobs : i # j => jobs'[i] = jobs[i]
           /\ targets' = targets
           /\ p = "active" => ~ActiveKeyTaken(k) /\ occurrences' = occurrences
           /\ p = "permanent" => /\ occurrences[k] = None
                                 /\ occurrences' = [occurrences EXCEPT ![k] = j]
<1>1. PICK j \in Jobs, k \in Keys, skew \in (-ClockSkew) .. ClockSkew :
         EnqueueActive(j, k, now + skew) \/ EnqueuePermanent(j, k, now + skew)
  BY DEF Enqueue
<1>2. now + skew \in Int /\ jobs \in [Jobs -> Job]
  BY JobStoreAssumption, SMTT(30), SMTT(20) DEF IInv, Consistent, Tables
<1>3. ASSUME NEW p \in {"active", "permanent"}, jobs' = [jobs EXCEPT ![j] = NewJob(k, p, now + skew)]
      PROVE  /\ jobs'[j].status = "queued" /\ jobs'[j].policy = p /\ jobs'[j].key = k
             /\ jobs'[j].checkpoint = 0 /\ jobs'[j].revision = 1
             /\ \A i \in Jobs : i # j => jobs'[i] = jobs[i]
  <2> DEFINE u == NewJob(k, p, now + skew)
  <2>1. /\ u.status = "queued" /\ u.policy = p /\ u.key = k
        /\ u.checkpoint = 0 /\ u.revision = 1
    BY <1>2, NewJobFacts, SMTT(30), SMTT(20)
  <2>2. jobs' = [jobs EXCEPT ![j] = u]
    BY <1>3
  <2> HIDE DEF u
  <2>3. QED
    BY <1>2, <2>1, <2>2
<1>4. CASE EnqueueActive(j, k, now + skew)
  <2>1. /\ jobs[j].status = "absent" /\ ~ActiveKeyTaken(k)
        /\ jobs' = [jobs EXCEPT ![j] = NewJob(k, "active", now + skew)]
        /\ targets' = targets /\ occurrences' = occurrences
    BY <1>4 DEF EnqueueActive
  <2>2. QED
    BY <2>1, <1>3
<1>5. CASE EnqueuePermanent(j, k, now + skew)
  <2>1. /\ jobs[j].status = "absent" /\ occurrences[k] = None
        /\ jobs' = [jobs EXCEPT ![j] = NewJob(k, "permanent", now + skew)]
        /\ targets' = targets /\ occurrences' = [occurrences EXCEPT ![k] = j]
    BY <1>5 DEF EnqueuePermanent
  <2>2. QED
    BY <2>1, <1>3
<1>6. QED
  BY <1>1, <1>4, <1>5

\* An explicit retry requeues one failed or canceled row, if its key is free,
\* and consumes the operator's target.
LEMMA RetryRows ==
  ASSUME IInv, NEW o \in Operators, NEW at \in TransactionTimes, Retry(o, at)
  PROVE  \E j \in Jobs :
           /\ jobs[j].status \in {"failed", "canceled"}
           /\ SameIdentity(jobs[j], jobs'[j]) /\ jobs'[j].status = "queued"
           /\ jobs'[j].checkpoint = jobs[j].checkpoint
           /\ jobs'[j].revision = jobs[j].revision + 1
           /\ \A i \in Jobs : i # j => jobs'[i] = jobs[i]
           /\ jobs[j].policy = "active" => ~ActiveKeyTaken(jobs[j].key)
           /\ targets' = [targets EXCEPT ![o] = {}] /\ targets[o] # {}
           /\ occurrences' = occurrences
<1>1. PICK t \in targets[o] :
         LET r == jobs[t.job]
             jobAt == Later(r.updatedAt, at)
         IN  /\ CanExplicitRetry(r, jobAt)
             /\ r.policy = "active" => ~ActiveKeyTaken(r.key)
             /\ jobs' = [jobs EXCEPT ![t.job] = ExplicitlyRetried(r, jobAt)]
             /\ targets' = [targets EXCEPT ![o] = {}]
             /\ occurrences' = occurrences
  BY DEF Retry
<1> DEFINE j == t.job
           u == ExplicitlyRetried(jobs[j], Later(jobs[j].updatedAt, at))
<1>2. j \in Jobs /\ jobs \in [Jobs -> Job] /\ now \in Nat /\ jobs[j] \in Job
  BY SMTT(30), SMTT(20) DEF IInv, Target, Consistent, Tables
<1>3. Later(jobs[j].updatedAt, at) \in Int
  BY <1>2, StampType
<1>4. /\ SameIdentity(jobs[j], u) /\ u.status = "queued"
      /\ u.checkpoint = jobs[j].checkpoint /\ u.revision = jobs[j].revision + 1
  BY <1>2, <1>3, ExplicitlyRetriedFacts
<1>5. jobs' = [jobs EXCEPT ![j] = u] /\ jobs[j].status \in {"failed", "canceled"}
  BY <1>1 DEF CanExplicitRetry
<1> HIDE DEF u
<1>6. jobs'[j] = u /\ \A i \in Jobs : i # j => jobs'[i] = jobs[i]
  BY <1>2, <1>5
<1>7. QED
  BY <1>1, <1>2, <1>4, <1>5, <1>6

\* The empty database satisfies it.
LEMMA LedgerInit == Init => Ledger
<1> SUFFICES ASSUME Init PROVE Ledger
  OBVIOUS
<1>1. \A j \in Jobs : jobs[j] = AbsentJob
  BY DEF Init
<1>2. /\ AbsentJob.status = "absent" /\ AbsentJob.policy = "active"
      /\ AbsentJob.checkpoint = 0 /\ AbsentJob.revision = 0
  BY DEF AbsentJob
<1>3. "absent" \notin Active
  BY DEF Active
<1>4. Unborn /\ Ledgered /\ ActiveOnce
  BY <1>1, <1>2, <1>3 DEF Unborn, Ledgered, ActiveOnce
<1>5. Fresh
  BY DEF Init, Fresh
<1>6. QED
  BY <1>4, <1>5 DEF Ledger

\* A target after a step was there before it, or was just read from a row
\* the step leaves alone.
LEMMA TargetRows ==
  ASSUME IInv, [Next]_vars, NEW o \in Operators, NEW t \in targets'[o]
  PROVE  /\ t.job \in Jobs /\ t.revision \in Nat
         /\ \/ t \in targets[o]
            \/ t.revision = jobs[t.job].revision /\ t.seen = jobs[t.job] /\ jobs' = jobs
<1>1. targets' \in [Operators -> SUBSET Target] /\ targets \in [Operators -> SUBSET Target]
  BY IInvNext DEF IInv
<1>2. t.job \in Jobs /\ t.revision \in Nat
  BY <1>1, SMTT(30), SMTT(20) DEF Target
<1>3. CASE OperatorCall
  <2>1. PICK p \in Operators :
           \/ \E j \in Jobs, kind \in {"cancel", "retry"} : Prepare(p, j, kind)
           \/ \E at \in TransactionTimes : Cancel(p, at) \/ Retry(p, at)
    BY <1>3 DEF OperatorCall
  <2>2. CASE \E at \in TransactionTimes : Cancel(p, at) \/ Retry(p, at)
    <3>1. targets' = [targets EXCEPT ![p] = {}]
      BY <2>2 DEF Cancel, Retry
    <3>2. QED
      BY <1>1, <1>2, <3>1
  <2>3. ASSUME NEW j \in Jobs, NEW kind \in {"cancel", "retry"}, Prepare(p, j, kind)
        PROVE  \/ t \in targets[o]
               \/ t.revision = jobs[t.job].revision /\ t.seen = jobs[t.job] /\ jobs' = jobs
    <3> DEFINE new == [job |-> j, revision |-> jobs[j].revision,
                       kind |-> kind, seen |-> jobs[j]]
    <3>1. targets' = [targets EXCEPT ![p] = {new}] /\ jobs' = jobs
      BY <2>3 DEF Prepare
    <3>2. new.job = j /\ new.revision = jobs[j].revision /\ new.seen = jobs[j]
      OBVIOUS
    <3> HIDE DEF new
    <3>3. t \in targets[o] \/ t = new
      BY <1>1, <3>1
    <3>4. QED
      BY <3>1, <3>2, <3>3
  <2>4. QED
    BY <1>2, <2>1, <2>2, <2>3
<1>4. QED
  BY <1>2, <1>3, Frames

\* A row whose revision grew, or that is deleted, answers to no old target.
LEMMA FreshStep ==
  ASSUME IInv, Fresh, [Next]_vars,
         \A j \in Jobs : \/ jobs'[j] = jobs[j]
                         \/ jobs'[j].revision > jobs[j].revision
                         \/ /\ jobs'[j].status = "deleted"
                            /\ jobs'[j].revision = jobs[j].revision
  PROVE  Fresh'
<1> SUFFICES ASSUME NEW o \in Operators, NEW t \in targets'[o]
             PROVE  /\ t.revision <= jobs'[t.job].revision
                    /\ AtExpectedRevision(t)' => jobs'[t.job] = t.seen
  BY DEF Fresh
<1>1. /\ t.job \in Jobs /\ t.revision \in Nat
      /\ \/ t \in targets[o]
         \/ t.revision = jobs[t.job].revision /\ t.seen = jobs[t.job] /\ jobs' = jobs
  BY TargetRows
<1>2. jobs[t.job].revision \in Nat /\ jobs'[t.job].revision \in Nat
  BY <1>1, IInvNext DEF IInv, Consistent, Tables, Job
<1>3. CASE t \in targets[o]
  <2>1. /\ t.revision <= jobs[t.job].revision
        /\ AtExpectedRevision(t) => jobs[t.job] = t.seen
    BY <1>3 DEF Fresh
  <2>2. CASE jobs'[t.job] = jobs[t.job]
    BY <2>1, <2>2 DEF AtExpectedRevision, Exists
  <2>3. CASE jobs'[t.job].revision > jobs[t.job].revision
    BY <1>1, <1>2, <2>1, <2>3, SMTT(30), SMTT(20) DEF AtExpectedRevision
  <2>4. CASE jobs'[t.job].status = "deleted" /\ jobs'[t.job].revision = jobs[t.job].revision
    BY <2>1, <2>4 DEF AtExpectedRevision, Exists, JobStatuses, Active, Terminal
  <2>5. QED
    BY <1>1, <2>2, <2>3, <2>4
<1>4. CASE t \notin targets[o]
  BY <1>1, <1>2, <1>4, SMTT(30), SMTT(20)
<1>5. QED
  BY <1>3, <1>4

\* Every step preserves it: an enqueue finds its key free, a retry too, and
\* any other step neither activates a row nor reuses a revision.
LEMMA LedgerNext == ASSUME IInv, Ledger, [Next]_vars PROVE Ledger'
<1>1. jobs \in [Jobs -> Job] /\ jobs' \in [Jobs -> Job] /\ occurrences \in [Keys -> Jobs \cup {None}]
  BY IInvNext DEF IInv, Consistent, Tables
<1>2. \A j \in Jobs : jobs[j].revision \in Nat
  BY <1>1 DEF Job
<1>3. CASE Enqueue
  <2>1. PICK j \in Jobs, k \in Keys, p \in {"active", "permanent"} :
           /\ jobs[j].status = "absent"
           /\ jobs'[j].status = "queued" /\ jobs'[j].policy = p /\ jobs'[j].key = k
           /\ jobs'[j].checkpoint = 0 /\ jobs'[j].revision = 1
           /\ \A i \in Jobs : i # j => jobs'[i] = jobs[i]
           /\ targets' = targets
           /\ p = "active" => ~ActiveKeyTaken(k) /\ occurrences' = occurrences
           /\ p = "permanent" => /\ occurrences[k] = None
                                 /\ occurrences' = [occurrences EXCEPT ![k] = j]
    BY <1>3, EnqueueRows
  <2>2. Unborn'
    BY <2>1 DEF Ledger, Unborn
  <2>3. Ledgered'
    <3> SUFFICES ASSUME NEW i \in Jobs, jobs'[i].policy = "permanent"
                 PROVE  jobs'[i].key \in Keys /\ occurrences'[jobs'[i].key] = i
      BY DEF Ledgered
    <3>1. CASE i = j
      BY <1>1, <2>1, <3>1
    <3>2. CASE i # j
      <4>1. jobs'[i] = jobs[i] /\ jobs[i].key \in Keys /\ occurrences[jobs[i].key] = i
        BY <2>1, <3>2 DEF Ledger, Ledgered
      <4>2. p = "permanent" => jobs[i].key # k
        BY <2>1, <4>1, JobStoreAssumption DEF None
      <4>3. QED
        BY <1>1, <2>1, <4>1, <4>2
    <3>3. QED
      BY <3>1, <3>2
  <2>4. ActiveOnce'
    <3> SUFFICES ASSUME NEW i \in Jobs, NEW l \in Jobs, i # l,
                        jobs'[i].key = jobs'[l].key, jobs'[i].key # None,
                        jobs'[i].policy = "active", jobs'[l].policy = "active",
                        jobs'[i].status \in Active, jobs'[l].status \in Active
                 PROVE  FALSE
      BY DEF ActiveOnce
    <3>1. CASE i = j
      BY <2>1, <3>1 DEF ActiveKeyTaken
    <3>2. CASE l = j
      BY <2>1, <3>2 DEF ActiveKeyTaken
    <3>3. CASE i # j /\ l # j
      <4>1. jobs'[i] = jobs[i] /\ jobs'[l] = jobs[l]
        BY <2>1, <3>3
      <4>2. ActiveOnce
        BY DEF Ledger
      <4>3. QED
        BY <4>1, <4>2 DEF ActiveOnce
    <3>4. QED
      BY <3>1, <3>2, <3>3
  <2>5. Fresh'
    <3>1. jobs[j].revision = 0
      BY <2>1 DEF Ledger, Unborn
    <3>2. \A i \in Jobs : jobs'[i] = jobs[i] \/ jobs'[i].revision > jobs[i].revision
      BY <2>1, <3>1, SMTT(30), SMTT(20)
    <3>3. QED
      BY <3>2, FreshStep DEF Ledger
  <2>6. QED
    BY <2>2, <2>3, <2>4, <2>5 DEF Ledger
<1>4. ASSUME NEW o \in Operators, NEW at \in TransactionTimes, Retry(o, at)
      PROVE  Ledger'
  <2>1. PICK j \in Jobs :
           /\ jobs[j].status \in {"failed", "canceled"}
           /\ SameIdentity(jobs[j], jobs'[j]) /\ jobs'[j].status = "queued"
           /\ jobs'[j].checkpoint = jobs[j].checkpoint
           /\ jobs'[j].revision = jobs[j].revision + 1
           /\ \A i \in Jobs : i # j => jobs'[i] = jobs[i]
           /\ jobs[j].policy = "active" => ~ActiveKeyTaken(jobs[j].key)
           /\ occurrences' = occurrences
    BY <1>4, RetryRows
  <2>2. \A i \in Jobs : jobs'[i].policy = jobs[i].policy /\ jobs'[i].key = jobs[i].key
    BY <2>1 DEF SameIdentity
  <2>3. Unborn'
    BY <2>1 DEF Ledger, Unborn
  <2>4. Ledgered'
    BY <2>1, <2>2 DEF Ledger, Ledgered
  <2>5. ActiveOnce'
    <3> SUFFICES ASSUME NEW i \in Jobs, NEW l \in Jobs, i # l,
                        jobs'[i].key = jobs'[l].key, jobs'[i].key # None,
                        jobs'[i].policy = "active", jobs'[l].policy = "active",
                        jobs'[i].status \in Active, jobs'[l].status \in Active
                 PROVE  FALSE
      BY DEF ActiveOnce
    <3>1. CASE i = j
      BY <2>1, <2>2, <3>1 DEF ActiveKeyTaken
    <3>2. CASE l = j
      BY <2>1, <2>2, <3>2 DEF ActiveKeyTaken
    <3>3. CASE i # j /\ l # j
      <4>1. jobs'[i] = jobs[i] /\ jobs'[l] = jobs[l]
        BY <2>1, <3>3
      <4>2. ActiveOnce
        BY DEF Ledger
      <4>3. QED
        BY <4>1, <4>2 DEF ActiveOnce
    <3>4. QED
      BY <3>1, <3>2, <3>3
  <2>6. Fresh'
    <3>1. \A i \in Jobs : jobs'[i] = jobs[i] \/ jobs'[i].revision > jobs[i].revision
      BY <1>2, <2>1
    <3>2. QED
      BY <3>1, FreshStep DEF Ledger
  <2>7. QED
    BY <2>3, <2>4, <2>5, <2>6 DEF Ledger
<1>5. CASE /\ ~Enqueue
           /\ ~\E o \in Operators, at \in TransactionTimes : Retry(o, at)
  <2>1. \A i \in Jobs : Kept(jobs[i], jobs'[i])
    BY <1>5, RowsKept
  <2>2. occurrences' = occurrences
    BY <1>5, Frames
  <2>3. \A i \in Jobs : jobs'[i].policy = jobs[i].policy /\ jobs'[i].key = jobs[i].key
    BY <2>1 DEF Kept, SameIdentity
  <2>4. Unborn'
    BY <2>1 DEF Ledger, Unborn, Kept
  <2>5. Ledgered'
    BY <2>2, <2>3 DEF Ledger, Ledgered
  <2>6. ActiveOnce'
    <3>1. \A i \in Jobs : jobs'[i].status \in Active => jobs[i].status \in Active
      BY <2>1 DEF Kept
    <3>2. QED
      BY <2>3, <3>1, SMTT(30), SMTT(20) DEF Ledger, ActiveOnce
  <2>7. Fresh'
    <3>1. \A j \in Jobs : \/ jobs'[j] = jobs[j]
                          \/ jobs'[j].revision > jobs[j].revision
                          \/ /\ jobs'[j].status = "deleted"
                             /\ jobs'[j].revision = jobs[j].revision
      BY <2>1 DEF Kept
    <3>2. QED
      BY <3>1, FreshStep DEF Ledger
  <2>8. QED
    BY <2>4, <2>5, <2>6, <2>7 DEF Ledger
<1>6. QED
  BY <1>3, <1>4, <1>5

\* In every reachable state the keys are used once, the ledger names every
\* permanent Job and every prepared target is an old or the current row.
THEOREM LedgerHolds == Spec => [](IInv /\ Ledger)
<1>1. Init => IInv /\ Ledger
  BY IInvInit, LedgerInit
<1>2. (IInv /\ Ledger) /\ [Next]_vars => (IInv /\ Ledger)'
  BY IInvNext, LedgerNext
<1>3. QED
  BY <1>1, <1>2, PTL DEF Spec

\* A control applied at its prepared revision acts on the row it was
\* prepared for.
THEOREM ControlsSeeTheirRow == Spec => []RevisionIdentifiesRow
<1>1. IInv /\ Ledger => RevisionIdentifiesRow
  BY DEF Ledger, Fresh, RevisionIdentifiesRow
<1>2. QED
  BY <1>1, LedgerHolds, PTL

\* No two Jobs share an active key, nor ever a permanent one.
THEOREM KeysDeduplicate == Spec => []Deduplicated
<1>1. ASSUME IInv /\ Ledger PROVE Deduplicated
  <2> SUFFICES ASSUME NEW i \in Jobs, NEW j \in Jobs, i # j,
                      jobs[i].key = jobs[j].key, jobs[i].key # None,
                      jobs[i].policy = jobs[j].policy
               PROVE  /\ jobs[i].policy = "active"
                      /\ ~(jobs[i].status \in Active /\ jobs[j].status \in Active)
    BY DEF Deduplicated
  <2>1. jobs[i].policy \in {"active", "permanent"}
    BY <1>1 DEF IInv, Consistent, Tables, Job
  <2>2. jobs[i].policy # "permanent"
    BY <1>1 DEF Ledger, Ledgered
  <2>3. QED
    BY <1>1, <2>1, <2>2 DEF Ledger, ActiveOnce
<1>2. QED
  BY <1>1, LedgerHolds, PTL

\* Only the attempt that holds a Job replaces its checkpoint.
THEOREM HolderCheckpoints == Spec => OnlyHolderCheckpoints
<1> DEFINE A == \A j \in Jobs :
                   jobs'[j].checkpoint # jobs[j].checkpoint =>
                      /\ jobs[j].status \in Claimed
                      /\ jobs'[j].checkpoint = jobs[j].attemptCount
<1>1. ASSUME IInv, Ledger, [Next]_vars PROVE A
  <2>1. CASE Enqueue
    <3>1. PICK j \in Jobs : /\ jobs[j].status = "absent" /\ jobs'[j].checkpoint = 0
                            /\ \A i \in Jobs : i # j => jobs'[i] = jobs[i]
      BY <1>1, <2>1, EnqueueRows
    <3>2. QED
      BY <1>1, <3>1 DEF Ledger, Unborn
  <2>2. ASSUME NEW o \in Operators, NEW at \in TransactionTimes, Retry(o, at) PROVE A
    <3>1. PICK j \in Jobs : /\ jobs'[j].checkpoint = jobs[j].checkpoint
                            /\ \A i \in Jobs : i # j => jobs'[i] = jobs[i]
      BY <1>1, <2>2, RetryRows
    <3>2. QED
      BY <3>1
  <2>3. CASE /\ ~Enqueue
             /\ ~\E o \in Operators, at \in TransactionTimes : Retry(o, at)
    BY <1>1, <2>3, RowsKept DEF Kept
  <2>4. QED
    BY <2>1, <2>2, <2>3
<1>2. IInv /\ Ledger /\ [Next]_vars => [A]_vars
  BY <1>1
<1>3. QED
  BY <1>2, LedgerHolds, PTL DEF Spec, OnlyHolderCheckpoints

\* A terminal Job leaves its state only by an explicit retry or the cleanup.
THEOREM Settled == Spec => TerminalStays
<1> DEFINE A == \A j \in Jobs :
              /\ jobs[j].status = "succeeded" => jobs'[j].status \in {"succeeded", "deleted"}
              /\ jobs[j].status \in {"failed", "canceled"} =>
                    \/ jobs'[j].status \in {jobs[j].status, "deleted"}
                    \/ \E o \in Operators : targets[o] # targets'[o]
              /\ jobs[j].status = "cancel_requested" =>
                    jobs'[j].status \in Terminal \cup {"cancel_requested"}
<1>1. ASSUME IInv, Ledger, [Next]_vars PROVE A
  <2>1. CASE Enqueue
    <3>1. PICK j \in Jobs : /\ jobs[j].status = "absent"
                            /\ \A i \in Jobs : i # j => jobs'[i] = jobs[i]
      BY <1>1, <2>1, EnqueueRows
    <3>2. QED
      BY <3>1 DEF Terminal
  <2>2. ASSUME NEW o \in Operators, NEW at \in TransactionTimes, Retry(o, at) PROVE A
    <3>1. PICK j \in Jobs : /\ jobs[j].status \in {"failed", "canceled"}
                            /\ \A i \in Jobs : i # j => jobs'[i] = jobs[i]
                            /\ targets' = [targets EXCEPT ![o] = {}] /\ targets[o] # {}
      BY <1>1, <2>2, RetryRows
    <3>2. targets'[o] # targets[o]
      BY <1>1, <3>1 DEF IInv
    <3>3. QED
      BY <3>1, <3>2 DEF Terminal
  <2>3. CASE /\ ~Enqueue
             /\ ~\E o \in Operators, at \in TransactionTimes : Retry(o, at)
    BY <1>1, <2>3, RowsKept DEF Kept, Terminal
  <2>4. QED
    BY <2>1, <2>2, <2>3
<1>2. IInv /\ Ledger /\ [Next]_vars => [A]_vars
  BY <1>1
<1>3. QED
  BY <1>2, LedgerHolds, PTL DEF Spec, TerminalStays

----------------------------------------------------------------------------
(* Leases *)

\* What becomes of a running attempt a in the attempts B.
Survives(a, B) ==
  \E b \in B : /\ b.job = a.job /\ b.number = a.number
               /\ b.leaseExpiresAt >= a.leaseExpiresAt
               /\ b.status = "lease_expired" => a.leaseExpiresAt <= now

\* The recovery ends only attempts whose lease the clock has reached.
LEMMA ExpiredSurvive ==
  ASSUME IInv, NEW at \in TransactionTimes, NEW a \in attempts, a.status = "running"
  PROVE  Survives(a, ExpiredAttempts(at))
<1>1. attempts \in SUBSET Attempt /\ at \in Int /\ at <= now /\ now \in Nat
  BY DEF IInv, Consistent, Tables, TransactionTimes
<1>2. PICK x \in ExpiredAttempts(at) :
         /\ x.job = a.job /\ x.number = a.number
         /\ x.leaseExpiresAt = a.leaseExpiresAt
         /\ x.status = IF Lapsed(a, at) THEN "lease_expired" ELSE a.status
  BY <1>1, ExpiredFacts
<1>3. a.leaseExpiresAt \in Int
  BY <1>1 DEF Attempt
<1>4. QED
  BY <1>1, <1>2, <1>3 DEF Survives, Lapsed

\* A worker's call ends at most its own attempt, and only shifts a lease on.
LEMMA WorkerSurvive ==
  ASSUME IInv, WorkerCall, NEW a \in attempts, a.status = "running"
  PROVE  Survives(a, attempts')
<1>1. PICK c \in attempts, at \in TransactionTimes :
         \/ Heartbeat(c, at)
         \/ Checkpoint(c, at)
         \/ ReserveWork(c, at)
         \/ \E kind \in Kinds : Complete(c, kind, at)
  BY DEF WorkerCall
<1>2. /\ a \in Attempt /\ c \in Attempt /\ a.leaseExpiresAt \in Int /\ at \in Int /\ now \in Nat
      /\ c.heartbeatAt \in Int /\ c.leaseExpiresAt = c.heartbeatAt + Lease
  BY SMTT(30), SMTT(20) DEF IInv, Consistent, Tables, TransactionTimes, LeaseLength, Attempt
<1>3. a \in attempts' => Survives(a, attempts')
  BY <1>2 DEF Survives
<1>4. ASSUME NEW b, attempts' = ReplaceAttempt(c, b), b.job = c.job, b.number = c.number,
             b.leaseExpiresAt >= c.leaseExpiresAt, b.status # "lease_expired"
      PROVE  Survives(a, attempts')
  <2>1. b \in attempts' /\ (a # c => a \in attempts')
    BY <1>4 DEF ReplaceAttempt
  <2>2. QED
    BY <1>3, <1>4, <2>1 DEF Survives
<1>5. CASE Heartbeat(c, at)
  <2> DEFINE hb == Later(c.heartbeatAt, at)
             b == Renewed(c, hb)
  <2>1. hb \in Int /\ hb >= c.heartbeatAt
    BY <1>2 DEF Later
  <2>2. /\ b.job = c.job /\ b.number = c.number /\ b.status = c.status
        /\ b.leaseExpiresAt = hb + Lease
    <3> HIDE DEF hb
    <3>1. c \in Attempt
      BY <1>2
    <3>2. QED
      BY <3>1 DEF Renewed, Attempt
  <2>3. attempts' = ReplaceAttempt(c, b) /\ c.status = "running"
    BY <1>5 DEF Heartbeat, Fenced
  <2> HIDE DEF b, hb
  <2>4. b.leaseExpiresAt >= c.leaseExpiresAt /\ b.status # "lease_expired"
    BY <1>2, <2>1, <2>2, <2>3, JobStoreAssumption
  <2>5. QED
    BY <1>4, <2>2, <2>3, <2>4
<1>6. CASE Checkpoint(c, at) \/ ReserveWork(c, at)
  BY <1>3, <1>6 DEF Checkpoint, ReserveWork
<1>7. ASSUME NEW requested \in Kinds, Complete(c, requested, at)
      PROVE  Survives(a, attempts')
  <2> DEFINE st == AttemptStatus(EffectiveKind(jobs[c.job], requested))
             b == Ended(c, st)
  <2>1. st \in {"succeeded", "failed", "canceled", "incompatible"}
    BY DEF AttemptStatus
  <2>2. attempts' = ReplaceAttempt(c, b)
    BY <1>7 DEF Complete
  <2> HIDE DEF st
  <2>3. /\ b.job = c.job /\ b.number = c.number /\ b.status = st
        /\ b.leaseExpiresAt = c.leaseExpiresAt
    BY <1>2, <2>1, AttemptFacts, SMTT(30), SMTT(20)
  <2> HIDE DEF b
  <2>4. b.leaseExpiresAt >= c.leaseExpiresAt /\ b.status # "lease_expired"
    BY <1>2, <2>1, <2>3, JobStoreAssumption
  <2>5. QED
    BY <1>4, <2>2, <2>3, <2>4
<1>8. QED
  BY <1>1, <1>5, <1>6, <1>7

\* A lease the clock has not reached is neither shortened nor expired.
THEOREM LeasesHonoured == Spec => LeaseHonoured
<1> DEFINE A == \A a \in attempts : a.status = "running" =>
                   \E b \in attempts' :
                      /\ b.job = a.job /\ b.number = a.number
                      /\ b.leaseExpiresAt >= a.leaseExpiresAt
                      /\ b.status = "lease_expired" => a.leaseExpiresAt <= now
<1>1. ASSUME IInv, [Next]_vars, NEW a \in attempts, a.status = "running"
      PROVE  Survives(a, attempts')
  <2>1. a \in Attempt /\ a.leaseExpiresAt \in Int /\ a.job \in Jobs
        /\ jobs[a.job].status \in Claimed
    BY <1>1 DEF IInv, Consistent, Tables, Exclusive, Attempt
  <2>2. a \in attempts' => Survives(a, attempts')
    BY <1>1, <2>1 DEF Survives
  <2>3. CASE Enqueue
    BY <1>1, <2>2, <2>3 DEF Enqueue, EnqueueActive, EnqueuePermanent
  <2>4. CASE Claim
    <3>1. PICK n \in Nodes, at \in TransactionTimes : ClaimNext(n, at)
      BY <2>4 DEF Claim
    <3>2. ExpiredAttempts(at) \subseteq attempts'
      BY <3>1 DEF ClaimNext
    <3>3. Survives(a, ExpiredAttempts(at))
      BY <1>1, ExpiredSurvive
    <3>4. QED
      BY <3>2, <3>3 DEF Survives
  <2>5. CASE Recovery
    BY <1>1, <2>5, ExpiredSurvive DEF Recovery, RecoverOnly
  <2>6. CASE WorkerCall
    BY <1>1, <2>6, WorkerSurvive
  <2>7. CASE OperatorCall
    <3>1. attempts' = attempts
      BY <2>7 DEF OperatorCall, Prepare, Cancel, Retry
    <3>2. QED
      BY <1>1, <2>2, <3>1
  <2>8. CASE Maintenance
    <3>1. PICK at \in TransactionTimes :
             \/ \E j \in Jobs : Withdraw(j, at)
             \/ \E page \in SUBSET Jobs : DeleteTerminalHistory(page, at)
      BY <2>8 DEF Maintenance
    <3>2. a \in attempts'
      <4>1. ASSUME NEW page \in SUBSET Jobs, DeleteTerminalHistory(page, at)
            PROVE  a \in attempts'
        <5>1. attempts' = {x \in attempts : x.job \notin page}
              /\ \A j \in page : PastRetention(jobs[j], at)
          BY <4>1 DEF DeleteTerminalHistory
        <5>2. a.job \notin page
          BY <2>1, <5>1 DEF PastRetention, Claimed
        <5>3. QED
          BY <1>1, <5>1, <5>2
      <4>2. QED
        BY <1>1, <3>1, <4>1 DEF Withdraw
    <3>3. QED
      BY <2>2, <3>2
  <2>9. CASE Tick \/ UNCHANGED vars
    BY <1>1, <2>2, <2>9 DEF Tick, vars
  <2>10. QED
    BY <1>1, <2>3, <2>4, <2>5, <2>6, <2>7, <2>8, <2>9 DEF Next
<1>2. IInv /\ [Next]_vars => [A]_vars
  BY <1>1 DEF Survives
<1>3. QED
  BY <1>2, IInvHolds, PTL DEF Spec, LeaseHonoured

-----------------------------------------------------------------------------
(* Part 3: the budget of executions *)

\* The attempts of a Job that exists are as many as its row counts: their
\* numbers are exactly 1 .. attempt_count.
LEMMA AttemptsCounted ==
  ASSUME IInv, NEW j \in Jobs, Exists(j)
  PROVE  /\ IsFiniteSet(AttemptsOf(j))
         /\ Cardinality(AttemptsOf(j)) = jobs[j].attemptCount
         /\ jobs[j].attemptCount \in Nat
<1> DEFINE n == jobs[j].attemptCount
           S == AttemptsOf(j)
           f == [a \in S |-> a.number]
<1>1. n \in Nat
  BY DEF IInv, Consistent, Tables, Job
<1>2. \A a \in S : a.number \in 1 .. n
  BY <1>1, SMTT(30), SMTT(20) DEF IInv, Consistent, Tables, Numbered, AttemptsOf, Attempt
<1>3. \A a, b \in S : a.number = b.number => a = b
  BY DEF IInv, Consistent, Tables, Numbered, AttemptsOf
<1>4. \A i \in 1 .. n : \E a \in S : a.number = i
  BY SMTT(30), SMTT(20) DEF IInv, Consistent, Tables, Numbered, AttemptsOf, Exists
<1>5. IsFiniteSet(1 .. n) /\ Cardinality(1 .. n) = n
  <2> HIDE DEF n
  <2>1. 1 \in Int /\ n \in Int
    BY <1>1
  <2>2. IsFiniteSet(1 .. n) /\ Cardinality(1 .. n) = IF 1 > n THEN 0 ELSE n - 1 + 1
    BY <2>1, FS_Interval
  <2>3. QED
    BY <1>1, <2>2
<1> HIDE DEF n, S
<1>6. f \in [S -> 1 .. n]
  BY <1>2
<1>7. f \in Injection(S, 1 .. n)
  <2>1. \A a, b \in S : f[a] = f[b] => a = b
    BY <1>3
  <2>2. QED
    BY <1>6, <2>1 DEF Injection, IsInjective
<1>8. f \in Surjection(S, 1 .. n)
  BY <1>4, <1>6 DEF Surjection
<1>9. IsFiniteSet(S) /\ Cardinality(S) = Cardinality(1 .. n)
  BY <1>5, <1>7, <1>8, FS_Injection
<1>10. QED
  BY <1>1, <1>5, <1>9 DEF n, S

\* The attempts among A that some node gave back to Job j.
ReturnedIn(A, j) == {a \in A : a.job = j /\ a.status = "incompatible"}

\* A Job keeps its budget in a step: it gives back as many slots as it grants.
Unspent(j) ==
  \/ /\ jobs'[j].maximumAttempts = jobs[j].maximumAttempts
     /\ ReturnedIn(attempts', j) = ReturnedIn(attempts, j)
  \/ /\ jobs'[j].maximumAttempts = jobs[j].maximumAttempts + 1
     /\ \E b : /\ b \notin ReturnedIn(attempts, j)
               /\ ReturnedIn(attempts', j) = ReturnedIn(attempts, j) \cup {b}

\* The recovery of lapsed attempts gives none back.
LEMMA ExpiredReturned ==
  ASSUME attempts \in SUBSET Attempt, NEW at \in Int, NEW j
  PROVE  ReturnedIn(ExpiredAttempts(at), j) = ReturnedIn(attempts, j)
<1> DEFINE E == ExpiredAttempts(at)
<1>1. \A x \in E : \E y \in attempts :
         /\ x = IF Lapsed(y, at) THEN Ended(y, "lease_expired") ELSE y
         /\ x.status = IF Lapsed(y, at) THEN "lease_expired" ELSE y.status
  BY ExpiredFacts
<1>2. \A y \in attempts : y.status = "incompatible" => y \in E
  BY DEF ExpiredAttempts, Lapsed
<1> HIDE DEF E
<1>3. \A x \in E : x.status = "incompatible" => x \in attempts
  BY <1>1
<1>4. QED
  BY <1>2, <1>3 DEF ReturnedIn, E

\* Replacing a running attempt gives it back exactly when it ends incompatible.
LEMMA ReplacedReturned ==
  ASSUME IInv, NEW a \in attempts, a.status = "running", NEW b,
         b.job = a.job, b.number = a.number, NEW j
  PROVE  /\ b.status # "incompatible" \/ a.job # j
              => ReturnedIn(ReplaceAttempt(a, b), j) = ReturnedIn(attempts, j)
         /\ b.status = "incompatible" /\ a.job = j
              => /\ ReturnedIn(ReplaceAttempt(a, b), j) = ReturnedIn(attempts, j) \cup {b}
                 /\ b \notin ReturnedIn(attempts, j)
<1>1. b \in attempts => a = b
  BY DEF IInv, Consistent, Tables, Numbered
<1>2. QED
  BY <1>1 DEF ReturnedIn, ReplaceAttempt

\* Only a relinquishment grants a slot.
LEMMA CompletedGrants ==
  ASSUME NEW r \in Job, NEW kind \in Kinds, NEW at \in Int
  PROVE  Completed(r, kind, at).maximumAttempts
           = IF kind = "relinquished" THEN r.maximumAttempts + 1 ELSE r.maximumAttempts
<1>1. at + RetryDelay \in Int
  BY JobStoreAssumption
<1>2. CASE kind = "relinquished"
  BY <1>1, <1>2, RelinquishedFacts DEF Completed
<1>3. CASE kind = "retryable" /\ r.attemptCount < r.maximumAttempts
  BY <1>1, <1>3, RequeuedFacts DEF Completed
<1>4. CASE kind # "relinquished" /\ ~(kind = "retryable" /\ r.attemptCount < r.maximumAttempts)
  <2>1. PICK s \in Terminal : Completed(r, kind, at) = Finished(r, s, at)
    BY <1>4 DEF Completed, Terminal
  <2>2. QED
    BY <1>4, <2>1, FinishedFacts, SMTT(30), SMTT(20)
<1>5. QED
  BY <1>2, <1>3, <1>4

\* A worker's call leaves the budget alone, or gives one slot back.
LEMMA WorkerUnspent ==
  ASSUME IInv, WorkerCall, NEW j \in Jobs PROVE Unspent(j)
<1>1. PICK a \in attempts, at \in TransactionTimes :
         \/ Heartbeat(a, at)
         \/ Checkpoint(a, at)
         \/ ReserveWork(a, at)
         \/ \E kind \in Kinds : Complete(a, kind, at)
  BY DEF WorkerCall
<1> DEFINE r == jobs[a.job]
           jobAt == Later(r.updatedAt, at)
<1>2. /\ a \in Attempt /\ a.job \in Jobs /\ a.number \in Nat /\ r \in Job /\ at \in Int
      /\ jobs \in [Jobs -> Job] /\ a.heartbeatAt \in Int
  BY SMTT(30), SMTT(20) DEF IInv, Consistent, Tables, Attempt, TransactionTimes
<1>3. jobAt \in Int
  BY <1>2, StampType DEF IInv, Consistent
<1>4. CASE Heartbeat(a, at)
  <2> DEFINE b == Renewed(a, Later(a.heartbeatAt, at))
  <2>1. /\ a.status = "running" /\ jobs' = jobs
        /\ attempts' = ReplaceAttempt(a, b)
    BY <1>4 DEF Heartbeat, Fenced
  <2>2. b.job = a.job /\ b.number = a.number /\ b.status = a.status
    BY <1>2 DEF Renewed, Attempt
  <2> HIDE DEF b
  <2>3. ReturnedIn(attempts', j) = ReturnedIn(attempts, j)
    BY <2>1, <2>2, ReplacedReturned
  <2>4. QED
    BY <2>1, <2>3 DEF Unspent
<1>5. CASE Checkpoint(a, at)
  <2> DEFINE u == Progressed(r, a.number, jobAt)
  <2>1. attempts' = attempts /\ jobs' = [jobs EXCEPT ![a.job] = u]
    BY <1>5 DEF Checkpoint
  <2>2. u.maximumAttempts = r.maximumAttempts
    <3> HIDE DEF r, jobAt
    <3>1. QED
      BY <1>2, <1>3, ProgressedFacts
  <2> HIDE DEF u
  <2>3. QED
    BY <1>2, <2>1, <2>2 DEF Unspent
<1>6. CASE ReserveWork(a, at)
  <2> DEFINE u == Reserved(r, jobAt)
  <2>1. attempts' = attempts /\ jobs' = [jobs EXCEPT ![a.job] = u]
    BY <1>6 DEF ReserveWork
  <2>2. u.maximumAttempts = r.maximumAttempts
    <3> HIDE DEF r, jobAt
    <3>1. QED
      BY <1>2, <1>3, ReservedFacts
  <2> HIDE DEF u
  <2>3. QED
    BY <1>2, <2>1, <2>2 DEF Unspent
<1>7. ASSUME NEW requested \in Kinds, Complete(a, requested, at)
      PROVE  Unspent(j)
  <2> DEFINE kind == EffectiveKind(r, requested)
             u == Completed(r, kind, jobAt)
             b == Ended(a, AttemptStatus(kind))
  <2>1. /\ a.status = "running" /\ jobs' = [jobs EXCEPT ![a.job] = u]
        /\ attempts' = ReplaceAttempt(a, b)
    BY <1>7 DEF Complete, Fenced
  <2>2. kind \in Kinds
    BY DEF EffectiveKind, Kinds
  <2>3. /\ AttemptStatus(kind) \in {"succeeded", "failed", "canceled", "incompatible"}
        /\ AttemptStatus(kind) = "incompatible" <=> kind = "relinquished"
    BY DEF AttemptStatus
  <2>4. u.maximumAttempts
           = IF kind = "relinquished" THEN r.maximumAttempts + 1 ELSE r.maximumAttempts
    <3> HIDE DEF r, jobAt, kind
    <3>1. QED
      BY <1>2, <1>3, <2>2, CompletedGrants
  <2> HIDE DEF u, kind
  <2>5. b.job = a.job /\ b.number = a.number /\ b.status = AttemptStatus(kind)
    BY <1>2, <2>3, AttemptFacts, SMTT(30), SMTT(20)
  <2> HIDE DEF b
  <2>6. jobs'[j] = IF j = a.job THEN u ELSE jobs[j]
    BY <1>2, <2>1
  <2>7. CASE kind = "relinquished" /\ j = a.job
    <3>1. /\ ReturnedIn(attempts', j) = ReturnedIn(attempts, j) \cup {b}
          /\ b \notin ReturnedIn(attempts, j)
      BY <2>1, <2>3, <2>5, <2>7, ReplacedReturned
    <3>2. jobs'[j].maximumAttempts = jobs[j].maximumAttempts + 1
      BY <2>4, <2>6, <2>7
    <3>3. QED
      BY <3>1, <3>2 DEF Unspent
  <2>8. CASE ~(kind = "relinquished" /\ j = a.job)
    <3>1. ReturnedIn(attempts', j) = ReturnedIn(attempts, j)
      BY <2>1, <2>3, <2>5, <2>8, ReplacedReturned
    <3>2. jobs'[j].maximumAttempts = jobs[j].maximumAttempts
      BY <2>4, <2>6, <2>8
    <3>3. QED
      BY <3>1, <3>2 DEF Unspent
  <2>9. QED
    BY <2>7, <2>8
<1>8. QED
  BY <1>1, <1>4, <1>5, <1>6, <1>7

\* Every step but an explicit retry leaves the budget of a Job that stays alone.
LEMMA StepUnspent ==
  ASSUME IInv, [Next]_vars, NEW j \in Jobs, Exists(j), Exists(j)',
         ~\E o \in Operators, at \in TransactionTimes : Retry(o, at)
  PROVE  Unspent(j)
<1>1. jobs \in [Jobs -> Job] /\ now \in Nat /\ attempts \in SUBSET Attempt /\ Tables(jobs, attempts)
  BY DEF IInv, Consistent, Tables
<1>2. jobs'[j].maximumAttempts = jobs[j].maximumAttempts /\ attempts' = attempts => Unspent(j)
  BY DEF Unspent
<1>3. \A i \in Jobs, at \in TransactionTimes :
         LET u == CancellationRequested(jobs[i], Later(jobs[i].updatedAt, at)) IN
         jobs' = [jobs EXCEPT ![i] = u] =>
           jobs'[j].maximumAttempts = jobs[j].maximumAttempts
  <2> SUFFICES ASSUME NEW i \in Jobs, NEW at \in TransactionTimes,
                      jobs' = [jobs EXCEPT ![i] = CancellationRequested(jobs[i], Later(jobs[i].updatedAt, at))]
               PROVE  jobs'[j].maximumAttempts = jobs[j].maximumAttempts
    OBVIOUS
  <2> DEFINE u == CancellationRequested(jobs[i], Later(jobs[i].updatedAt, at))
  <2>1. jobs[i] \in Job /\ Later(jobs[i].updatedAt, at) \in Int
    BY <1>1, StampType
  <2>2. u.maximumAttempts = jobs[i].maximumAttempts
    BY <2>1, CancellationRequestedFacts
  <2>3. jobs' = [jobs EXCEPT ![i] = u]
    OBVIOUS
  <2> HIDE DEF u
  <2>4. QED
    BY <1>1, <2>2, <2>3
<1>4. CASE Enqueue
  <2>1. PICK i \in Jobs : jobs[i].status = "absent" /\ \E u : jobs' = [jobs EXCEPT ![i] = u]
    BY <1>4 DEF Enqueue, EnqueueActive, EnqueuePermanent
  <2>2. i # j
    BY <2>1 DEF Exists, JobStatuses, Active, Terminal
  <2>3. attempts' = attempts
    BY <1>4 DEF Enqueue, EnqueueActive, EnqueuePermanent
  <2>4. QED
    BY <1>1, <1>2, <2>1, <2>2, <2>3
<1>5. CASE Claim
  <2>1. PICK n \in Nodes, at \in TransactionTimes : ClaimNext(n, at)
    BY <1>5 DEF Claim
  <2>2. at \in Int
    BY <1>1 DEF TransactionTimes
  <2> DEFINE K == RecoveredJobs(at)
  <2>3. PICK i \in Jobs :
           /\ jobs' = [K EXCEPT ![i] = Started(K[i], Later(K[i].updatedAt, at))]
           /\ attempts' = ExpiredAttempts(at) \cup {NewAttempt(i, K[i].attemptCount + 1, n, at)}
    BY <2>1 DEF ClaimNext
  <2>4. /\ K \in [Jobs -> Job]
        /\ \A h \in Jobs : K[h].maximumAttempts = jobs[h].maximumAttempts
    BY <1>1, <2>2, RecoveredRows
  <2>5. NewAttempt(i, K[i].attemptCount + 1, n, at).status = "running"
    BY DEF NewAttempt
  <2> HIDE DEF K
  <2>6. ReturnedIn(attempts', j) = ReturnedIn(ExpiredAttempts(at), j)
    BY <2>3, <2>5 DEF ReturnedIn
  <2>7. ReturnedIn(attempts', j) = ReturnedIn(attempts, j)
    BY <1>1, <2>2, <2>6, ExpiredReturned
  <2> DEFINE u == Started(K[i], Later(K[i].updatedAt, at))
  <2>8. u.maximumAttempts = K[i].maximumAttempts
    <3>1. K[i] \in Job /\ Later(K[i].updatedAt, at) \in Int
      BY <1>1, <2>4, StampType
    <3>2. QED
      BY <3>1, StartedFacts
  <2>9. jobs' = [K EXCEPT ![i] = u]
    BY <2>3
  <2> HIDE DEF u
  <2>10. jobs'[j].maximumAttempts = jobs[j].maximumAttempts
    BY <2>4, <2>8, <2>9
  <2>11. QED
    BY <2>7, <2>10 DEF Unspent
<1>6. CASE Recovery
  <2>1. PICK at \in TransactionTimes : jobs' = RecoveredJobs(at) /\ attempts' = ExpiredAttempts(at)
    BY <1>6 DEF Recovery, RecoverOnly
  <2>2. at \in Int
    BY <1>1 DEF TransactionTimes
  <2>3. jobs'[j].maximumAttempts = jobs[j].maximumAttempts
    BY <1>1, <2>1, <2>2, RecoveredRows
  <2>4. ReturnedIn(attempts', j) = ReturnedIn(attempts, j)
    BY <1>1, <2>1, <2>2, ExpiredReturned
  <2>5. QED
    BY <2>3, <2>4 DEF Unspent
<1>7. CASE OperatorCall
  <2>1. attempts' = attempts
    BY <1>7 DEF OperatorCall, Prepare, Cancel, Retry
  <2>2. PICK o \in Operators :
           \/ \E i \in Jobs, kind \in {"cancel", "retry"} : Prepare(o, i, kind)
           \/ \E at \in TransactionTimes : Cancel(o, at)
    BY <1>7 DEF OperatorCall
  <2>3. CASE \E i \in Jobs, kind \in {"cancel", "retry"} : Prepare(o, i, kind)
    BY <1>2, <2>1, <2>3 DEF Prepare
  <2>4. ASSUME NEW at \in TransactionTimes, Cancel(o, at)
        PROVE  Unspent(j)
    <3>1. PICK t \in targets[o] :
             LET jobAt == Later(jobs[t.job].updatedAt, at) IN
             jobs' = [jobs EXCEPT ![t.job] = CancellationRequested(jobs[t.job], jobAt)]
      BY <2>4 DEF Cancel
    <3>2. t.job \in Jobs
      BY SMTT(30), SMTT(20) DEF IInv, Target
    <3>3. jobs'[j].maximumAttempts = jobs[j].maximumAttempts
      BY <1>3, <3>1, <3>2
    <3>4. QED
      BY <1>2, <2>1, <3>3
  <2>5. QED
    BY <2>2, <2>3, <2>4
<1>8. CASE Maintenance
  <2>1. PICK at \in TransactionTimes :
           \/ \E i \in Jobs : Withdraw(i, at)
           \/ \E page \in SUBSET Jobs : DeleteTerminalHistory(page, at)
    BY <1>8 DEF Maintenance
  <2>2. ASSUME NEW i \in Jobs, Withdraw(i, at)
        PROVE  Unspent(j)
    <3>1. jobs'[j].maximumAttempts = jobs[j].maximumAttempts
      BY <1>3, <2>2 DEF Withdraw
    <3>2. QED
      BY <1>2, <2>2, <3>1 DEF Withdraw
  <2>3. ASSUME NEW page \in SUBSET Jobs, DeleteTerminalHistory(page, at)
        PROVE  Unspent(j)
    <3>1. /\ jobs'[j] = IF j \in page THEN Deleted(jobs[j]) ELSE jobs[j]
          /\ attempts' = {a \in attempts : a.job \notin page}
      BY <2>3 DEF DeleteTerminalHistory
    <3>2. j \notin page
      BY <1>1, <3>1, DeletedFacts DEF Exists, JobStatuses, Active, Terminal
    <3>3. ReturnedIn(attempts', j) = ReturnedIn(attempts, j)
      BY <3>1, <3>2 DEF ReturnedIn
    <3>4. QED
      BY <3>1, <3>2, <3>3 DEF Unspent
  <2>4. QED
    BY <2>1, <2>2, <2>3
<1>9. CASE Tick \/ UNCHANGED vars
  BY <1>2, <1>9 DEF Tick, vars
<1>10. QED
  BY <1>4, <1>5, <1>6, <1>7, <1>8, <1>9, WorkerUnspent DEF Next

\* A Job's row never counts more executions than it allows.
LEMMA WithinAllowance ==
  ASSUME IInv, NEW j \in Jobs, Exists(j)
  PROVE  /\ IsFiniteSet(GivenBack(j))
         /\ Cardinality(GivenBack(j)) \in Nat
         /\ Cardinality(AttemptsOf(j) \ GivenBack(j)) <= Allowance(j)
<1> DEFINE S == AttemptsOf(j)
           G == GivenBack(j)
<1>1. /\ IsFiniteSet(S) /\ Cardinality(S) = jobs[j].attemptCount
      /\ jobs[j].attemptCount \in Nat
  BY AttemptsCounted
<1>2. jobs[j].maximumAttempts \in Nat /\ jobs[j].attemptCount <= jobs[j].maximumAttempts
  BY DEF IInv, Consistent, Tables, Budgeted, Job
<1>3. G \in SUBSET S
  BY DEF GivenBack
<1> HIDE DEF S, G
<1>4. IsFiniteSet(G) /\ Cardinality(G) \in Nat
  BY <1>1, <1>3, FS_Subset, FS_CardinalityType
<1>5. S \cap G = G
  BY <1>3
<1>6. Cardinality(S \ G) = Cardinality(S) - Cardinality(G)
  <2>1. Cardinality(S \ G) = Cardinality(S) - Cardinality(S \cap G)
    BY <1>1, FS_Difference
  <2>2. QED
    BY <1>5, <2>1
<1>7. Cardinality(S \ G) <= jobs[j].maximumAttempts - Cardinality(G)
  BY <1>1, <1>2, <1>4, <1>6
<1>8. QED
  BY <1>4, <1>7 DEF S, G, Allowance

\* The budget of a Job shrinks or stays, and only an operator's retry of a
\* Job that ended adds one execution to it.
THEOREM BudgetKept == Spec => FailureBudget
<1> DEFINE B(j) ==
             /\ Cardinality(AttemptsOf(j) \ GivenBack(j))' <= Allowance(j)'
             /\ \/ Allowance(j)' <= Allowance(j)
                \/ /\ Allowance(j)' = Allowance(j) + 1
                   /\ jobs[j].status \in {"failed", "canceled"}
                   /\ \E o \in Operators : targets[o] # targets'[o]
           Within == \A j \in Jobs : Exists(j) =>
                       /\ IsFiniteSet(GivenBack(j)) /\ Cardinality(GivenBack(j)) \in Nat
                       /\ Cardinality(AttemptsOf(j) \ GivenBack(j)) <= Allowance(j)
<1>0. IInv' => Within'
  <2>1. IInv => Within
    BY WithinAllowance
  <2> HIDE DEF Within
  <2>2. QED
    BY <2>1, PTL
<1>1. ASSUME IInv, IInv', [Next]_vars, NEW j \in Jobs, Exists(j), Exists(j)'
      PROVE  B(j)
  <2> DEFINE G == GivenBack(j)
             m == jobs[j].maximumAttempts
             H == GivenBack(j)'
             k == jobs'[j].maximumAttempts
  <2>1. Cardinality(AttemptsOf(j) \ GivenBack(j))' <= Allowance(j)'
        /\ IsFiniteSet(H) /\ Cardinality(H) \in Nat
    BY <1>0, <1>1
  <2>2. IsFiniteSet(G) /\ Cardinality(G) \in Nat
    BY <1>1, WithinAllowance
  <2>3. m \in Nat /\ k \in Nat /\ jobs[j].attemptCount \in Nat /\ jobs[j].attemptCount <= m
    BY <1>1 DEF IInv, Consistent, Tables, Budgeted, Job
  <2>4. G = ReturnedIn(attempts, j) /\ H = ReturnedIn(attempts', j)
    BY DEF GivenBack, AttemptsOf, ReturnedIn
  <2>5. Allowance(j) = m - Cardinality(G) /\ Allowance(j)' = k - Cardinality(H)
    BY DEF Allowance
  <2>6. CASE Unspent(j)
    <3>1. CASE k = m /\ H = G
      <4> HIDE DEF G, H, k, m
      <4>1. QED
        BY <2>1, <2>2, <2>3, <2>5, <3>1
    <3>2. CASE k = m + 1 /\ \E b : b \notin G /\ H = G \cup {b}
      <4> HIDE DEF G, H, k, m
      <4>1. Cardinality(H) = Cardinality(G) + 1
        BY <2>2, <3>2, FS_AddElement
      <4>2. k - Cardinality(H) = m - Cardinality(G)
        BY <2>2, <2>3, <3>2, <4>1
      <4>3. Allowance(j)' <= Allowance(j)
        BY <2>2, <2>3, <2>5, <4>2
      <4>4. QED
        BY <2>1, <4>3
    <3>3. QED
      BY <2>4, <2>6, <3>1, <3>2 DEF Unspent
  <2>7. ASSUME NEW o \in Operators, NEW at \in TransactionTimes, Retry(o, at)
        PROVE  B(j)
    <3>1. PICK t \in targets[o] :
             LET jobAt == Later(jobs[t.job].updatedAt, at) IN
             /\ CanExplicitRetry(jobs[t.job], jobAt)
             /\ jobs' = [jobs EXCEPT ![t.job] = ExplicitlyRetried(jobs[t.job], jobAt)]
             /\ targets' = [targets EXCEPT ![o] = {}]
             /\ attempts' = attempts
      BY <2>7 DEF Retry
    <3>2. t.job \in Jobs /\ targets'[o] # targets[o] /\ jobs \in [Jobs -> Job] /\ now \in Nat
      BY <1>1, <3>1, SMTT(30), SMTT(20) DEF IInv, Target, Consistent, Tables
    <3> DEFINE u == ExplicitlyRetried(jobs[t.job], Later(jobs[t.job].updatedAt, at))
    <3>3. u.maximumAttempts = jobs[t.job].attemptCount + 1
      <4>1. jobs[t.job] \in Job /\ Later(jobs[t.job].updatedAt, at) \in Int
        BY <3>2, StampType
      <4>2. QED
        BY <4>1, ExplicitlyRetriedFacts
    <3>4. jobs' = [jobs EXCEPT ![t.job] = u] /\ jobs[t.job].status \in {"failed", "canceled"}
      BY <3>1 DEF CanExplicitRetry
    <3> HIDE DEF u
    <3>5. H = G
      BY <2>4, <3>1
    <3>6. CASE j # t.job
      <4>1. k = m
        BY <3>2, <3>4, <3>6
      <4> HIDE DEF k, m, G, H
      <4>2. QED
        BY <2>1, <2>2, <2>3, <2>5, <3>5, <4>1
    <3>7. CASE j = t.job
      <4>1. k = jobs[j].attemptCount + 1
        BY <3>2, <3>3, <3>4, <3>7
      <4> HIDE DEF k, m, G, H
      <4>2. Allowance(j)' <= Allowance(j) \/ Allowance(j)' = Allowance(j) + 1
        BY <2>1, <2>2, <2>3, <2>5, <3>5, <4>1
      <4>3. QED
        BY <2>1, <3>2, <3>4, <3>7, <4>2
    <3>8. QED
      BY <3>6, <3>7
  <2>8. QED
    BY <1>1, <2>6, <2>7, StepUnspent
<1>2. FailureBudget <=> [][\A j \in Jobs : Exists(j) /\ Exists(j)' => B(j)]_vars
  BY DEF FailureBudget
<1>3. IInv /\ IInv' /\ [Next]_vars => [\A j \in Jobs : Exists(j) /\ Exists(j)' => B(j)]_vars
  BY <1>1
<1>4. QED
  BY <1>2, <1>3, IInvHolds, PTL DEF Spec

-----------------------------------------------------------------------------
(* Part 4: the refinement *)

(* The statuses of a row and the states of an entry.                       *)

Statuses == JobStatuses \cup {"absent", "deleted"}

\* Each status of a row is one state of its entry.
LEMMA StatesOfRows ==
  ASSUME NEW s \in Statuses
  PROVE  /\ s = "queued" <=> StateOfRow(s) = "waiting"
         /\ s = "running" <=> StateOfRow(s) = "held"
         /\ s = "cancel_requested" <=> StateOfRow(s) = "asked"
         /\ s = "deleted" <=> StateOfRow(s) = "gone"
         /\ s \in Terminal \cup {"absent"} => StateOfRow(s) = s
         /\ s \in Terminal <=> StateOfRow(s) \in Terminal
         /\ s = "absent" <=> StateOfRow(s) = "absent"
         /\ s \in Active <=> StateOfRow(s) \in {"waiting", "held", "asked"}
  BY DEF Statuses, JobStatuses, Active, Terminal, StateOfRow

\* The entries of a well-typed table, one per Job.
LEMMA EntriesOfRows ==
  ASSUME NEW j \in Jobs
  PROVE  /\ Entries[j] = EntryOf(jobs[j])
         /\ Entries[j].state = StateOfRow(jobs[j].status)
         /\ Entries[j].runs = jobs[j].attemptCount
         /\ Entries[j].key = jobs[j].key
         /\ Entries[j].mode = jobs[j].policy
  BY DEF Entries, EntryOf

\* A row that keeps its identity and its count of attempts keeps its entry
\* but for the state.
LEMMA EntryRestated ==
  ASSUME NEW r, NEW u, SameIdentity(r, u), u.attemptCount = r.attemptCount
  PROVE  EntryOf(u) = [EntryOf(r) EXCEPT !.state = StateOfRow(u.status)]
  BY DEF EntryOf, SameIdentity

\* A transaction that rewrites one row, its identity and count kept, moves
\* one entry to the state of that row.
LEMMA OneRowMoves ==
  ASSUME jobs \in [Jobs -> Job], NEW j \in Jobs, NEW u, SameIdentity(jobs[j], u),
         u.attemptCount = jobs[j].attemptCount, jobs' = [jobs EXCEPT ![j] = u]
  PROVE  Queue!SetState(j, StateOfRow(u.status))
<1>1. EntryOf(u) = [EntryOf(jobs[j]) EXCEPT !.state = StateOfRow(u.status)]
  BY EntryRestated
<1>2. \A i \in Jobs : jobs'[i] = IF i = j THEN u ELSE jobs[i]
  OBVIOUS
<1>3. Entries' = [i \in Jobs |-> EntryOf(jobs'[i])]
  BY DEF Entries
<1>4. QED
  BY <1>1, <1>2, <1>3 DEF Queue!SetState, Entries

\* Rewriting one row without touching its status is invisible.
LEMMA SameStatusHidden ==
  ASSUME jobs \in [Jobs -> Job], NEW j \in Jobs, NEW u, SameIdentity(jobs[j], u),
         u.attemptCount = jobs[j].attemptCount, u.status = jobs[j].status,
         jobs' = [jobs EXCEPT ![j] = u]
  PROVE  Entries' = Entries
<1>1. EntryOf(u) = EntryOf(jobs[j])
  BY DEF EntryOf, SameIdentity
<1>2. \A i \in Jobs : jobs'[i] = IF i = j THEN u ELSE jobs[i]
  OBVIOUS
<1>3. QED
  BY <1>1, <1>2 DEF Entries

\* What the tables say of a row's status, for use with StatesOfRows.
LEMMA RowTypes ==
  ASSUME IInv
  PROVE  /\ jobs \in [Jobs -> Job] /\ now \in Nat /\ Tables(jobs, attempts)
         /\ \A j \in Jobs : jobs[j] \in Job /\ jobs[j].status \in Statuses
  BY DEF IInv, Consistent, Tables, Job, Statuses

\* The state of an entry tells the status of its row.
LEMMA StateOfEntry ==
  ASSUME IInv, NEW j \in Jobs
  PROVE  /\ jobs[j].status = "absent" <=> Entries[j].state = "absent"
         /\ jobs[j].status \in Terminal <=> Entries[j].state \in Terminal
         /\ jobs[j].status \in Active <=> Entries[j].state \in {"waiting", "held", "asked"}
<1> DEFINE s == jobs[j].status
<1>1. s \in Statuses
  BY RowTypes
<1>2. Entries[j].state = StateOfRow(s)
  BY EntriesOfRows
<1> HIDE DEF s
<1>3. /\ s = "absent" <=> StateOfRow(s) = "absent"
      /\ s \in Terminal <=> StateOfRow(s) \in Terminal
      /\ s \in Active <=> StateOfRow(s) \in {"waiting", "held", "asked"}
  BY <1>1, StatesOfRows
<1>4. QED
  BY <1>2, <1>3 DEF s

----------------------------------------------------------------------------
(* Each transaction is a step of the queue.                                *)

\* Enqueue by either key is an Offer: the index or the ledger excludes a
\* Job that already has the key.
LEMMA EnqueueOffers ==
  ASSUME IInv, Ledger, Enqueue PROVE Queue!Next
<1>1. PICK j \in Jobs, k \in Keys, skew \in (-ClockSkew) .. ClockSkew :
         EnqueueActive(j, k, now + skew) \/ EnqueuePermanent(j, k, now + skew)
  BY DEF Enqueue
<1>2. now + skew \in Int
  BY RowTypes, JobStoreAssumption, SMTT(30), SMTT(20)
<1>3. PICK p \in {"active", "permanent"} :
         /\ jobs[j].status = "absent"
         /\ jobs' = [jobs EXCEPT ![j] = NewJob(k, p, now + skew)]
         /\ p = "active" => ~ActiveKeyTaken(k)
         /\ p = "permanent" => occurrences[k] = None
  BY <1>1 DEF EnqueueActive, EnqueuePermanent
<1> DEFINE u == NewJob(k, p, now + skew)
<1>4. u.status = "queued" /\ u.policy = p /\ u.key = k /\ u.attemptCount = 0
  BY <1>2, NewJobFacts, SMTT(30), SMTT(20)
<1> HIDE DEF u
<1>5. Entries[j].state = "absent"
  BY <1>3, StateOfEntry
<1>6. ~Queue!Taken(k, p)
  <2> SUFFICES ASSUME NEW i \in Jobs, Entries[i].state # "absent", Entries[i].key = k,
                      Entries[i].mode = p, p = "active" => Entries[i].state \in Queue!Pending
               PROVE  FALSE
    BY DEF Queue!Taken, Queue!StateOf
  <2>1. jobs[i].key = k /\ jobs[i].policy = p
    BY EntriesOfRows
  <2>2. CASE p = "active"
    <3>1. Entries[i].state \in {"waiting", "held", "asked"}
      BY <2>2 DEF Queue!Pending, Queue!Held
    <3>2. jobs[i].status \in Active
      BY <3>1, StateOfEntry
    <3>3. QED
      BY <1>3, <2>1, <2>2, <3>2 DEF ActiveKeyTaken
  <2>3. CASE p = "permanent"
    <3>1. occurrences[k] = i
      BY <2>1, <2>3 DEF Ledger, Ledgered
    <3>2. QED
      BY <1>3, <2>3, <3>1, JobStoreAssumption DEF None
  <2>4. QED
    BY <2>2, <2>3
<1>7. Entries' = [Entries EXCEPT ![j] = [state |-> "waiting", runs |-> 0, key |-> k, mode |-> p]]
  <2>1. EntryOf(u) = [state |-> "waiting", runs |-> 0, key |-> k, mode |-> p]
    BY <1>4 DEF EntryOf, StateOfRow
  <2>2. \A i \in Jobs : jobs'[i] = IF i = j THEN u ELSE jobs[i]
    BY <1>3, RowTypes DEF u
  <2>3. QED
    BY <2>1, <2>2 DEF Entries
<1>8. Queue!Offer(j, k, p)
  BY <1>5, <1>6, <1>7 DEF Queue!Offer, Queue!StateOf
<1>9. QED
  BY <1>8 DEF Queue!Next, Queue!Modes

\* A recovered row is not claimable in the transaction that recovers it:
\* leaseExpiryBackoff is at least one.
LEMMA BackoffPositive == \A c \in Nat : LeaseExpiryBackoff(c) > 0
<1> SUFFICES ASSUME NEW c \in Nat PROVE LeaseExpiryBackoff(c) > 0
  OBVIOUS
<1> DEFINE i == Smaller(Later(c - 1, 0), 10) + 1
<1>1. i \in 1 .. 11
  BY DEF Smaller, Later
<1>2. PowerOfTwo[i] \in Nat \ {0}
  BY <1>1, SMTT(30), SMTT(20) DEF PowerOfTwo
<1> HIDE DEF i
<1>3. Lease * PowerOfTwo[i] \in Nat /\ Lease * PowerOfTwo[i] > 0
  <2>1. \A x, y \in Nat \ {0} : x * y \in Nat /\ x * y > 0
    OBVIOUS
  <2>2. QED
    BY <1>2, <2>1, JobStoreAssumption
<1>4. QED
  BY <1>3, JobStoreAssumption DEF LeaseExpiryBackoff, i, Smaller

\* The rows a recovery touches and how their entries lapse.
LEMMA RecoveryLapses ==
  ASSUME IInv, NEW at \in Int
  PROVE  LET K == RecoveredJobs(at)
             S == {j \in Jobs : \E a \in attempts : a.job = j /\ Lapsed(a, at)}
             to == [j \in S |-> StateOfRow(K[j].status)]
         IN  /\ to \in [S -> {"waiting"} \cup Queue!Ended]
             /\ \A j \in S : /\ Queue!LapseTo(j, to[j])
                             /\ EntryOf(K[j]) = [Entries[j] EXCEPT !.state = to[j]]
                             /\ K[j].availableAt > at
             /\ \A j \in Jobs \ S : K[j] = jobs[j]
             /\ K \in [Jobs -> Job]
<1> DEFINE K == RecoveredJobs(at)
           S == {j \in Jobs : \E a \in attempts : a.job = j /\ Lapsed(a, at)}
           to == [j \in S |-> StateOfRow(K[j].status)]
<1>1. /\ K \in [Jobs -> Job]
      /\ \A j \in S : jobs[j].status \in Claimed /\ K[j] = Recovered(jobs[j], at)
      /\ \A j \in Jobs \ S : K[j] = jobs[j]
  BY RowTypes, RecoveredRows
<1>2. ASSUME NEW j \in S
      PROVE  /\ SameIdentity(jobs[j], K[j]) /\ K[j].attemptCount = jobs[j].attemptCount
             /\ K[j].status \in Terminal \cup {"queued"}
             /\ jobs[j].status = "cancel_requested" => K[j].status = "canceled"
             /\ jobs[j].status = "running" => K[j].status \in {"queued", "failed"}
             /\ K[j].availableAt > at
  <2>1. jobs[j] \in Job /\ K[j] = Recovered(jobs[j], at)
    BY <1>1, RowTypes
  <2> HIDE DEF K, S, to
  <2>2. /\ SameIdentity(jobs[j], K[j]) /\ K[j].attemptCount = jobs[j].attemptCount
        /\ K[j].status \in Terminal \cup {"queued"}
        /\ jobs[j].status = "cancel_requested" => K[j].status = "canceled"
    BY <2>1, RecoveredFacts, SMTT(30), SMTT(20)
  <2>3. jobs[j].status = "running" => Recovered(jobs[j], at).status \in {"queued", "failed"}
    BY <2>1 DEF Recovered, Job
  <2>4. Recovered(jobs[j], at).availableAt = at + LeaseExpiryBackoff(jobs[j].attemptCount)
    BY <2>1 DEF Recovered, Job
  <2>5. /\ LeaseExpiryBackoff(jobs[j].attemptCount) > 0
        /\ LeaseExpiryBackoff(jobs[j].attemptCount) \in Int
    BY <2>1, BackoffPositive, BackoffType DEF Job
  <2>6. K[j].availableAt > at
    BY <2>1, <2>4, <2>5
  <2>7. QED
    BY <2>1, <2>2, <2>3, <2>6
<1> HIDE DEF K
<1>3. ASSUME NEW j \in S
      PROVE  /\ to[j] \in {"waiting"} \cup Queue!Ended
             /\ Queue!LapseTo(j, to[j])
             /\ EntryOf(K[j]) = [Entries[j] EXCEPT !.state = to[j]]
  <2>1. to[j] = StateOfRow(K[j].status) /\ jobs[j].status \in {"running", "cancel_requested"}
    BY <1>1 DEF Claimed
  <2>2. /\ K[j].status \in {"queued", "succeeded", "failed", "canceled"}
        /\ to[j] \in {"waiting", "succeeded", "failed", "canceled"}
        /\ K[j].status \in {"queued", "failed"} => to[j] \in {"waiting", "failed"}
        /\ K[j].status = "canceled" => to[j] = "canceled"
    BY <1>2, <2>1 DEF StateOfRow, Terminal
  <2>3. Entries[j].state = StateOfRow(jobs[j].status)
    BY EntriesOfRows
  <2>4. Queue!LapseTo(j, to[j])
    BY <1>2, <2>1, <2>2, <2>3 DEF Queue!LapseTo, Queue!StateOf, StateOfRow
  <2>5. EntryOf(K[j]) = [Entries[j] EXCEPT !.state = to[j]]
    BY <1>2, <2>1, EntriesOfRows, EntryRestated, SMTT(30), SMTT(20)
  <2>6. QED
    BY <2>2, <2>4, <2>5 DEF Queue!Ended
<1>4. to \in [S -> {"waiting"} \cup Queue!Ended]
  BY <1>3
<1>5. QED
  BY <1>1, <1>2, <1>3, <1>4 DEF K

\* A recovery that claims nothing is a Lapse of the lost holders.
LEMMA RecoveryIsLapse ==
  ASSUME IInv, Recovery PROVE Queue!Next
<1>1. PICK at \in TransactionTimes : RecoverOnly(at)
  BY DEF Recovery
<1> DEFINE K == RecoveredJobs(at)
           S == {j \in Jobs : \E a \in attempts : a.job = j /\ Lapsed(a, at)}
           to == [j \in S |-> StateOfRow(K[j].status)]
<1>2. at \in Int /\ jobs' = K
  BY <1>1 DEF TransactionTimes, RecoverOnly
<1>3. /\ to \in [S -> {"waiting"} \cup Queue!Ended]
      /\ \A j \in S : /\ Queue!LapseTo(j, to[j])
                      /\ EntryOf(K[j]) = [Entries[j] EXCEPT !.state = to[j]]
      /\ \A j \in Jobs \ S : K[j] = jobs[j]
  BY <1>2, RecoveryLapses
<1>4. S \in SUBSET Jobs
  OBVIOUS
<1> HIDE DEF K, S, to
<1>5. Entries' = [j \in Jobs |-> IF j \in S THEN [Entries[j] EXCEPT !.state = to[j]]
                                 ELSE Entries[j]]
  BY <1>2, <1>3 DEF Entries
<1>6. Queue!Lapsing(S, to)
  BY <1>3, <1>5 DEF Queue!Lapsing
<1>7. QED
  BY <1>3, <1>4, <1>6 DEF Queue!Next, Queue!Lapse

\* ClaimNext takes one waiting entry amid the lapses of its recovery; the
\* Job it takes was queued before, since what it recovers is not yet due.
LEMMA ClaimTakes ==
  ASSUME IInv, Claim PROVE Queue!Next
<1>1. PICK n \in Nodes, at \in TransactionTimes : ClaimNext(n, at)
  BY DEF Claim
<1> DEFINE K == RecoveredJobs(at)
           S == {j \in Jobs : \E a \in attempts : a.job = j /\ Lapsed(a, at)}
           to == [j \in S |-> StateOfRow(K[j].status)]
<1>2. PICK j \in Jobs :
         /\ Claimable(j, n, K[j], at)
         /\ jobs' = [K EXCEPT ![j] = Started(K[j], Later(K[j].updatedAt, at))]
  BY <1>1 DEF ClaimNext
<1>3. at \in Int
  BY DEF TransactionTimes
<1>4. /\ to \in [S -> {"waiting"} \cup Queue!Ended]
      /\ \A i \in S : /\ Queue!LapseTo(i, to[i])
                      /\ EntryOf(K[i]) = [Entries[i] EXCEPT !.state = to[i]]
                      /\ K[i].availableAt > at
      /\ \A i \in Jobs \ S : K[i] = jobs[i]
      /\ K \in [Jobs -> Job]
  BY <1>3, RecoveryLapses
<1>5. S \in SUBSET Jobs
  OBVIOUS
<1> HIDE DEF K, S, to
<1>6. K[j].availableAt <= at /\ K[j].status = "queued" /\ K[j] \in Job
  BY <1>2, <1>4 DEF Claimable, CanStart
<1>7. j \notin S
  <2>1. K[j].availableAt \in Int
    BY <1>6 DEF Job
  <2>2. j \in S => K[j].availableAt > at
    BY <1>4
  <2>3. QED
    BY <1>3, <1>6, <2>1, <2>2
<1>8. K[j] = jobs[j] /\ Entries[j].state = "waiting"
  BY <1>4, <1>6, <1>7, EntriesOfRows DEF StateOfRow
<1> DEFINE u == Started(K[j], Later(K[j].updatedAt, at))
<1>9. /\ SameIdentity(K[j], u) /\ u.status = "running"
      /\ u.attemptCount = K[j].attemptCount + 1
  <2>1. Later(K[j].updatedAt, at) \in Int
    BY <1>3, <1>6 DEF Later, Job
  <2>2. QED
    BY <1>6, <2>1, StartedFacts
<1>10. \A i \in Jobs : jobs'[i] = IF i = j THEN u ELSE K[i]
  BY <1>2, <1>4
<1> HIDE DEF u
<1>11. EntryOf(u) = Queue!Run(Entries[j])
  <2>1. StateOfRow("running") = "held"
    BY DEF StateOfRow
  <2>2. /\ Entries[j].runs = K[j].attemptCount /\ Entries[j].key = K[j].key
        /\ Entries[j].mode = K[j].policy
    BY <1>8, EntriesOfRows
  <2>3. QED
    BY <1>9, <2>1, <2>2 DEF EntryOf, SameIdentity, Queue!Run
<1>12. Entries' = [i \in Jobs |->
                     IF i = j THEN Queue!Run(Entries[i])
                     ELSE IF i \in S THEN [Entries[i] EXCEPT !.state = to[i]]
                     ELSE Entries[i]]
  <2>1. \A i \in Jobs : EntryOf(jobs'[i]) =
                     IF i = j THEN Queue!Run(Entries[i])
                     ELSE IF i \in S THEN [Entries[i] EXCEPT !.state = to[i]]
                     ELSE Entries[i]
    <3> SUFFICES ASSUME NEW i \in Jobs
                 PROVE  EntryOf(jobs'[i]) =
                     IF i = j THEN Queue!Run(Entries[i])
                     ELSE IF i \in S THEN [Entries[i] EXCEPT !.state = to[i]]
                     ELSE Entries[i]
      OBVIOUS
    <3>1. CASE i = j
      BY <1>10, <1>11, <3>1
    <3>2. CASE i # j /\ i \in S
      BY <1>4, <1>10, <3>2
    <3>3. CASE i # j /\ i \notin S
      BY <1>4, <1>10, <3>3, EntriesOfRows, SMTT(30), SMTT(20)
    <3>4. QED
      BY <3>1, <3>2, <3>3
  <2>2. QED
    BY <2>1 DEF Entries
<1>13. Queue!TakeLapsing(j, S, to)
  BY <1>4, <1>7, <1>8, <1>12 DEF Queue!TakeLapsing, Queue!StateOf
<1>14. QED
  BY <1>4, <1>5, <1>13 DEF Queue!Next, Queue!TakeAmidLapses

\* A completion returns or settles the entry; the other calls of a worker
\* are invisible to the queue.
LEMMA WorkerSettles ==
  ASSUME IInv, WorkerCall PROVE Queue!Next \/ Entries' = Entries
<1>1. PICK a \in attempts, at \in TransactionTimes :
         \/ Heartbeat(a, at)
         \/ Checkpoint(a, at)
         \/ ReserveWork(a, at)
         \/ \E kind \in Kinds : Complete(a, kind, at)
  BY DEF WorkerCall
<1> DEFINE j == a.job
           r == jobs[j]
           jobAt == Later(r.updatedAt, at)
<1>2. j \in Jobs /\ a.number \in Nat /\ r \in Job /\ r.status \in Statuses
  <2>1. a \in Attempt
    BY RowTypes DEF Tables
  <2>2. QED
    BY <2>1, RowTypes DEF Attempt
<1>3. jobAt \in Int
  BY <1>2, RowTypes, StampType
<1>4. CASE Heartbeat(a, at)
  BY <1>4 DEF Heartbeat, Entries
<1>5. CASE Checkpoint(a, at)
  <2>1. jobs' = [jobs EXCEPT ![j] = Progressed(r, a.number, jobAt)]
    BY <1>5 DEF Checkpoint
  <2>2. /\ SameIdentity(r, Progressed(r, a.number, jobAt))
        /\ Progressed(r, a.number, jobAt).status = r.status
        /\ Progressed(r, a.number, jobAt).attemptCount = r.attemptCount
    BY <1>2, <1>3, ProgressedFacts
  <2>3. QED
    BY <1>2, <2>1, <2>2, RowTypes, SameStatusHidden
<1>6. CASE ReserveWork(a, at)
  <2>1. jobs' = [jobs EXCEPT ![j] = Reserved(r, jobAt)]
    BY <1>6 DEF ReserveWork
  <2>2. /\ SameIdentity(r, Reserved(r, jobAt)) /\ Reserved(r, jobAt).status = r.status
        /\ Reserved(r, jobAt).attemptCount = r.attemptCount
    BY <1>2, <1>3, ReservedFacts
  <2>3. QED
    BY <1>2, <2>1, <2>2, RowTypes, SameStatusHidden
<1>7. ASSUME NEW requested \in Kinds, Complete(a, requested, at)
      PROVE  Queue!Next
  <2> DEFINE kind == EffectiveKind(r, requested)
             u == Completed(r, kind, jobAt)
  <2>1. Fenced(a, at) /\ jobs' = [jobs EXCEPT ![j] = u]
    BY <1>7 DEF Complete
  <2>2. r.status \in Claimed
    BY <1>2, <2>1, RowTypes DEF Fenced, Tables, Exclusive
  <2>3. kind \in Kinds /\ (r.status = "cancel_requested" => kind \notin {"retryable", "relinquished"})
    BY DEF EffectiveKind, Kinds
  <2>4. /\ SameIdentity(r, u) /\ u.attemptCount = r.attemptCount
        /\ u.status \in Terminal \cup {"queued"}
        /\ u.status = "queued" => kind \in {"retryable", "relinquished"}
    <3> HIDE DEF r, jobAt, kind
    <3>1. r \in Job /\ kind \in Kinds /\ jobAt \in Int
      BY <1>2, <1>3, <2>3
    <3>2. QED
      BY <3>1, CompletedFacts, SMTT(30), SMTT(20)
  <2> HIDE DEF u, kind
  <2>5. Queue!SetState(j, StateOfRow(u.status))
    BY <1>2, <2>1, <2>4, RowTypes, OneRowMoves
  <2>6. Entries[j].state = StateOfRow(r.status)
    BY <1>2, EntriesOfRows
  <2> HIDE DEF r, j
  <2>7. CASE u.status = "queued"
    <3>1. r.status = "running"
      BY <2>2, <2>3, <2>4, <2>7 DEF Claimed
    <3>2. Entries[j].state = "held" /\ StateOfRow(u.status) = "waiting"
      BY <2>6, <2>7, <3>1 DEF StateOfRow
    <3>3. Queue!Return(j)
      BY <2>5, <3>2 DEF Queue!Return, Queue!StateOf
    <3>4. QED
      BY <1>2, <3>3 DEF Queue!Next
  <2>8. CASE u.status # "queued"
    <3>1. StateOfRow(u.status) \in Queue!Ended
      BY <2>4, <2>8 DEF StateOfRow, Terminal, Queue!Ended
    <3>2. Entries[j].state \in Queue!Held
      BY <2>2, <2>6 DEF StateOfRow, Claimed, Queue!Held
    <3>3. Queue!Settle(j, StateOfRow(u.status))
      BY <2>5, <3>1, <3>2 DEF Queue!Settle, Queue!StateOf
    <3>4. QED
      BY <1>2, <3>1, <3>3 DEF Queue!Next
  <2>9. QED
    BY <2>7, <2>8
<1>8. QED
  BY <1>1, <1>4, <1>5, <1>6, <1>7

\* Job.RequestCancellation, applied to any row, is the queue's Cancel.
LEMMA CancellationCancels ==
  ASSUME IInv, NEW j \in Jobs, NEW at \in Int, CanRequestCancellation(jobs[j], at),
         jobs' = [jobs EXCEPT ![j] = CancellationRequested(jobs[j], at)]
  PROVE  Queue!Next
<1> DEFINE r == jobs[j]
           u == CancellationRequested(r, at)
<1>1. r \in Job
  BY RowTypes
<1>2. /\ SameIdentity(r, u) /\ u.attemptCount = r.attemptCount
      /\ u.status = IF r.status = "queued" THEN "canceled" ELSE "cancel_requested"
  BY <1>1, CancellationRequestedFacts
<1>3. r.status \in {"queued", "running"}
  BY DEF CanRequestCancellation
<1>4. Entries[j].state = StateOfRow(r.status)
  BY EntriesOfRows
<1> HIDE DEF u
<1>5. Queue!SetState(j, StateOfRow(u.status))
  BY <1>2, RowTypes, OneRowMoves DEF u
<1>6. Queue!Cancel(j)
  BY <1>2, <1>3, <1>4, <1>5 DEF Queue!Cancel, Queue!StateOf, StateOfRow
<1>7. QED
  BY <1>6 DEF Queue!Next

\* An operator's applied control cancels or reopens an entry; preparing one
\* is invisible.
LEMMA OperatorSteps ==
  ASSUME IInv, OperatorCall PROVE Queue!Next \/ Entries' = Entries
<1>1. PICK o \in Operators :
         \/ \E j \in Jobs, kind \in {"cancel", "retry"} : Prepare(o, j, kind)
         \/ \E at \in TransactionTimes : Cancel(o, at) \/ Retry(o, at)
  BY DEF OperatorCall
<1>2. CASE \E j \in Jobs, kind \in {"cancel", "retry"} : Prepare(o, j, kind)
  BY <1>2 DEF Prepare, Entries
<1>3. ASSUME NEW at \in TransactionTimes, Cancel(o, at)
      PROVE  Queue!Next
  <2>1. PICK t \in targets[o] :
           LET jobAt == Later(jobs[t.job].updatedAt, at)
           IN  /\ CanRequestCancellation(jobs[t.job], jobAt)
               /\ jobs' = [jobs EXCEPT ![t.job] = CancellationRequested(jobs[t.job], jobAt)]
    BY <1>3 DEF Cancel
  <2>2. t.job \in Jobs
    BY SMTT(30), SMTT(20) DEF IInv, Target
  <2>3. Later(jobs[t.job].updatedAt, at) \in Int
    BY <2>2, RowTypes, StampType
  <2>4. QED
    BY <2>1, <2>2, <2>3, CancellationCancels
<1>4. ASSUME NEW at \in TransactionTimes, Retry(o, at)
      PROVE  Queue!Next
  <2>1. PICK t \in targets[o] :
           LET jobAt == Later(jobs[t.job].updatedAt, at)
           IN  /\ CanExplicitRetry(jobs[t.job], jobAt)
               /\ jobs[t.job].policy = "active" => ~ActiveKeyTaken(jobs[t.job].key)
               /\ jobs' = [jobs EXCEPT ![t.job] = ExplicitlyRetried(jobs[t.job], jobAt)]
    BY <1>4 DEF Retry
  <2> DEFINE j == t.job
             r == jobs[j]
             u == ExplicitlyRetried(r, Later(r.updatedAt, at))
  <2>2. j \in Jobs
    BY SMTT(30), SMTT(20) DEF IInv, Target
  <2>3. r \in Job /\ Later(r.updatedAt, at) \in Int
    BY <2>2, RowTypes, StampType
  <2>4. SameIdentity(r, u) /\ u.status = "queued" /\ u.attemptCount = r.attemptCount
    BY <2>3, ExplicitlyRetriedFacts
  <2>5. jobs' = [jobs EXCEPT ![j] = u] /\ r.status \in {"failed", "canceled"}
    BY <2>1 DEF CanExplicitRetry
  <2> HIDE DEF u
  <2>6. Queue!SetState(j, "waiting")
    <3>1. Queue!SetState(j, StateOfRow(u.status))
      BY <2>2, <2>4, <2>5, RowTypes, OneRowMoves
    <3>2. StateOfRow(u.status) = "waiting"
      BY <2>4 DEF StateOfRow
    <3>3. QED
      BY <3>1, <3>2
  <2>7. Entries[j].state \in {"failed", "canceled"}
    BY <2>2, <2>5, EntriesOfRows DEF StateOfRow
  <2>8. Entries[j].mode = "active" => ~Queue!Taken(Entries[j].key, "active")
    <3> SUFFICES ASSUME Entries[j].mode = "active", NEW i \in Jobs, Entries[i].state # "absent",
                        Entries[i].key = Entries[j].key, Entries[i].mode = "active",
                        Entries[i].state \in Queue!Pending
                 PROVE  FALSE
      BY DEF Queue!Taken, Queue!StateOf
    <3>1. Entries[i].state \in {"waiting", "held", "asked"}
      BY DEF Queue!Pending, Queue!Held
    <3>2. jobs[i].status \in Active
      BY <3>1, StateOfEntry
    <3>3. jobs[i].key = r.key /\ jobs[i].policy = "active" /\ r.policy = "active"
      BY <2>2, EntriesOfRows
    <3>4. QED
      BY <2>1, <3>2, <3>3 DEF ActiveKeyTaken
  <2>9. Queue!Reopen(j)
    BY <2>6, <2>7, <2>8 DEF Queue!Reopen, Queue!StateOf
  <2>10. QED
    BY <2>2, <2>9 DEF Queue!Next
<1>5. QED
  BY <1>1, <1>2, <1>3, <1>4

\* Withdrawal cancels an entry; the history cleanup forgets ended ones.
LEMMA MaintenanceSteps ==
  ASSUME IInv, Maintenance PROVE Queue!Next
<1>1. PICK at \in TransactionTimes :
         \/ \E j \in Jobs : Withdraw(j, at)
         \/ \E page \in SUBSET Jobs : DeleteTerminalHistory(page, at)
  BY DEF Maintenance
<1>2. ASSUME NEW j \in Jobs, Withdraw(j, at)
      PROVE  Queue!Next
  <2>1. Later(jobs[j].updatedAt, at) \in Int
    BY RowTypes, StampType
  <2>2. QED
    BY <1>2, <2>1, CancellationCancels DEF Withdraw
<1>3. ASSUME NEW page \in SUBSET Jobs, DeleteTerminalHistory(page, at)
      PROVE  Queue!Next
  <2>1. /\ \A j \in page : jobs[j].status \in Terminal
        /\ \A j \in Jobs : jobs'[j] = IF j \in page THEN Deleted(jobs[j]) ELSE jobs[j]
    BY <1>3 DEF DeleteTerminalHistory, PastRetention, Terminal
  <2>2. \A j \in page : Entries[j].state \in Queue!Ended
    <3>1. \A j \in page : Entries[j].state \in Terminal
      BY <2>1, StateOfEntry
    <3>2. QED
      BY <3>1 DEF Terminal, Queue!Ended
  <2>3. \A j \in page : EntryOf(Deleted(jobs[j])) = [Entries[j] EXCEPT !.state = "gone"]
    <3> SUFFICES ASSUME NEW j \in page
                 PROVE  EntryOf(Deleted(jobs[j])) = [Entries[j] EXCEPT !.state = "gone"]
      OBVIOUS
    <3>1. /\ SameIdentity(jobs[j], Deleted(jobs[j])) /\ Deleted(jobs[j]).status = "deleted"
          /\ Deleted(jobs[j]).attemptCount = jobs[j].attemptCount
      BY RowTypes, DeletedFacts
    <3>2. StateOfRow("deleted") = "gone"
      BY DEF StateOfRow
    <3>3. QED
      BY <3>1, <3>2, EntryRestated, EntriesOfRows, SMTT(30), SMTT(20)
  <2>4. Entries' = [j \in Jobs |-> IF j \in page THEN [Entries[j] EXCEPT !.state = "gone"]
                                   ELSE Entries[j]]
    BY <2>1, <2>3 DEF Entries
  <2>5. Queue!Forget(page)
    BY <2>2, <2>4 DEF Queue!Forget, Queue!StateOf
  <2>6. QED
    BY <2>5 DEF Queue!Next
<1>4. QED
  BY <1>1, <1>2, <1>3

\* Every step of the store is a step of the queue or a stutter.
LEMMA QueueStep == ASSUME IInv, Ledger, [Next]_vars PROVE [Queue!Next]_Entries
<1>1. CASE Tick
  BY <1>1 DEF Tick, Entries
<1>2. CASE UNCHANGED vars
  BY <1>2 DEF vars, Entries
<1>3. QED
  BY <1>1, <1>2, EnqueueOffers, ClaimTakes, RecoveryIsLapse, WorkerSettles, OperatorSteps,
     MaintenanceSteps DEF Next

\* The durable Job store implements the queue its users are promised, for
\* any number of Jobs, keys, nodes and operators and any lag and skew of
\* their clocks (server/store/sqlstore/job_store.go against
\* server/app/job/doc.go).
THEOREM StoreImplementsQueue == Spec => ImplementsQueue
<1>1. Init => Queue!Init
  <2> SUFFICES ASSUME Init PROVE Queue!Init
    OBVIOUS
  <2>1. EntryOf(AbsentJob) = Queue!AbsentEntry
    BY DEF EntryOf, AbsentJob, Queue!AbsentEntry, Queue!NoKey, None, StateOfRow
  <2>2. QED
    BY <2>1 DEF Init, Queue!Init, Entries
<1>2. IInv /\ Ledger /\ [Next]_vars => [Queue!Next]_Entries
  BY QueueStep
<1>3. QED
  BY <1>1, <1>2, LedgerHolds, PTL DEF Spec, ImplementsQueue, Queue!Spec

=============================================================================
