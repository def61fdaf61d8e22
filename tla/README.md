# Proctor: TLA+ models and proofs

Proctor runs examinations: candidates work in a desktop client, a cluster of
server nodes keeps every fact in one PostgreSQL database, and background work
runs as durable Jobs. This directory models the parts of the server where a
wrong order of events would lose or double something, checks them with TLC on
small instances, and proves their safety properties with TLAPS for every
instance. All paths below are relative to `src/`.

## The system and what is modelled

| Part | Code | Modules | Run |
|---|---|---|---|
| Durable Job store | `server/store/sqlstore/job_store.go`, `server/model/job.go` | `JobStore`, `JobQueue`, `JobQueueRefinement`, `JobStoreProofs` | `job_store` |
| Exam Attempt, Participation, Connection, Suspension, Submission | `server/store/sqlstore/exam_attempt_*`, `exam_submission_*`, `server/model/exam_*` | `ExamAttempt`, `ExamAttemptProofs` | `attempt_fences`, `attempt_seals` |
| Exam Sitting lifecycle | `server/store/sqlstore/exam_sitting_*`, `server/app/jobhandler/exam_sitting_lifecycle.go` | `ExamSitting`, `ExamSittingProofs` | `sitting` |
| Sealing of a closing Sitting | `server/app/jobhandler/exam_sitting_sealing.go` | `SittingSealing`, `SittingSealingProofs` | `sealing` |
| Attempt Workspace: tree, journal, submission | `server/store/sqlstore/exam_attempt_workspace_*` | `AttemptWorkspace` | `workspace` |
| Attempt Workspace: stored contents and their purge | the same, with `server/app/jobhandler/file_purge.go` | `WorkspaceObjects`, `WorkspaceObjectsProofs` | `objects` |
| Profile pictures | `server/app/profile_picture.go`, `server/store/sqlstore/file_store.go` | `ProfilePictures` | `pictures` |
| Mail delivery | `server/app/jobhandler/mail_delivery.go`, `server/store/sqlstore/mail_*`, `server/model/mail.go` | `MailDelivery`, `MailDeliveryProofs` | `mail` |
| Rotation of sealing keys | `server/store/sqlstore/*_rekey_store.go`, `server/app/jobhandler/*_rekey.go` | `SecretRekey`, `SecretRekeyProofs` | `rekey` |
| WebSocket hub | `server/websocket` | `RealtimeHub` | `hub` |
| Serving node lease and offline commands | `server/serving_node_lease.go`, `serving_node_lease_store.go` | `ServingLease`, `ServingLeaseProofs` | `serving` |
| Cluster, cache, HTTP, accounts, authoring, ... | see `PROJECT.json`, `components` | | |

`MCx` instantiates module `x` for TLC; a `.cfg` file is named after its run.

How the parts meet. A node may serve HTTP only while its row of
`serving_node_leases` is live (`ServingLease`). Requests and WebSocket
connections of candidates reach the Attempt stores (`ExamAttempt`), their files
the workspace (`AttemptWorkspace`, whose contents are `WorkspaceObjects`), and
events come back through the hub (`RealtimeHub`). What must happen although
nobody asks (a Sitting opens and closes, its Attempts are sealed, mail goes
out, secrets are sealed again, files are purged) is enqueued as a Job in the
transaction that causes it and carried out by whichever node claims it.
`JobStore` is that machinery; `JobQueue` is what it promises, and
`JobQueueRefinement` the mapping between them. `SittingSealing` is composed with
`JobQueue` directly: its Jobs are entries of an instance of the queue. The other
handlers meet the Job store only through claim, lapse and completion of one Job,
which their modules contain. `ExamSitting` is what closes the Sitting for
`ExamAttempt`, and `SittingSealing` what seals its Attempts; the fairness that
`ExamAttempt` assumes of those two is the liveness those modules check.

All modules are written the same way. An action is one committed transaction,
because PostgreSQL makes a transaction that holds its row locks atomic to
others. What the locks do not cover is a step of its own: a transaction time
that is read before a lock is waited for, a preparation in an earlier
transaction, an object put or removed between two transactions, an answer that
arrives after the commit or never. A call that the code refuses changes nothing,
so it is no step unless the caller goes on with the refusal. A worker that lost
its Job goes on until a call of its own refuses it.

## JobStore and JobQueue

State: `jobs` (the table, one record per Job ID), `attempts` (`job_attempts`),
`occurrences` (`job_permanent_occurrences`, the permanent keys), `targets`
(per operator, the `ControlTarget` between `Prepare*` and its application) and
`now`, the database clock. A `deleted` Job is a row that the history cleanup
removed.

Every store transaction stamps rows with `CURRENT_TIMESTAMP`, which PostgreSQL
fixes at the *start* of the transaction. A transaction that waited for a lock
therefore acts at an instant behind `now`: the actions take `at` from
`TransactionTimes`, at most `Lag` behind. `ClockSkew` is how far an enqueueing
node's own clock is off. Most of the code's `latestTime(...)` and
`GREATEST(...)` exist for this, and the properties below are violated without
them.

Actions: `EnqueueActive`, `EnqueuePermanent`, `ClaimNext` (with the recovery of
lapsed leases that it begins with) and `RecoverOnly` (nothing to claim),
`Heartbeat`, `Checkpoint`, `ReserveWork`, `Complete` (five kinds),
`Prepare`/`Cancel`/`Retry` of the operator, `Withdraw` (a domain cancels its own
Job) and `DeleteTerminalHistory`. Each transition of `model.Job` is a pair
`CanX` (the refusal) and the row it returns. Workers make their calls in any
order and at any time, so every behaviour of the in-process engine is covered.

`JobQueue` is the store as its users see it: a Job waits, runs under numbered
executions, and ends; an execution that lost its Job can do nothing to it any
more; a key has one pending Job. `ImplementsQueue` is `JobQueue`'s specification
under the mapping that forgets leases, revisions, backoffs and times.

Run `job_store`: two nodes and an operator work on one Job over its whole life,
with a lag and a skew of one tick. Two nodes are enough for a superseded worker
and its successor; `MaximumAttempts = 2` for a budget that one failure and one
lapse use up; `MaxTime = 3` lets two leases run out one after the other.
`MaxRevision` bounds checkpoints and preparations only. Several Jobs and keys
are covered by the proofs.

What it shows: a Job is claimed exactly while one attempt of it runs
(`ClaimsMatchJobs`); executions never exceed the allowance although
relinquishing gives one back (`FailureBudget`); no lease is shortened or expired
early (`LeaseHonoured`); a control acts on exactly the row its operator saw
(`RevisionIdentifiesRow`); a completion inside its lease is always accepted
(`CompletionAccepted`); every step is a step of the queue (`ImplementsQueue`).

## ExamAttempt

State: one candidate's Attempt with its Participations (one per generation),
Connections, Suspensions and Submission, the candidate's `sessions`, the
`sitting` that bounds it, and two kinds of work in flight: `connecting`, a
Connect that has read its decision time and waits for the Attempt's row, and
`prepared`, the seal targets resolved in an earlier transaction. A unique index
allows a candidate one unresolved Attempt, so one Attempt is the candidate's
whole live state. Optional columns are sets with at most one element.

Actions: `IssueSession`, `RevokeSession` with the trigger `FenceAttempt`,
`LockEligibility` (Connect up to its decision time) followed by
`FirstAdmission`, `Reconnect`, `Reactivate` or `AbandonConnect`,
`CloseConnection`, `Renew`, `ExpireParticipation`, `SuspendByManager`,
`SuspendForFocusLoss`, `ReallowAttempt`, `ResolveSealTarget`/`Seal`,
`PrepareManagerEnd`/`EndByManager`, `PrepareAutomaticSeal`/
`SealForSittingClose`, and the Sitting's `Pause`, `Resume`, `Extend`,
`EarlyClose`, `EnterClosing`, `FinishSealing`.

`Granularity` is the number of database ticks in the millisecond to which a
seal time is truncated, `Skew` how far the clock of the host that revokes a
Session is off.

Runs: `attempt_fences` (two Sessions, two generations, two Connections: enough
for every pair of an old and a new one) and `attempt_seals` (the candidate, a
manager and the closing Sitting race to seal, with an end that may move; and
liveness). In `attempt_seals` one generation is enough because every generation
is sealed by the same rows, and the fences between generations are the other
run's. No run has seals and several generations together, which is out of TLC's
reach: there `RowsRevalidate` and `AutomaticTargetStable` rest on their theorems
(`EveryRowRevalidates`, `TargetStaysCurrent`). `Horizon` stops people, not the server: after it candidates and managers
are idle, which is the case that liveness has to survive. `MaxTime` of the
second run is a multiple of `Granularity`, so that the clock does not stop in
the middle of a millisecond.

What they show: an active Attempt has one active Participation and at most one
open Connection, on the newest generation, and any other Attempt has neither
(`TransportFenced`); no second live Session shares an active Attempt
(`SoleSession`); every row still passes its `Validate` when it is read back
(`RowsRevalidate`); ended rows, sequences, leases and clocks never go back
(`FencesAdvance`); there is one Submission, of the newest generation
(`OneSubmission`); the target the sealing Job prepared stays current
(`AutomaticTargetStable`); and every admitted Attempt is sealed
(`EveryAttemptSealed`).

Fairness (`FairSpec`): weak fairness of the clock, of a Connect that holds its
locks (its transaction ends), and of the server's own steps `EnterClosing`,
`PrepareAutomaticSeal`, `SealForSittingClose` and `FinishSealing`. The last four
are run by durable Jobs that are retried and re-enqueued by the recovery pass,
so one that stays possible is attempted again (`EverySittingSettles` and
`SealingFinishes` below check just that); nothing is assumed of candidates,
managers, expiry or revocation.

## ServingLease

State: `rows` (per node ID, its row of `serving_node_leases`), `writers` (the
Upserts that hold their locks, with the database time they will stamp and
whether anybody still waits for them), `fence` (an offline command holds the
exclusive lock and found no live lease), and per process `phase`, `http`,
`reply`, `provenAt` and `due`. A process is one incarnation with a lease ID of
its own; several may be configured with the same node ID (a restart, or a
mistake).

One clock stands for the database's and for each process's elapsed time, which
advance at the same rate. The passage of time is bounded by what the code
bounds: a timer fires when it is due, a call ends within `OperationLimit`,
HTTP closes within `StopTime` of the failure, and the first Upsert, for which
the code has no limit, within `StartLimit`. A transaction whose caller gave up
may commit or roll back at any later time.

Actions: `BeginUpsert`, `Commit`, `Rollback`, `BeginOffline`, `EndOffline` in
the store; `Start`, `Started`, `StartFails`, `TimerFires`, `RenewalAnswered`,
`RenewalFails`, `Serve`, `StopServing`, `Close`, `Withdraw`, `WithdrawFails`,
`Crash` for a process; `Tick`. The branch of `RenewalAnswered` for a refused
renewal is in the model because it is in the code; `NeverRefused` proves that
it is not taken.

Run `serving`: two incarnations of one node ID beside an offline command. The
constants satisfy
`validServingNodeLeaseTiming` as the shipped ones do (30, 5, 5, 1 and 5 seconds
become 8, 2, 2, 1 and 3): a failed renewal and its retry fit into a lifetime, and `MaxTime = 14` lets a lease expire and a second
incarnation take the node. Different node IDs only meet at the fence, where one
suffices; the proofs cover any number.

What it shows: whoever serves HTTP holds a live lease (`ServingProven`); an
offline command that passed its check works while nobody serves
(`OfflineAlone`); a live lease is extended or withdrawn by its own process only,
whatever abandoned calls commit later (`LiveLeaseKept`).

## ExamSitting

State: `now`; `sitting` (the rows of `exam_sittings`); `held` (per Sitting, the
manager's transaction that holds its row, with the instant it decided at);
`jobs` (the pending lifecycle Jobs by their dedupe key, with what their handler
has read); `pass` (what the daily recovery Job has listed and checkpointed);
`missed` (Sittings one of whose Jobs failed for good).

A manager's command decides while it holds the row lock and commits later
(`Decide`, `Commit`). A lifecycle Job reads the Sitting (`Resolve`), prepares
the finalize Job from what it read, and decides later, in a transaction that
locks the row: `AdvanceNothing`, `AdvanceScheduled`, `AdvanceLive`,
`AdvanceClosing`, or `AdvanceStale` when the prepared Job no longer fits.
`Schedule`, `UpdateSchedule` and `Cancel` are the other commands; `Propose`,
`ListDue`, `ReconcileNext` and `FinishPass` the recovery pass; `Trouble` a lost
worker or a failed dependency. A finalize Job stands for itself and its
continuations; what they do is `SittingSealing`.

Run `sitting`: one Sitting that may be moved between two windows, with commands
up to revision 2 and one trouble. One Sitting suffices for its own Jobs of older
schedules to meet each other; the recovery pass over several is covered by the
proofs. It shows that a Sitting that has not settled has a pending Job for its
next boundary unless one of its Jobs failed (`NextBoundaryCovered`), that no
stale Job opens or closes it at a wrong time (`BoundariesRespected`), and that
every scheduled Sitting settles (`EverySittingSettles`). Fairness: time passes
and transactions commit; some worker takes the next step of some lifecycle Job;
each day's recovery is proposed and goes on. The Job engine and the recurrence
do this on every node.

## SittingSealing

State: `entries` of `JobQueue` (the chain of sealing Jobs, each continuing the
one before), `sealed`, the `state` of the Sitting, per Job `reserved`
(`work_reserved`) and `saved` (its checkpoint: cursor and units processed), and
per worker its `run`. Every unit is reserved durably, then the Attempt is sealed,
then the cursor is checkpointed; `Check` compares the two numbers when a run
starts and burns a unit whose seal is uncertain. `Lapse` takes the Job from a
run, which goes on until its next fenced call, so two runs overlap.

Run `sealing`: five Attempts, pages of two, two units per Job, two workers and
two troubles: three Jobs at least, with a loss at any place in two of them. It
shows that the row never has more than one reserved unit beyond its checkpoint
(`ReservationAgrees`; otherwise the handler rejects the Job and sealing fails
for good), that a checkpointed cursor never passes an unsealed Attempt
(`CursorBehindSealed`), and that sealing ends (`SealingFinishes`, with weak
fairness of every run's next step and of claiming: the engine polls).

## AttemptWorkspace

State: `entries` (identity to path, kind and version), `cursor`, `journal` (of
bounded length), `outcome` (`command_outcomes`: the cursor each idempotency key
took effect at), the client's requests in flight (`sent`, `answered`, `submits`),
its `replica` of the tree, and the sealed `manifest`; `effects` and `forgotten`
are history, of the keys that took effect and of the outcomes that were deleted.
The client is external and
modelled from the protocol the server offers it: `Send`, `Answer` (first or
repeated, also after the seal), `ListPage` (pages of a manifest pinned to a
cursor), `ReadJournal`, `Restart`, `Submit`. The server's steps are `Execute`
(create, replace, move, delete, with the fences on what the client saw),
`Expire` (the daily cleanup deletes outcomes older than 24 hours, so that a later
copy of the request is new to the server) and `Seal`. A voluntary submission is fenced by the cursor the client expects
(`exam_submission_store.go`); an automatic one is not.

Identities and versions are minted from the cursor, since only their being new
matters. Access and generation fences are `ExamAttempt`'s; byte quotas are left
out. An outcome may expire at any time, at most `Expiries` times for a key.

Run `workspace`: two directories with a name inside each, two mutations of any
of the five kinds, a journal of one change and pages of one entry, so that every
read takes several steps and meets a change. It shows that the paths form a tree
(`TreeIsSound`), that a Submission holds every acknowledged mutation, and a
voluntary one exactly what the client showed (`SubmissionIsComplete`), and that
a repeated request takes effect once (`TakesEffectOnce`): any request while its
outcome is kept, and a replacement or a deletion also afterwards, because its
version, identity or cursor is in no later tree. A creation or a move has no such
fence: TLC finds either taking effect again once its outcome was deleted, if the
path is free again or the entry is back, and the property allows it just that.

## WorkspaceObjects

State: `row` (`exam_attempt_workspace_objects`, with the time left of its stage,
safety window or claim), `stored` (what object storage has), `entry` (the object
each file points at), `sealed` and `manifest`, `command` and `outcome` of the
idempotent mutations, `request` (per object, the upload that mints it), `reader`
(a request that has looked a file up and not opened it yet) and `cleaner` (per
claim token, an execution of the purge). `NoObject` in a slot means that the
file is absent or still the Starter's copy; a move does not touch objects.

An upload goes through `Reserve`, `Write`, `Ready`, `Apply` and `Mark`, and may be
lost anywhere (`Lose`). A purge execution goes through `Claim`, `Remove`,
`Complete` or `Release`; `Fail` and `Crash` cut it short, and `Overrun` lets it
outlive its claims (counted as a fault: the Job's timeout of one minute is below
the claim lease of five). A token is used once. The order in which claims pick
objects is left open. Retention's retirement of manifests and the purge phase of
Starter workspaces are not modelled.

Run `objects`: two objects, one file, two keys, two tokens. `Request` exceeds
`Stage + Window` so that an upload outlives its reservation and the window after
it; `Reading` equals `Window` (in the code a response ends long before the 24
hours of `AttemptWorkspaceReclaimSafetyWindow`). It shows that what a file or the
Submission refers to is stored (`ReferencedIsStored`), that a reader finds what
it looked up (`ReadFindsContent`), and that an execution which lost its claim
changes no row of the one that took it over (`ClaimIsExclusive`).

## ProfilePictures

State: `user` (custom and default entry), `entries`, `revisions` (with their
upload lease, which lives and dies with the revision), `holds`, `content`
(rendition by rendition), per upload its request, per purger its cursor, page and
claim. An upload's identity names its revision and, where it makes one, its
entry; the rows of `file_renditions` are written all or none. Uploads and default
generations go through `UploadBegin`, `UploadCheck` (uploads only), `UploadStage`,
`WriteRendition`, `UploadPublish` or `UploadDiscard`; the purge through `PurgeList`, `PurgeClaim`,
`PurgeRemove`, `PurgeComplete` and `PurgeEnd`. Two purges overlap because the
daily Job and a continuation have different keys. Holds are placed by SQL only;
`RenewUploadLease` has no caller and is left out.

Run `pictures`: two uploads, one rendition, two purgers with pages of one, one
fault. It shows that a shown picture is whole (`ShownIsWhole`), that a hold keeps
published content (`HeldIsKept`), and that abandoned uploads are purged again and
again whatever failed before (`PendingSettles`). `Request < Lease + Grace` is
assumed: the server's read timeout ends a request long before the 24 hours of
grace. Fairness: requests end or the clock runs, and some purge execution goes
on.

## MailDelivery

State: the `delivery` row, the `job` row it names, per node the handler's locals
`run`, per send what the transport `told`, where the clocks stand around the
`deadline`, what the relevance fence of `StartDelivery` reads, whether each node
sends at all, and the operator's retries. The handler is `Read`, `ReadAgain`,
`StartDelivery`, `Send`, `CompleteDelivery` and `Finish`; any store call may fail
with or without having committed; `Recover` takes a lapsed Job while its handler
goes on. `CancelDelivery` and `RetryDelivery` are the operator's,
`SuppressExpired` and `SuppressOutstanding` the sweeps.

Run `mail`: two nodes, two attempts, one operator retry. It shows that Accepted
means the latest counted send was accepted (`AcceptedIsLatest`), that Job and
delivery agree (`JobAnswersDelivery`), and that every delivery settles
(`DeliverySettles`). Fairness: handlers return, some engine claims and recovers,
the daily cleanup runs and the deadline passes.

## SecretRekey

The program has key rotation twice, for mail payloads and for MFA secrets; one
module has both, and the constant `Mail` says which. State: `sealed` (the key of
each row), `refs` (`mail_payload_keys.active_references`), the `fence` (required
primary and its Job), `jobs`, per node its configured `primary`, an open
insertion `write`, and the handler's `run`. A transaction that locks the fence is
two steps. `StartRekey` moves the fence; the handler is `Begin`, `ListTargets`,
`CheckFence`, `Replace`, `Checkpoint`, `Prove`, `Finish`; `Restart` gives a node
another primary. Deletion of old Jobs is not modelled.

Run `rekey`: the mail variant, two nodes, keys and rows, pages of one, one
rotation and one restart. It shows that a rekey that succeeded left no row under
another key (`ProofStands`, which for mail speaks of the first rotation only, see
"Where code and documents disagree"), that the counts are exact (`ReferencesExact`), and
that a rekey ends (`RekeyEnds`; handlers go on, leases lapse, some node claims).
The MFA variant is covered by the proofs.

## RealtimeHub

State: the `hub`, the runtimes `rt` in the order they were accepted, the shard's
`conns` and retained `replay` states, the runtime whose `unregister` holds the
shard lock (`locked`), per publisher what `publishWire` has still to do, the
`client`, whether the User is `allowed` the topics, and the `closer` of
`closeMatching`. Publications and closes select connections under the lock and
act on them afterwards, so they interleave with a connection that stops, leaves
its replay state and is resumed. Time is left out: replay state may expire at any
moment.

Run `hub`: one event with a topic, one publisher, a client that connects twice,
queues of two and one, one invalidation, one shutdown. It shows that a connection
closed for cause is never resumable (`ClosedNotResumable`), that an invalidation
ends every subscription of a connection opened afresh
(`InvalidationEndsSubscriptions`), and that a shutdown drains (`HubDrains`, with
fairness of every goroutine that can go on; `Abort` is not fair, so the budget
is not what ends it).

`CHECK_DEADLOCK FALSE` is set in all runs: clocks, retries and identities are
bounded, and a system whose Jobs are all settled, whose Attempt is sealed or
whose processes are closed may stop.

## What is proved

The proof modules extend the modules that TLC checks, so the theorems are about
the same definitions; they hold for all constants that satisfy the named
`ASSUME` of the module. Each follows the same plan: an inductive invariant, one
step per action that preserves it, and the property as its consequence or, for
an action property, as a consequence of the invariant and one step. The
invariants were checked with TLC before they were proved.

**`JobStoreProofs`**, in four parts. *Tables.* None of the table properties is
inductive alone: that a completion finds one running attempt needs the
numbering, the numbering needs the claims to match, and the budget needs both.
`IInv` says that the tables are consistent (`Tables(jobs, attempts)`): typed
rows, attempts numbered `1 .. attemptCount`, a claimed status exactly with one
running attempt, which is the latest, budgets, exclusions, and leases of length
`Lease` from the last heartbeat. Lemmas say what each row transition returns and
what replacing one row does to `Tables`; every transaction is such a
replacement. From it: `TypeCorrect`, `ClaimsMatch`, `Numbering` (the UNIQUE
constraint is never met), `NeverStranded` (no path leaves a Job queued that
nobody may start), `Excludes` (a node never claims again what it relinquished),
`NeverRefused`. *Rows over time.* `Ledger` adds that active keys are unique, the
ledger names the Job of every permanent key and a prepared target is not ahead
of its row; from it `ControlsSeeTheirRow`, `KeysDeduplicate`,
`HolderCheckpoints` (only the holder replaces a checkpoint), `Settled` (a
settled Job stays settled) and `LeasesHonoured`. *Budget.* `BudgetKept`: the
attempts' numbers are a bijection with `1 .. attemptCount`, which gives their
cardinality; only a relinquishment adds a slot, and a given-back attempt with
it; only `Retry` raises the allowance, by one. *Refinement.*
`StoreImplementsQueue`: the initial tables are an empty queue, and every
transaction is a step of `JobQueue` or a stutter, for any number of Jobs, nodes,
keys and operators. It needs `BackoffCap >= 1`, so that a Job recovered by a
claim is not claimed again in the same transaction.

**`ExamAttemptProofs`**. `IInv` joins the row types, `Generations` (the rows of a
generation agree with its place in the sequence), `Admission` (the waiting
Connect and its Session), `Preparations` (the seal targets), `Suspended`,
`Clocks`, `RowsRevalidate` and `OneSubmission`. It is needed because no operation
looks at everything it relies on: the code takes the last Connection row for the
current one, which is right because the newest Connection belongs to the newest
generation; a Connect decides before it waits, which is right because its
Session stays live and no Connect waits once the Sitting closes; a Suspension's
end is compared with its start, which is right because an active one started at
the Attempt's `updatedAt`. From it: `TransportIsFenced`, `SessionIsSole`,
`EveryRowRevalidates`, `SubmittedOnce`, `TargetStaysCurrent` and the action
property `FencesOnlyAdvance`.

**`ExamSittingProofs`**. `IInv` is the types, `start <= end`, what a manager's
transaction may hold (`Holding`), what a Job's handler knows (`Run`) and the
cover of the next boundary (`Cover`). A Job that covers a boundary is due no
earlier than it, and a Job that runs was due when it was claimed; so a Job that
ends without effect was never the last one. From it: `BoundariesCovered` and
`BoundariesKept`.

**`SittingSealingProofs`**. `IInv` is the types, that two runs never have the
same claim token (`Tokens`), the two properties, and that what each run
believes agrees with the tables (`Agrees`). A Job's row changes only under the
run that owns it; a run that lost its Job keeps a true page and cursor because
what is sealed stays sealed. From it: `ReservationsAgree`, `CursorsBehindSealed`
and `NeverRejected` (no run ever reaches the handler's rejection).

**`WorkspaceObjectsProofs`**. `IInv` is the shape of the rows, that a request on
its way has a key (`Keyed`), that files and manifest point at current rows
(`EntriesCurrent`, `ManifestCurrent`) and no two files at one (`EntriesApart`),
that content in use or ready for it is stored (`ContentStored`), that what an
execution may still remove has left the staged and current states for good
(`ClaimsBehind`), and that a request that has not reserved has no row
(`Unreserved`). From it: `ContentInUseIsStored`,
with no assumption on how long a request takes, and `ClaimsAreExclusive`.
`ReadersFindContent` assumes `Reading <= Window` and needs a second invariant:
a retired object waits the whole window before it may be claimed, so while a
reader still has time its object is current or waits at least as long, and no
execution has it in hand (`LeftDue`, `ReaderServed`).

**`MailDeliveryProofs`**. Every send is numbered by the start that counted it, so
at most one run can still report on it, and rows of equal revision are equal.
`IInv` is the types, `AcceptedIsLatest`, what each run knows of the row it read
(`Knows`), that none is about to repeat a send that was accepted (`Overtakes`),
that no two carry the same send (`Clash`) and how Job and delivery go together (`Story`). From it:
`AcceptedForLatest`, `OneStory` and `SettledIsFinal` (a settled delivery is never
written again).

**`SecretRekeyProofs`**. `ReferencesAreExact` holds for both variants: each
insertion, deletion and replacement moves one row from one key to another and
counts exactly that, because a replacement compares the row's key with the one
it listed; the invariant `RefInv` says that the pages hold well-formed claims and
that a handler has one left where it uses one. For the MFA variant (`~Mail`),
`RekeyInv` adds what handlers and open insertions read of the fence, and gives
`MFAProofStands` and `MFANonPrimaryShrinks`. For the mail variant `ProofStands`
has no theorem: of several rotations it would not hold (below), and it is stated
for the first only.

**`ServingLeaseProofs`**. The theorems assume `Timely`:
`RetryInterval + StopTime < StopMargin` and
`StartLimit + RenewalInterval + StopTime < Lifetime`. The first is true of the
shipped constants when closing HTTP takes less than 4 seconds; the second says
that the first Upsert answers in time, which the code does not enforce. The
invariant ties the two sides that never see each other: while a process is
within its time (`Proven`), the only row of its node is its own and expires no
earlier than `provenAt + Lifetime` (`Held`), and no other process has an Upsert
in flight there; an answer `ok` not yet read means the row already covers the
new call (`Answer`); an Upsert in flight, abandoned or not, would not shorten a
live row (`WriterOK`); the fence excludes both (`FenceOK`). `Timing` is the
arithmetic of timers. From it follow `ServesProven`, `OfflineWorksAlone`,
`NeverRefused` and `KeepsLiveLeases`.

## What is only model-checked

* Liveness, which under fairness is beyond the prover: `EveryAttemptSealed`,
  `EverySittingSettles`, `SealingFinishes`, `HubDrains`, `DeliverySettles`,
  `RekeyEnds`, `PendingSettles`.
* `ProofStands` of the mail variant, for the first rotation. It reads a sum over the
  keys, whose value for every set of keys would need induction over the set.
* The safety properties of `AttemptWorkspace` (trees over paths of any depth
  need induction over sequences), `ProfilePictures` and `RealtimeHub`.

## Where code and documents disagree

Met while modelling; the models follow the code.

* The first lease of a Participation is cut to the scheduled end, but
  `exam_attempt_participations_time_check`
  (`server/migrations/postgres/000001_baseline.up.sql:1891`) demands exactly 20
  seconds of a new row: in the last 20 seconds nobody can be admitted or return
  after a re-allow, while `references/examinations.md:271` calls the scheduled
  end the sole delivery deadline.
* `ReallowAttempt` leaves the Attempt `ready`; its comment
  (`exam_attempt_reallow_store.go:33`) says `active`.
* A deadline Job whose prepared finalize Job became stale fails for good
  (`exam_sitting_lifecycle_store.go:429`: the conflict's cause is an invalid
  input), where the store's test calls it retryable. The Sitting waits for the
  daily pass; `NextBoundaryCovered` exempts it through `missed`.
* For a Closing Sitting whose finalize Job is pending, `AdvanceDue` ends in a
  conflict (`exam_sitting_lifecycle_store.go:374`) instead of leaving the
  Sitting unchanged as its comment says (`AdvanceClosing`, `Blocked`).
* A claimed revision of an abandoned upload is listed again as an archived one
  (`file_store.go:315`); its renditions are then forgotten without being removed
  from storage.
* An event published between two sockets of a resumed connection is neither
  queued nor announced as lost (`hub.go:418`), and an invalidation carried out
  between them does not reach the retained subscriptions (`hub.go:421`);
  `InvalidationEndsSubscriptions` exempts resumed connections for this.
* A delivery whose last worker is lost during its last send stays Sending until
  the sweep after its deadline (`model/mail.go:453`), where the mail reference
  says it stays retryable or fails as uncertain.
* `AcquireSendPermit` (`mail_maintenance_store.go:69`) may set the bucket's clock
  back, so contending nodes exceed the documented rate.
* The mail replacement reads the fence without locking it
  (`mail_rekey_store.go:269`), so a handler that passed the check and then lost
  its lease may replace a row after a later rotation has succeeded, if that
  rotation brought back the key the handler had listed. The mail reference
  (`.agents/skills/transactional-mail/references/mail.md:341`) says of the Job
  "Its Job identity fences stale work if a later rotation starts". TLC finds the
  sequence when `Mail => fence.job = 1` is taken out of `ProofStands` and
  `MaxJobs` is 2; with that condition, `ProofStands` holds for `MaxJobs = 2` and
  one row. The MFA store locks the fence.
* Serving is told to stop up to one retry interval later than the comment in
  `maintain` says (`serving_node_lease.go:161`); the lease is still live.
* `Start` accepts a first Upsert that took longer than the lease lives
  (`serving_node_lease.go:86`). With a `StartLimit` above `Lifetime` in
  `Serving.cfg`, TLC finds HTTP serving on an expired lease until the first
  timer.

## Not modelled, and why

`PROJECT.json` lists every component with its reason. In short: HTTP parsing,
configuration, logging, identity protocols, cryptography, the web client and
packaging have no protocol state a model checker could explore; single-row
administrative updates under an optimistic revision have no interleaving worth a
module; cluster messages and caches are hints that nothing modelled here depends
on. Within the modelled parts these are left out: contents (answers, files,
payloads), read-only queries, audit records and mail that a transaction writes
beside the rows modelled here, and deadlocks between transactions, which
PostgreSQL resolves by aborting one of them (an abort is no step).
