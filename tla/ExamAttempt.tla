---------------------------- MODULE ExamAttempt ----------------------------
(***************************************************************************)
(* One candidate's Exam Attempt and everything that fences it: the tables  *)
(* exam_attempts, exam_attempt_participations, exam_attempt_connections,   *)
(* exam_attempt_suspensions and exam_submissions, as the stores of         *)
(* server/store/sqlstore and the lifecycles of server/model change them,   *)
(* together with the candidate's Sessions and the Sitting that bounds the  *)
(* Attempt.  A unique index allows a candidate one unresolved Attempt, so  *)
(* one Attempt is the whole of the candidate's live state.                 *)
(*                                                                         *)
(* An action is one committed transaction, except Connect: it reads its    *)
(* decision time after locking the Sitting and the Session and BEFORE it   *)
(* waits for the Attempt, so it is two steps, and what does not need its   *)
(* locks may commit in between.  A refused call changes nothing.           *)
(***************************************************************************)
EXTENDS Integers, Sequences, FiniteSets, FiniteSetsExt

CONSTANTS
    Sessions,        \* Desktop Sessions the candidate may open
    InitialLease,    \* AttemptParticipationInitialLease
    Granularity,     \* database ticks in the millisecond a seal time keeps
    Skew,            \* how far an application clock is off the database's
    Ends,            \* the scheduled ends of the Sitting, first to last
    SealKinds,       \* who seals: the candidate, a manager, the sitting
    MaxTime,         \* bound: the clock stops here
    Horizon,         \* bound: candidate and manager are idle from here on
    MaxGenerations,  \* bound: Participations of the Attempt
    MaxConnections,  \* bound: Connections of the Attempt
    MaxSequence      \* bound: renewal sequence

ASSUME ExamAttemptAssumption ==
    /\ InitialLease \in Nat \ {0} /\ Granularity \in Nat \ {0}
    /\ Skew \in Nat /\ MaxTime \in Nat /\ Horizon \in 0 .. MaxTime
    /\ SealKinds \subseteq {"candidate", "manager", "sitting"}
    /\ Ends \subseteq Nat \ {0} /\ Ends # {} /\ IsFiniteSet(Ends)

VARIABLES
    now,             \* the database clock
    sitting,         \* state and scheduled end of the Sitting
    sessions,        \* per Session: unissued, live or revoked
    connecting,      \* the Connect waiting for the Attempt's row, if any
    attempt,         \* the row of exam_attempts
    participations,  \* Participations, by generation
    connections,     \* Connections, oldest first
    suspensions,     \* Suspensions, oldest first
    submissions,     \* the sealed Submission, if any
    prepared         \* per kind of seal: the target and time prepared for it

tables == <<attempt, participations, connections, suspensions, submissions>>
vars == <<now, sitting, sessions, connecting, prepared, tables>>

----------------------------------------------------------------------------
(* Rows *)

Unresolved == {"ready", "active", "suspended"}

NewParticipation(s, at, lease) ==
    [session |-> s, state |-> "active", sequence |-> 0, startedAt |-> at,
     updatedAt |-> at, lease |-> lease, endedAt |-> {}, reason |-> "none"]

NewConnection(g, s, at) ==
    [generation |-> g, session |-> s, state |-> "open", openedAt |-> at,
     closedAt |-> {}, reason |-> "none"]

\* boundedParticipationLease
BoundedLease(at) == Min({at + InitialLease, sitting.end})

\* CHECK exam_attempt_participations_time_check on an inserted row.
InsertableParticipation(p) ==
    p.lease > p.startedAt /\ p.lease = p.startedAt + InitialLease

\* AttemptParticipation.End and its Validate
EndParticipation(p, why, at) ==
    [p EXCEPT !.state = "ended", !.reason = why, !.endedAt = {at},
              !.updatedAt = at]

\* AttemptConnection.Close
Close(c, why, at) ==
    [c EXCEPT !.state = "closed", !.reason = why, !.closedAt = {at}]

Latest == Len(participations)

ActiveGenerations ==
    {g \in DOMAIN participations : participations[g].state = "active"}

OpenConnections ==
    {c \in DOMAIN connections : connections[c].state = "open"}

\* The newest Connection of the newest generation.  Connects are serialised
\* by the admission lock, so opened_at follows the order of insertion.
LatestConnection ==
    Max({c \in DOMAIN connections : connections[c].generation = Latest})

\* Mutated form: the transport is left open.
CloseOpenNone(why, at) ==
    connections

CloseOpen(why, at) ==
    [c \in DOMAIN connections |->
        IF c \in OpenConnections THEN Close(connections[c], why, at)
                                 ELSE connections[c]]

\* TimeFromMillis(MillisFromTime(t))
Truncated(t) == t - (t % Granularity)

\* The store's time checks on the Sitting: now < ScheduledEndAt.
BeforeEnd == now < sitting.end
Live == sitting.state \in {"open", "paused"}

\* No Connect holds the Sitting, the admission lock or the Session lock.
Unlocked == connecting = {}

\* Bound: people act before the horizon, the server goes on after it.
Active == now < Horizon

----------------------------------------------------------------------------
(* Sessions *)

\* Mutated form: a sign-in does not look at the Attempt.
IssueSessionAnytime(s) ==
    /\ Active /\ Unlocked
    /\ sessions[s] = "unissued"
    /\ sessions' = [sessions EXCEPT ![s] = "live"]
    /\ UNCHANGED <<now, sitting, connecting, prepared, tables>>

\* A new Session is refused while the candidate's Attempt is active.
IssueSession(s) ==
    /\ Active /\ Unlocked
    /\ sessions[s] = "unissued"
    /\ attempt.state # "active"
    /\ sessions' = [sessions EXCEPT ![s] = "live"]
    /\ UNCHANGED <<now, sitting, connecting, prepared, tables>>

\* The trigger fence_active_attempt_on_session_revocation, for revoked_at = at.
FenceAttempt(g, at) ==
    LET p == participations[g]
        fence == Max({at, p.startedAt, attempt.updatedAt})
    IN  /\ connections' =
            [c \in DOMAIN connections |->
                IF c \in OpenConnections /\ connections[c].generation = g
                THEN Close(connections[c], "policy_suspended",
                           Max({fence, connections[c].openedAt}))
                ELSE connections[c]]
        /\ participations' =
            [participations EXCEPT ![g] =
                [EndParticipation(p, "policy_suspended", fence)
                    EXCEPT !.updatedAt = Max({fence, p.updatedAt})]]
        /\ attempt' = [attempt EXCEPT !.state = "suspended",
                                      !.updatedAt = fence, !.revision = @ + 1]
        /\ suspensions' = Append(suspensions,
            [generation |-> g, revision |-> attempt.revision + 1,
             state |-> "active", startedAt |-> fence, endedAt |-> {}])
        /\ UNCHANGED submissions

\* Logout, expiry enforcement or an administrator revokes a Session.  The
\* instant comes from the caller, so it may be off by the clock skew.
RevokeSession(s, at) ==
    /\ Unlocked /\ at <= Horizon
    /\ sessions[s] = "live"
    /\ sessions' = [sessions EXCEPT ![s] = "revoked"]
    /\ LET fenced == {g \in ActiveGenerations :
                        participations[g].session = s /\ attempt.state = "active"}
       IN  IF fenced = {} THEN UNCHANGED tables
           ELSE \E g \in fenced : FenceAttempt(g, at)
    /\ UNCHANGED <<now, sitting, connecting, prepared>>

\* revokeOtherInteractiveSessionsForAttempt, after an admission
RevokeOthers(s) ==
    [t \in Sessions |-> IF t # s /\ sessions[t] = "live" THEN "revoked"
                                                         ELSE sessions[t]]

----------------------------------------------------------------------------
(* Connect *)

\* lockExamAttemptEligibility: the locks, the checks on Sitting and Session,
\* and the decision time.
LockEligibility(s) ==
    /\ Active /\ Unlocked
    /\ sitting.state = "open"
    /\ sessions[s] = "live"
    /\ BeforeEnd
    /\ connecting' = {[session |-> s, at |-> now]}
    /\ UNCHANGED <<now, sitting, sessions, prepared, tables>>

\* The transaction rolls back: a later check refuses it, or the node dies.
AbandonConnect ==
    /\ ~Unlocked
    /\ connecting' = {}
    /\ UNCHANGED <<now, sitting, sessions, prepared, tables>>

FirstAdmission ==
    \E k \in connecting :
        LET p == NewParticipation(k.session, k.at, BoundedLease(k.at))
        IN  /\ attempt.state = "none"
            /\ InsertableParticipation(p)
            /\ attempt' = [state |-> "active", revision |-> 1,
                           createdAt |-> k.at, updatedAt |-> k.at,
                           submittedAt |-> {}]
            /\ participations' = <<p>>
            /\ connections' = <<NewConnection(1, k.session, k.at)>>
            /\ sessions' = RevokeOthers(k.session)
            /\ connecting' = {}
            /\ UNCHANGED <<now, sitting, suspensions, submissions, prepared>>

\* reconnect of an active Attempt: the open Connection is reused, or a new
\* one is opened on the same generation.
Reconnect ==
    \E k \in connecting, g \in ActiveGenerations :
        /\ attempt.state = "active"
        /\ participations[g].session = k.session
        /\ k.at < participations[g].lease
        /\ \A c \in OpenConnections :
            connections[c].generation = g /\ connections[c].session = k.session
        /\ IF OpenConnections # {} THEN UNCHANGED connections
           ELSE /\ Len(connections) < MaxConnections
                /\ connections' =
                    Append(connections, NewConnection(g, k.session, k.at))
        /\ connecting' = {}
        /\ UNCHANGED <<now, sitting, sessions, prepared, attempt,
                       participations, suspensions, submissions>>

\* Mutated form: activation is stamped with its decision time.
ReactivateAtDecision ==
    \E k \in connecting :
        LET g == Latest + 1
            p == NewParticipation(k.session, k.at, BoundedLease(k.at))
        IN  /\ attempt.state = "ready"
            /\ ActiveGenerations = {} /\ OpenConnections = {}
            /\ g <= MaxGenerations /\ Len(connections) < MaxConnections
            /\ InsertableParticipation(p)
            /\ participations' = Append(participations, p)
            /\ connections' =
                Append(connections, NewConnection(g, k.session, k.at))
            /\ attempt' = [attempt EXCEPT
                    !.state = "active", !.revision = @ + 1,
                    !.updatedAt = k.at]
            /\ sessions' = RevokeOthers(k.session)
            /\ connecting' = {}
            /\ UNCHANGED <<now, sitting, suspensions, submissions, prepared>>

\* startNextAttemptParticipation, openReconnectConnection and
\* activateReadyExamAttempt: a re-allowed Attempt starts its next generation.
Reactivate ==
    \E k \in connecting :
        LET g == Latest + 1
            p == NewParticipation(k.session, k.at, BoundedLease(k.at))
        IN  /\ attempt.state = "ready"
            /\ ActiveGenerations = {} /\ OpenConnections = {}
            /\ g <= MaxGenerations /\ Len(connections) < MaxConnections
            /\ InsertableParticipation(p)
            /\ participations' = Append(participations, p)
            /\ connections' =
                Append(connections, NewConnection(g, k.session, k.at))
            /\ attempt' = [attempt EXCEPT
                    !.state = "active", !.revision = @ + 1,
                    !.updatedAt = Max({@, k.at})]
            /\ sessions' = RevokeOthers(k.session)
            /\ connecting' = {}
            /\ UNCHANGED <<now, sitting, suspensions, submissions, prepared>>

\* CloseConnection: the transport is gone; the Participation stays.
CloseConnection(c) ==
    /\ Active
    /\ connections[c].state = "open" /\ connections[c].openedAt <= now
    /\ connections' =
        [connections EXCEPT ![c] = Close(@, "transport_closed", now)]
    /\ UNCHANGED <<now, sitting, sessions, connecting, prepared, attempt,
                   participations, suspensions, submissions>>

----------------------------------------------------------------------------
(* Renewal, expiry, suspension and re-allow *)

\* RenewParticipation by Connection c with sequence n.  It locks the Session
\* row that a Connect of the same Session shares.
Renew(c, n) ==
    LET g == connections[c].generation
        p == participations[g]
    IN  /\ Active
        /\ \A k \in connecting : k.session # p.session
        /\ sessions[p.session] = "live"
        /\ p.state = "active" /\ attempt.state = "active"
        /\ connections[c].state = "open"
        /\ Live /\ BeforeEnd /\ now < p.lease
        /\ n > p.sequence /\ p.updatedAt <= now
        /\ participations' = [participations EXCEPT ![g] =
                [@ EXCEPT !.sequence = n, !.updatedAt = now,
                          !.lease = BoundedLease(now)]]
        /\ UNCHANGED <<now, sitting, sessions, connecting, prepared, attempt,
                       connections, suspensions, submissions>>

\* What expiry, a kick and a Focus Loss suspension write.
Suspend(g, why) ==
    /\ attempt' = [attempt EXCEPT !.state = "suspended", !.updatedAt = now,
                                  !.revision = @ + 1]
    /\ participations' =
        [participations EXCEPT ![g] = EndParticipation(@, why, now)]
    /\ connections' = CloseOpen(why, now)
    /\ suspensions' = Append(suspensions,
        [generation |-> g, revision |-> attempt.revision + 1,
         state |-> "active", startedAt |-> now, endedAt |-> {}])
    /\ UNCHANGED <<now, sitting, sessions, connecting, prepared, submissions>>

\* ExpireParticipation of a listed generation; there is no check on the
\* Sitting.
ExpireParticipation(g) ==
    /\ participations[g].state = "active" /\ now >= participations[g].lease
    /\ attempt.state = "active"
    /\ Suspend(g, "lease_expired")

\* SuspendByManager, the kick.
SuspendByManager(g) ==
    /\ Active /\ Live /\ BeforeEnd
    /\ attempt.state = "active" /\ participations[g].state = "active"
    /\ now < participations[g].lease
    /\ now >= attempt.updatedAt /\ now >= participations[g].updatedAt
    /\ Suspend(g, "kicked")

\* recordFocusLoss when the policy's threshold is reached, by Connection c.
SuspendForFocusLoss(c) ==
    LET g == connections[c].generation
    IN  /\ Active /\ Live /\ BeforeEnd
        /\ connections[c].state = "open"
        /\ sessions[connections[c].session] = "live"
        /\ attempt.state = "active" /\ participations[g].state = "active"
        /\ now < participations[g].lease
        /\ Suspend(g, "policy_suspended")

\* Mutated form: a Suspension may end before it started.
ReallowAttemptEarly(n) ==
    /\ Active /\ sitting.state \notin {"closing", "closed"}
    /\ attempt.state = "suspended"
    /\ suspensions[n].state = "active"
    /\ suspensions' = [suspensions EXCEPT ![n] =
            [@ EXCEPT !.state = "closed", !.endedAt = {now}]]
    /\ attempt' = [attempt EXCEPT !.state = "ready", !.updatedAt = now,
                                  !.revision = @ + 1]
    /\ UNCHANGED <<now, sitting, sessions, connecting, prepared,
                   participations, connections, submissions>>

\* ReallowAttempt closes Suspension n.
ReallowAttempt(n) ==
    /\ Active /\ sitting.state \notin {"closing", "closed"}
    /\ attempt.state = "suspended"
    /\ suspensions[n].state = "active" /\ suspensions[n].startedAt <= now
    /\ suspensions' = [suspensions EXCEPT ![n] =
            [@ EXCEPT !.state = "closed", !.endedAt = {now}]]
    /\ attempt' = [attempt EXCEPT !.state = "ready", !.updatedAt = now,
                                  !.revision = @ + 1]
    /\ UNCHANGED <<now, sitting, sessions, connecting, prepared,
                   participations, connections, submissions>>

----------------------------------------------------------------------------
(* Sealing.  Each kind reads its target and seal time in one transaction   *)
(* and seals in a later one.                                               *)

Target(at) == [generation |-> Latest, connection |-> LatestConnection,
               revision |-> attempt.revision, at |-> at]

Prepared(kind) == IF kind \in SealKinds THEN prepared[kind] ELSE {}

Prepare(kind, target) ==
    /\ kind \in SealKinds
    /\ prepared' = [prepared EXCEPT ![kind] = {target}]
    /\ UNCHANGED <<now, sitting, sessions, connecting, tables>>

\* verifyExamSubmissionCandidateAccess and verifyActiveExamSubmissionSealAccess
MaySubmit(c) ==
    LET p == participations[connections[c].generation]
    IN  /\ sessions[p.session] = "live"
        /\ connections[c].state = "open"
        /\ p.state = "active" /\ now < p.lease
        /\ sitting.state = "open" /\ BeforeEnd
        /\ attempt.state = "active"

\* ResolveSealTarget: the candidate asks to submit over Connection c.
ResolveSealTarget(c) ==
    /\ Active /\ Unlocked
    /\ MaySubmit(c)
    /\ Prepare("candidate",
               [Target(Truncated(now)) EXCEPT
                    !.generation = connections[c].generation,
                    !.connection = c])

\* Mutated form: submitted_at is the time of the commit.
SealAttemptNow(t, kind, why, updated) ==
    /\ attempt' = [attempt EXCEPT !.state = "submitted",
            !.submittedAt = {now}, !.updatedAt = updated, !.revision = @ + 1]
    /\ connections' = [connections EXCEPT ![t.connection] =
            IF @.state = "open" THEN Close(@, why, t.at) ELSE @]
    /\ submissions' = submissions \cup {[provenance |-> kind,
            generation |-> t.generation, connection |-> t.connection,
            submittedAt |-> t.at]}
    /\ prepared' = [prepared EXCEPT ![kind] = {}]
    /\ UNCHANGED <<now, sitting, sessions, connecting, suspensions>>

\* What every seal writes; updated is the Attempt's new updated_at.
SealAttempt(t, kind, why, updated) ==
    /\ attempt' = [attempt EXCEPT !.state = "submitted",
            !.submittedAt = {t.at}, !.updatedAt = updated, !.revision = @ + 1]
    /\ connections' = [connections EXCEPT ![t.connection] =
            IF @.state = "open" THEN Close(@, why, t.at) ELSE @]
    /\ submissions' = submissions \cup {[provenance |-> kind,
            generation |-> t.generation, connection |-> t.connection,
            submittedAt |-> t.at]}
    /\ prepared' = [prepared EXCEPT ![kind] = {}]
    /\ UNCHANGED <<now, sitting, sessions, connecting, suspensions>>

\* Seal with SubmitExamAttempt: updated_at never moves back, because a
\* renewal may have committed after the seal time was read.
Seal ==
    \E t \in Prepared("candidate") :
        LET p == participations[t.generation]
        IN  /\ Active /\ Unlocked
            /\ MaySubmit(t.connection)
            /\ t.at <= now /\ t.at >= p.startedAt
            /\ t.at >= connections[t.connection].openedAt
            /\ participations' = [participations EXCEPT ![t.generation] =
                    [EndParticipation(p, "submitted", t.at)
                        EXCEPT !.updatedAt = Max({p.updatedAt, t.at})]]
            /\ SealAttempt(t, "candidate", "submitted",
                           Max({attempt.updatedAt, t.at}))

\* EndExamAttemptByManager and SealExamAttemptForSittingClose: an ended
\* Participation keeps its cause.
SealUnfinished(t, kind, why) ==
    LET p == participations[t.generation]
        c == connections[t.connection]
    IN  /\ attempt.state \in Unresolved
        /\ p.state = "ended" => c.state = "closed"
        /\ t.at >= attempt.updatedAt
        /\ t.at >= p.updatedAt /\ t.at >= c.openedAt
        /\ participations' =
            [participations EXCEPT ![t.generation] =
                IF @.state = "active" THEN EndParticipation(@, why, t.at) ELSE @]
        /\ SealAttempt(t, kind, why, t.at)

PrepareManagerEnd ==
    /\ Active /\ Unlocked
    /\ attempt.state \in Unresolved
    /\ Live /\ Truncated(now) < sitting.end
    /\ Prepare("manager", Target(Truncated(now)))

EndByManager ==
    \E t \in Prepared("manager") :
        /\ Active /\ Unlocked
        /\ t.generation = Latest /\ t.connection = LatestConnection
        /\ t.revision = attempt.revision
        /\ Live
        /\ t.at <= now /\ BeforeEnd
        /\ SealUnfinished(t, "manager", "manager_ended")

\* Mutated form: a ready Attempt is not listed.
PrepareAutomaticSealUnready ==
    /\ sitting.state = "closing"
    /\ attempt.state \in {"active", "suspended"}
    /\ Prepare("sitting", [Target(Truncated(now)) EXCEPT !.revision = 0])

\* ListAutomaticSealTargets and PrepareAutomaticSeal; the target carries no
\* Attempt revision.
PrepareAutomaticSeal ==
    /\ sitting.state = "closing"
    /\ attempt.state \in Unresolved
    /\ Prepare("sitting", [Target(Truncated(now)) EXCEPT !.revision = 0])

SealForSittingClose ==
    \E t \in Prepared("sitting") :
        /\ t.generation = Latest /\ t.connection = LatestConnection
        /\ sitting.state = "closing"
        /\ t.at <= now
        /\ SealUnfinished(t, "sitting", "sitting_closed")

----------------------------------------------------------------------------
(* The Sitting.  A transition locks its row, which a Connect shares.        *)

\* Mutated form: a transition does not wait for a Connect.
BecomeUnlocked(state) ==
    /\ sitting' = [sitting EXCEPT !.state = state]
    /\ UNCHANGED <<now, sessions, connecting, prepared, tables>>

Become(state) ==
    /\ Unlocked
    /\ sitting' = [sitting EXCEPT !.state = state]
    /\ UNCHANGED <<now, sessions, connecting, prepared, tables>>

Pause == Active /\ sitting.state = "open" /\ BeforeEnd /\ Become("paused")

Resume == Active /\ sitting.state = "paused" /\ BeforeEnd /\ Become("open")

Extend(end) ==
    /\ Active /\ Unlocked /\ Live /\ BeforeEnd
    /\ end > sitting.end
    /\ sitting' = [sitting EXCEPT !.end = end]
    /\ UNCHANGED <<now, sessions, connecting, prepared, tables>>

EarlyClose == Active /\ Live /\ BeforeEnd /\ Become("closing")

EnterClosing == Live /\ ~BeforeEnd /\ Become("closing")

FinishSealing ==
    /\ sitting.state = "closing"
    /\ attempt.state \notin Unresolved
    /\ Become("closed")

Tick ==
    /\ now < MaxTime
    /\ now' = now + 1
    /\ UNCHANGED <<sitting, sessions, connecting, prepared, tables>>

----------------------------------------------------------------------------
Init ==
    /\ now = 0
    /\ sitting = [state |-> "open", end |-> Min(Ends)]
    /\ sessions = [s \in Sessions |-> "unissued"]
    /\ connecting = {}
    /\ attempt = [state |-> "none", revision |-> 0, createdAt |-> 0,
                  updatedAt |-> 0, submittedAt |-> {}]
    /\ participations = <<>> /\ connections = <<>> /\ suspensions = <<>>
    /\ submissions = {}
    /\ prepared = [kind \in SealKinds |-> {}]

Next ==
    \/ \E s \in Sessions : IssueSession(s)
    \/ \E s \in Sessions, at \in (now - Skew) .. (now + Skew) :
            RevokeSession(s, at)
    \/ \E s \in Sessions : LockEligibility(s)
    \/ AbandonConnect
    \/ FirstAdmission
    \/ Reconnect
    \/ Reactivate
    \/ \E c \in DOMAIN connections : CloseConnection(c)
    \/ \E c \in DOMAIN connections, n \in 1 .. MaxSequence : Renew(c, n)
    \/ \E g \in DOMAIN participations : ExpireParticipation(g)
    \/ \E g \in DOMAIN participations : SuspendByManager(g)
    \/ \E c \in DOMAIN connections : SuspendForFocusLoss(c)
    \/ \E n \in DOMAIN suspensions : ReallowAttempt(n)
    \/ \E c \in DOMAIN connections : ResolveSealTarget(c)
    \/ Seal
    \/ PrepareManagerEnd
    \/ EndByManager
    \/ PrepareAutomaticSeal
    \/ SealForSittingClose
    \/ Pause
    \/ Resume
    \/ \E end \in Ends : Extend(end)
    \/ EarlyClose
    \/ EnterClosing
    \/ FinishSealing
    \/ Tick

Spec == Init /\ [][Next]_vars

\* What the server does by itself: time passes, a transaction ends, the
\* deadline Job closes the Sitting, the sealing Job seals and finishes it.
FairSpec ==
    /\ Spec
    /\ WF_vars(Tick)
    /\ WF_vars(AbandonConnect \/ FirstAdmission \/ Reconnect \/ Reactivate)
    /\ WF_vars(EnterClosing)
    /\ WF_vars(PrepareAutomaticSeal)
    /\ WF_vars(SealForSittingClose)
    /\ WF_vars(FinishSealing)

----------------------------------------------------------------------------
(* Properties *)

Times == 0 .. (MaxTime + Skew)

\* Every row has its columns' types.
TypeOK ==
    /\ now \in 0 .. MaxTime
    /\ sitting \in [state : {"open", "paused", "closing", "closed"},
                    end : Ends]
    /\ sessions \in [Sessions -> {"unissued", "live", "revoked"}]
    /\ connecting \subseteq [session : Sessions, at : Times]
    /\ attempt.state \in Unresolved \cup {"none", "submitted"}
    /\ attempt.revision \in Nat /\ attempt.updatedAt \in Times
    /\ \A g \in DOMAIN participations :
        /\ participations[g].session \in Sessions
        /\ participations[g].sequence \in 0 .. MaxSequence
        /\ participations[g].lease \in Times
    /\ \A c \in DOMAIN connections :
        connections[c].generation \in DOMAIN participations
    /\ \A n \in DOMAIN suspensions :
        suspensions[n].generation \in DOMAIN participations

\* What the manager's status projection calls an invalid persisted state
\* never occurs: an active Attempt has exactly one active Participation, the
\* newest generation, and at most one open Connection, on that generation;
\* any other Attempt has neither.
TransportFenced ==
    /\ ActiveGenerations = IF attempt.state = "active" THEN {Latest} ELSE {}
    /\ Cardinality(OpenConnections) <= 1
    /\ \A c \in OpenConnections :
        /\ connections[c].generation \in ActiveGenerations
        /\ c = LatestConnection
        /\ connections[c].session = participations[Latest].session

\* While an Attempt is active its Participation's Session is the candidate's
\* only live Session, whatever sign-ins, revocations and Connects race.
SoleSession ==
    attempt.state = "active" =>
        {s \in Sessions : sessions[s] = "live"} = {participations[Latest].session}

\* A submitted Attempt has exactly one Submission, at the Attempt's own
\* submitted_at, for a Connection of the newest generation; no other Attempt
\* has one.
OneSubmission ==
    IF attempt.state = "submitted"
    THEN \E s \in submissions :
            /\ submissions = {s}
            /\ attempt.submittedAt = {s.submittedAt}
            /\ s.generation = Latest
            /\ connections[s.connection].generation = Latest
    ELSE submissions = {} /\ attempt.submittedAt = {}

\* Every row still passes its Validate when it is read back: no update leaves
\* an instant before the one it must follow, although Connect, revocation and
\* seals all act at an instant that is not the one of the commit.
RowsRevalidate ==
    /\ attempt.createdAt <= attempt.updatedAt
    /\ \A t \in attempt.submittedAt :
        attempt.createdAt <= t /\ t <= attempt.updatedAt
    /\ \A g \in DOMAIN participations :
        LET p == participations[g]
        IN  /\ p.startedAt <= p.updatedAt /\ p.startedAt < p.lease
            /\ \A t \in p.endedAt : p.startedAt <= t /\ t <= p.updatedAt
            /\ (p.state = "ended") = (p.endedAt # {})
    /\ \A c \in DOMAIN connections :
        \A t \in connections[c].closedAt : connections[c].openedAt <= t
    /\ \A n \in DOMAIN suspensions :
        \A t \in suspensions[n].endedAt : suspensions[n].startedAt <= t

\* While the Sitting is closing, the target an automatic seal prepared stays
\* the Attempt's current target: the sealing Job never meets a changed one.
AutomaticTargetStable ==
    \A t \in Prepared("sitting") :
        t.generation = Latest /\ t.connection = LatestConnection

\* No step does what the database's guards exist to refuse: an ended
\* Participation, a closed Connection or a closed Suspension changes, a lease,
\* a renewal sequence or an updated_at moves back, or a row of the Attempt
\* changes without its revision.
FencesAdvance == [][
    /\ \A g \in DOMAIN participations :
        LET p == participations[g]
            q == participations'[g]
        IN  /\ p.state = "ended" => q = p
            /\ p.sequence <= q.sequence /\ p.lease <= q.lease
            /\ p.updatedAt <= q.updatedAt
    /\ \A c \in DOMAIN connections :
        connections[c].state = "closed" => connections'[c] = connections[c]
    /\ \A n \in DOMAIN suspensions :
        suspensions[n].state = "closed" => suspensions'[n] = suspensions[n]
    /\ attempt.updatedAt <= attempt'.updatedAt
    /\ attempt' # attempt => attempt'.revision = attempt.revision + 1]_vars

\* Every admitted Attempt is sealed in the end, whoever stops acting, whatever
\* is revoked, expired or suspended, and however clocks differ.
EveryAttemptSealed == attempt.state # "none" ~> attempt.state = "submitted"

=============================================================================
