-------------------------- MODULE ExamAttemptProofs --------------------------
(***************************************************************************)
(* Proofs about the Exam Attempt, for any Sessions, durations and bounds.  *)
(* The actions that write the Attempt's tables fall into four groups: a    *)
(* generation is admitted, suspended or sealed, or one row changes.  Each  *)
(* group is one relation between the tables before and after; an action    *)
(* is shown to be an instance of its group, and the group is shown to      *)
(* preserve the invariant.                                                 *)
(***************************************************************************)
EXTENDS ExamAttempt, FiniteSetTheorems, WellFoundedInduction, TLAPS

\* A leaf that names no prover is tried with Zenon, then with SMT. SMT is listed
\* twice, here and at the leaves that need it: tlapm gives up on an encoding after
\* five seconds, and a second try starts afresh.
USE ZenonT(10), SMTT(30), SMTT(20), ZenonT(30)

(* Extrema of the small sets the code takes a GREATEST or LEAST of.        *)

\* An upper bound that belongs to the set is its Max.
LEMMA MaxIs ==
  ASSUME NEW S \in SUBSET Int, NEW x \in S, \A y \in S : y <= x
  PROVE  Max(S) = x
<1> DEFINE P(z) == z \in S /\ \A y \in S : z >= y
<1>1. P(x)
  OBVIOUS
<1>2. \A z : P(z) => z = x
  <2> TAKE z
  <2> HAVE P(z)
  <2>1. z >= x /\ x >= z /\ z \in Int /\ x \in Int
    OBVIOUS
  <2>2. QED
    BY <2>1
<1>3. Max(S) = CHOOSE z : P(z)
  BY DEF Max
<1>4. P(CHOOSE z : P(z))
  BY <1>1
<1> HIDE DEF P
<1>5. QED
  BY <1>2, <1>3, <1>4

\* The later of two times.
LEMMA MaxOfTwo ==
  ASSUME NEW a \in Int, NEW b \in Int
  PROVE  Max({a, b}) = IF a <= b THEN b ELSE a
<1>1. CASE a <= b
  BY <1>1, MaxIs, SMTT(30), SMTT(20)
<1>2. CASE ~(a <= b)
  BY <1>2, MaxIs
<1>3. QED
  BY <1>1, <1>2

\* The latest of three times is not before any of them.
LEMMA MaxOfThree ==
  ASSUME NEW a \in Int, NEW b \in Int, NEW c \in Int
  PROVE  /\ Max({a, b, c}) \in Int
         /\ Max({a, b, c}) >= a /\ Max({a, b, c}) >= b /\ Max({a, b, c}) >= c
<1>1. PICK m \in {a, b, c} : a <= m /\ b <= m /\ c <= m
  OBVIOUS
<1>2. Max({a, b, c}) = m
  BY <1>1, MaxIs
<1>3. QED
  BY <1>1, <1>2

\* The earlier of two times.
LEMMA MinOfTwo ==
  ASSUME NEW a \in Int, NEW b \in Int
  PROVE  Min({a, b}) = IF a <= b THEN a ELSE b
<1> DEFINE S == {a, b}
           m == IF a <= b THEN a ELSE b
           P(z) == z \in S /\ \A y \in S : z =< y
<1>1. P(m)
  OBVIOUS
<1>2. \A z : P(z) => z = m
  OBVIOUS
<1>3. Min(S) = CHOOSE z : P(z)
  BY DEF Min
<1>4. P(CHOOSE z : P(z))
  BY <1>1
<1> HIDE DEF P, m
<1>5. Min(S) = m
  BY <1>2, <1>3, <1>4
<1>6. QED
  BY <1>5 DEF m

----------------------------------------------------------------------------
(* The invariant                                                           *)

Reasons == {"none", "policy_suspended", "lease_expired", "kicked", "submitted",
            "transport_closed", "manager_ended", "sitting_closed"}

AttemptRow == [state : Unresolved \cup {"none", "submitted"}, revision : Nat,
               createdAt : Int, updatedAt : Int, submittedAt : SUBSET Int]
Participation == [session : Sessions, state : {"active", "ended"},
                  sequence : Nat, startedAt : Int, updatedAt : Int,
                  lease : Int, endedAt : SUBSET Int, reason : Reasons]
Connection == [generation : Nat, session : Sessions, state : {"open", "closed"},
               openedAt : Int, closedAt : SUBSET Int, reason : Reasons]
Suspension == [generation : Nat, revision : Nat, state : {"active", "closed"},
               startedAt : Int, endedAt : SUBSET Int]
SealTarget == [generation : Nat, connection : Nat, revision : Nat, at : Int]

RowTypes ==
    /\ now \in Nat
    /\ sitting \in [state : {"open", "paused", "closing", "closed"}, end : Nat]
    /\ sessions \in [Sessions -> {"unissued", "live", "revoked"}]
    /\ connecting \in SUBSET [session : Sessions, at : Nat]
    /\ attempt \in AttemptRow
    /\ participations \in Seq(Participation)
    /\ connections \in Seq(Connection)
    /\ suspensions \in Seq(Suspension)
    /\ prepared \in [SealKinds -> SUBSET SealTarget]

\* The Connection opened last; it belongs to the newest generation.
Newest == Len(connections)

\* Which rows are live: the newest generation while the Attempt is active,
\* and no Connection but the one opened last.
Generations ==
    /\ attempt.state = "none" =>
        /\ attempt.revision = 0 /\ attempt.createdAt = 0 /\ attempt.updatedAt = 0
        /\ participations = <<>> /\ connections = <<>> /\ suspensions = <<>>
    /\ attempt.state # "none" =>
        Latest >= 1 /\ Newest >= 1 /\ connections[Newest].generation = Latest
    /\ \A g \in DOMAIN participations :
        participations[g].state = "active" <=>
            attempt.state = "active" /\ g = Latest
    /\ \A c \in DOMAIN connections :
        /\ connections[c].generation \in DOMAIN participations
        /\ connections[c].state = "open" =>
            /\ c = Newest /\ attempt.state = "active"
            /\ connections[c].generation = Latest
            /\ connections[c].session = participations[Latest].session

\* What a Connect that waits for the Attempt may rely on.
Admission ==
    /\ \A k, l \in connecting : k = l
    /\ \A k \in connecting :
        /\ sessions[k.session] = "live"
        /\ attempt.createdAt <= k.at /\ k.at <= now
    /\ sitting.state \in {"closing", "closed"} => connecting = {}
    /\ SoleSession

\* What the seals that were prepared may rely on.
Preparations ==
    /\ \A t \in Prepared("candidate") :
        /\ t.connection \in DOMAIN connections
        /\ t.generation = connections[t.connection].generation
    /\ \A t \in Prepared("sitting") :
        /\ sitting.state \in {"closing", "closed"} /\ attempt.state # "none"
        /\ t.generation = Latest /\ t.connection = Newest

\* An active Suspension is the newest and is the Attempt's present one.
Suspended ==
    \A n \in DOMAIN suspensions : suspensions[n].state = "active" =>
        /\ n = Len(suspensions)
        /\ attempt.state \in {"suspended", "submitted"}
        /\ attempt.state = "suspended" =>
            suspensions[n].startedAt = attempt.updatedAt

\* No instant that a later step is stamped after lies ahead of the clock, and
\* a lease ends with the Sitting and within InitialLease of its renewal.
Clocks ==
    /\ attempt.createdAt <= now
    /\ attempt.state \in {"none", "ready", "active"} => attempt.updatedAt <= now
    /\ \A g \in DOMAIN participations :
        LET p == participations[g]
        IN  /\ attempt.createdAt <= p.startedAt /\ p.startedAt <= now
            /\ p.state = "active" => p.updatedAt <= now
            /\ p.lease <= sitting.end /\ p.lease <= p.updatedAt + InitialLease
    /\ \A c \in DOMAIN connections : connections[c].openedAt <= now

IInv == /\ RowTypes /\ Generations /\ Admission /\ Preparations
        /\ Suspended /\ Clocks /\ RowsRevalidate /\ OneSubmission

\* What FencesAdvance says of a step.
Advances ==
    /\ \A g \in DOMAIN participations :
        LET p == participations[g]
            q == participations'[g]
        IN  /\ p.state = "ended" => q = p
            /\ p.sequence <= q.sequence /\ p.lease <= q.lease
            /\ p.updatedAt <= q.updatedAt
    /\ \A c \in DOMAIN connections :
        connections[c].state = "closed" => connections'[c] = connections[c]
    /\ \A n \in DOMAIN suspensions :
        suspensions[n].state = "closed" => suspensions'[n] = suspensions[n]
    /\ attempt.updatedAt <= attempt'.updatedAt
    /\ attempt' # attempt => attempt'.revision = attempt.revision + 1
----------------------------------------------------------------------------
(* The initial state                                                       *)

\* A set of natural numbers has a least element.
LEMMA LeastExists ==
  ASSUME NEW S \in SUBSET Nat, S # {}
  PROVE  \E m \in S : \A k \in S : m <= k
<1> DEFINE Less == {ss \in Nat \X Nat : ss[1] < ss[2]}
<1>1. IsWellFoundedOn(Less, Nat)
  BY NatLessThanWellFounded DEF OpToRel
<1>2. \A x, y \in Nat : <<y, x>> \in Less <=> y < x
  OBVIOUS
<1> HIDE DEF Less
<1>3. PICK x \in S : \A y \in S : ~ (<<y, x>> \in Less)
  BY <1>1, WFMin
<1>4. ASSUME NEW k \in S PROVE x <= k
  <2>1. ~(k < x) /\ k \in Nat /\ x \in Nat
    BY <1>2, <1>3
  <2>2. QED
    BY <2>1
<1>5. QED
  BY <1>4

\* Before the first Connect there are no rows.
LEMMA InitIInv ==
  ASSUME Init
  PROVE  IInv
<1>1. Min(Ends) \in Nat
  <2>1. \E m \in Ends : \A k \in Ends : m <= k
    BY LeastExists, ExamAttemptAssumption
  <2>2. (CHOOSE x \in Ends : \A y \in Ends : x <= y) \in Ends
    BY <2>1
  <2>3. QED
    BY <2>2, ExamAttemptAssumption DEF Min
<1>2. /\ attempt = [state |-> "none", revision |-> 0, createdAt |-> 0,
                    updatedAt |-> 0, submittedAt |-> {}]
      /\ attempt.state = "none" /\ attempt.submittedAt = {}
      /\ attempt.revision = 0 /\ attempt.createdAt = 0 /\ attempt.updatedAt = 0
  BY DEF Init
<1>3. RowTypes
  BY <1>1, <1>2 DEF Init, RowTypes, AttemptRow
<1>4. /\ DOMAIN participations = {} /\ DOMAIN connections = {} /\ DOMAIN suspensions = {}
      /\ participations = <<>> /\ connections = <<>> /\ suspensions = <<>>
  BY DEF Init
<1>5. Generations /\ Suspended /\ RowsRevalidate /\ OneSubmission
  BY <1>2, <1>4 DEF Init, Generations, Suspended, RowsRevalidate, OneSubmission
<1>6. Admission /\ Preparations /\ Clocks
  <2>1. Admission
    BY <1>2, <1>4 DEF Init, Admission, SoleSession
  <2>2. Preparations
    BY <1>2, <1>4 DEF Init, Preparations, Prepared
  <2>3. Clocks
    BY <1>2, <1>4 DEF Init, Clocks
  <2>4. QED
    BY <2>1, <2>2, <2>3
<1>7. QED
  BY <1>3, <1>5, <1>6 DEF IInv
----------------------------------------------------------------------------
(* Sequences of rows                                                       *)

\* One row of a table is replaced.
LEMMA RowReplaced ==
  ASSUME NEW S, NEW s \in Seq(S), NEW i \in DOMAIN s, NEW x \in S
  PROVE  LET t == [s EXCEPT ![i] = x]
         IN  /\ t \in Seq(S) /\ Len(t) = Len(s) /\ DOMAIN t = DOMAIN s
             /\ t[i] = x /\ \A j \in DOMAIN s : j # i => t[j] = s[j]
  OBVIOUS

\* A row is inserted after the others.
LEMMA RowAppended ==
  ASSUME NEW S, NEW s \in Seq(S), NEW x \in S
  PROVE  LET t == Append(s, x)
         IN  /\ t \in Seq(S) /\ Len(t) = Len(s) + 1
             /\ DOMAIN t = 1 .. (Len(s) + 1) /\ DOMAIN s = 1 .. Len(s)
             /\ t[Len(s) + 1] = x /\ \A j \in DOMAIN s : t[j] = s[j]
  OBVIOUS

\* Every row is updated.
LEMMA RowsMapped ==
  ASSUME NEW S, NEW s \in Seq(S), NEW t,
         t = [i \in DOMAIN s |-> t[i]], \A i \in DOMAIN s : t[i] \in S
  PROVE  t \in Seq(S) /\ Len(t) = Len(s) /\ DOMAIN t = DOMAIN s
  OBVIOUS

(* What the transitions of the rows do to the columns.                     *)

\* Participation p was ended at an instant, as q.
EndsAt(p, q, at) ==
    /\ q \in Participation
    /\ q.session = p.session /\ q.sequence = p.sequence
    /\ q.startedAt = p.startedAt /\ q.lease = p.lease
    /\ q.state = "ended" /\ q.endedAt = {at}
    /\ p.startedAt <= at /\ at <= q.updatedAt /\ p.updatedAt <= q.updatedAt

\* AttemptParticipation.End at an instant not before the last update.
LEMMA EndParticipationFacts ==
  ASSUME NEW p \in Participation, NEW why \in Reasons, NEW at \in Int,
         p.startedAt <= at, p.updatedAt <= at
  PROVE  EndsAt(p, EndParticipation(p, why, at), at)
<1> DEFINE q == EndParticipation(p, why, at)
<1>1. /\ q \in Participation /\ q.session = p.session /\ q.sequence = p.sequence
      /\ q.startedAt = p.startedAt /\ q.lease = p.lease
      /\ q.state = "ended" /\ q.endedAt = {at} /\ q.updatedAt = at
  BY DEF EndParticipation, Participation
<1> HIDE DEF q
<1>2. at <= q.updatedAt /\ p.updatedAt <= q.updatedAt
  BY <1>1, SMTT(30), SMTT(20)
<1>3. QED
  BY <1>1, <1>2 DEF EndsAt, q

\* The same with updated_at kept from moving back.
LEMMA EndParticipationLateFacts ==
  ASSUME NEW p \in Participation, NEW why \in Reasons,
         NEW at \in Int, NEW updated \in Int,
         p.startedAt <= at, p.updatedAt <= updated, at <= updated
  PROVE  EndsAt(p, [EndParticipation(p, why, at) EXCEPT !.updatedAt = updated], at)
<1> DEFINE e == EndParticipation(p, why, at)
           q == [e EXCEPT !.updatedAt = updated]
<1>1. /\ e \in Participation /\ e.session = p.session /\ e.sequence = p.sequence
      /\ e.startedAt = p.startedAt /\ e.lease = p.lease
      /\ e.state = "ended" /\ e.endedAt = {at}
  BY DEF EndParticipation, Participation
<1> HIDE DEF e
<1>2. /\ q \in Participation /\ q.session = e.session /\ q.sequence = e.sequence
      /\ q.startedAt = e.startedAt /\ q.lease = e.lease
      /\ q.state = e.state /\ q.endedAt = e.endedAt /\ q.updatedAt = updated
  BY <1>1 DEF Participation
<1> HIDE DEF q
<1>3. QED
  BY <1>1, <1>2 DEF EndsAt, q, e

\* AttemptConnection.Close.
LEMMA CloseFacts ==
  ASSUME NEW c \in Connection, NEW why \in Reasons, NEW at \in Int
  PROVE  LET d == Close(c, why, at)
         IN  /\ d \in Connection /\ d.generation = c.generation
             /\ d.session = c.session /\ d.openedAt = c.openedAt
             /\ d.state = "closed" /\ d.closedAt = {at}
  BY DEF Close, Connection

\* The rows inserted by a Connect.
LEMMA NewRowFacts ==
  ASSUME NEW s \in Sessions, NEW at \in Int, NEW lease \in Int, NEW g \in Nat
  PROVE  /\ NewParticipation(s, at, lease) \in Participation
         /\ NewConnection(g, s, at) \in Connection
  BY DEF NewParticipation, NewConnection, Participation, Connection, Reasons

\* The Attempt moves to another state.
Moved(a, state, at) ==
    [a EXCEPT !.state = state, !.updatedAt = at, !.revision = @ + 1]

\* A moved Attempt row has a new state, time and revision, and nothing else.
LEMMA MovedFacts ==
  ASSUME NEW a \in AttemptRow, NEW state \in Unresolved \cup {"none", "submitted"},
         NEW at \in Int
  PROVE  LET b == Moved(a, state, at)
         IN  /\ b \in AttemptRow /\ b.state = state /\ b.updatedAt = at
             /\ b.revision = a.revision + 1 /\ b.createdAt = a.createdAt
             /\ b.submittedAt = a.submittedAt
<1>1. a.revision + 1 \in Nat
  BY SMTT(30), SMTT(20) DEF AttemptRow
<1>2. QED
  BY <1>1 DEF AttemptRow, Moved
----------------------------------------------------------------------------
(* The groups of steps                                                     *)

\* The types of the columns that are compared, row by row.
Columns ==
    /\ now \in Int /\ sitting.end \in Int
    /\ attempt.createdAt \in Int /\ attempt.updatedAt \in Int
    /\ \A g \in DOMAIN participations :
        /\ participations[g] \in Participation
        /\ participations[g].session \in Sessions
        /\ participations[g].state \in {"active", "ended"}
        /\ participations[g].sequence \in Int /\ participations[g].startedAt \in Int
        /\ participations[g].updatedAt \in Int /\ participations[g].lease \in Int
    /\ \A c \in DOMAIN connections :
        /\ connections[c] \in Connection
        /\ connections[c].generation \in Nat /\ connections[c].session \in Sessions
        /\ connections[c].state \in {"open", "closed"}
        /\ connections[c].openedAt \in Int
    /\ \A n \in DOMAIN suspensions :
        /\ suspensions[n] \in Suspension /\ suspensions[n].startedAt \in Int
        /\ suspensions[n].state \in {"active", "closed"}

\* A table's rows are numbered from one.
Indices ==
    /\ Latest \in Nat /\ DOMAIN participations = 1 .. Latest
    /\ Newest \in Nat /\ DOMAIN connections = 1 .. Newest
    /\ Len(suspensions) \in Nat /\ DOMAIN suspensions = 1 .. Len(suspensions)

\* The types of single columns and of row numbers, from those of the rows.
LEMMA ColumnTypes ==
  ASSUME RowTypes
  PROVE  Columns /\ Indices
<1>1. /\ now \in Int /\ sitting.end \in Int
      /\ attempt.createdAt \in Int /\ attempt.updatedAt \in Int
  BY SMTT(30), SMTT(20) DEF RowTypes, AttemptRow
<1>2. /\ Latest \in Nat /\ DOMAIN participations = 1 .. Latest
      /\ Newest \in Nat /\ DOMAIN connections = 1 .. Newest
      /\ Len(suspensions) \in Nat /\ DOMAIN suspensions = 1 .. Len(suspensions)
  BY SMTT(30), SMTT(20) DEF RowTypes, Latest, Newest
<1>3. ASSUME NEW g \in DOMAIN participations
      PROVE  participations[g] \in Participation
  BY <1>3, SMTT(30), SMTT(20) DEF RowTypes
<1>4. ASSUME NEW c \in DOMAIN connections PROVE connections[c] \in Connection
  BY <1>4, SMTT(30), SMTT(20) DEF RowTypes
<1>5. ASSUME NEW n \in DOMAIN suspensions PROVE suspensions[n] \in Suspension
  BY <1>5, SMTT(30), SMTT(20) DEF RowTypes
<1>6. ASSUME NEW p \in Participation
      PROVE  /\ p.session \in Sessions /\ p.state \in {"active", "ended"}
             /\ p.sequence \in Int /\ p.startedAt \in Int
             /\ p.updatedAt \in Int /\ p.lease \in Int
  BY SMTT(30), SMTT(20) DEF Participation
<1>7. ASSUME NEW c \in Connection
      PROVE  /\ c.generation \in Nat /\ c.session \in Sessions
             /\ c.state \in {"open", "closed"} /\ c.openedAt \in Int
  BY DEF Connection
<1>8. ASSUME NEW n \in Suspension
      PROVE  n.startedAt \in Int /\ n.state \in {"active", "closed"}
  BY DEF Suspension
<1>9. QED
  BY <1>1, <1>2, <1>3, <1>4, <1>5, <1>6, <1>7, <1>8 DEF Columns, Indices

\* The newest generation of a known Attempt has a newest Connection.
LEMMA LatestConnectionIsNewest ==
  ASSUME RowTypes, Generations, attempt.state # "none"
  PROVE  LatestConnection = Newest /\ Newest \in DOMAIN connections
         /\ Latest \in DOMAIN participations
<1> DEFINE S == {c \in DOMAIN connections : connections[c].generation = Latest}
<1>1. /\ DOMAIN connections = 1 .. Newest /\ Newest \in Nat
      /\ DOMAIN participations = 1 .. Latest /\ Latest \in Nat
  BY SMTT(30), SMTT(20) DEF RowTypes, Newest, Latest
<1>2. Newest \in S
  BY <1>1, SMTT(30), SMTT(20) DEF Generations
<1>3. S \in SUBSET Int /\ \A y \in S : y <= Newest
  BY <1>1
<1>4. Max(S) = Newest
  BY <1>2, <1>3, MaxIs
<1>5. QED
  BY <1>1, <1>2, <1>4 DEF LatestConnection, Generations

\* Every open Connection is closed, no earlier than it was opened.
Closes ==
    /\ connections' \in Seq(Connection) /\ Len(connections') = Len(connections)
    /\ DOMAIN connections' = DOMAIN connections
    /\ \A c \in DOMAIN connections :
        LET a == connections[c]
            b == connections'[c]
        IN  /\ b.generation = a.generation /\ b.session = a.session
            /\ b.openedAt = a.openedAt /\ b.state = "closed"
            /\ a.state = "closed" => b = a
            /\ a.state = "open" =>
                \E t \in Int : b.closedAt = {t} /\ a.openedAt <= t

\* The Participation of generation g becomes another row.
Replaces(g) ==
    /\ participations' \in Seq(Participation)
    /\ Len(participations') = Len(participations)
    /\ DOMAIN participations' = DOMAIN participations
    /\ g \in DOMAIN participations
    /\ \A h \in DOMAIN participations : h # g => participations'[h] = participations[h]

\* The Attempt's row moves to a state at an instant not before its last.
Moves(state, at) ==
    /\ attempt' \in AttemptRow /\ at \in Int /\ attempt.updatedAt <= at
    /\ attempt'.state = state /\ attempt'.updatedAt = at
    /\ attempt'.revision = attempt.revision + 1
    /\ attempt'.createdAt = attempt.createdAt

\* The steps that change none of the Attempt's tables.
LEMMA QuietStep ==
  ASSUME IInv, UNCHANGED tables, RowTypes', now <= now', sitting.end <= sitting'.end
  PROVE  /\ Generations' /\ Suspended' /\ Clocks' /\ RowsRevalidate'
         /\ OneSubmission' /\ Advances
<1>0. Columns /\ Columns'
  BY ColumnTypes, PTL DEF IInv
<1>1. /\ attempt' = attempt /\ participations' = participations
      /\ connections' = connections /\ suspensions' = suspensions
      /\ submissions' = submissions
  BY DEF tables
<1>2. Generations'
  BY <1>1 DEF IInv, Generations, Latest, Newest
<1>3. Suspended'
  BY <1>1 DEF IInv, Suspended
<1>4. Clocks'
  <2>1. ASSUME NEW g \in DOMAIN participations
        PROVE  LET p == participations[g]
               IN  /\ attempt.createdAt <= p.startedAt /\ p.startedAt <= now'
                   /\ p.state = "active" => p.updatedAt <= now'
                   /\ p.lease <= sitting'.end /\ p.lease <= p.updatedAt + InitialLease
    BY <1>0, SMTT(30), SMTT(20) DEF IInv, Clocks, Columns
  <2>2. \A c \in DOMAIN connections : connections[c].openedAt <= now'
    BY <1>0, SMTT(30), SMTT(20) DEF IInv, Clocks, Columns
  <2>3. /\ attempt.createdAt <= now'
        /\ attempt.state \in {"none", "ready", "active"} => attempt.updatedAt <= now'
    BY <1>0, SMTT(30), SMTT(20) DEF IInv, Clocks, Columns
  <2>4. QED
    BY <1>1, <2>1, <2>2, <2>3 DEF Clocks
<1>5. RowsRevalidate'
  BY <1>1 DEF IInv, RowsRevalidate
<1>6. OneSubmission'
  BY <1>1 DEF IInv, OneSubmission, Latest
<1>7. Advances
  <2>1. ASSUME NEW g \in DOMAIN participations
        PROVE  LET p == participations[g]
               IN  p.sequence <= p.sequence /\ p.lease <= p.lease /\ p.updatedAt <= p.updatedAt
    BY <1>0, SMTT(30), SMTT(20) DEF Columns
  <2>2. attempt.updatedAt <= attempt.updatedAt
    BY <1>0, SMTT(30), SMTT(20) DEF Columns
  <2>3. QED
    BY <1>1, <2>1, <2>2 DEF Advances
<1>8. QED
  BY <1>2, <1>3, <1>4, <1>5, <1>6, <1>7
\* The Attempt is suspended at an instant: its generation ends, its
\* Connection closes and a Suspension starts.
Suspends(at) ==
    /\ attempt.state = "active"
    /\ Moves("suspended", at) /\ attempt'.submittedAt = attempt.submittedAt
    /\ Replaces(Latest)
    /\ EndsAt(participations[Latest], participations'[Latest], at)
    /\ Closes
    /\ suspensions' \in Seq(Suspension)
    /\ DOMAIN suspensions' = 1 .. Len(suspensions')
    /\ Len(suspensions') = Len(suspensions) + 1
    /\ suspensions'[Len(suspensions')].state = "active"
    /\ suspensions'[Len(suspensions')].startedAt = at
    /\ suspensions'[Len(suspensions')].endedAt = {}
    /\ \A n \in DOMAIN suspensions : suspensions'[n] = suspensions[n]
    /\ UNCHANGED <<now, sitting, connecting, prepared, submissions>>

\* A suspension, with the transport fenced and the Participation closed in
\* one transaction, keeps the invariant.
LEMMA SuspendsKeeps ==
  ASSUME IInv, NEW at, Suspends(at),
         sessions' \in [Sessions -> {"unissued", "live", "revoked"}],
         \A k \in connecting : sessions'[k.session] = "live"
  PROVE  IInv' /\ Advances
<1>0. Columns /\ Indices
  BY ColumnTypes DEF IInv
<1>1. RowTypes'
  BY DEF IInv, RowTypes, Suspends, Moves, Replaces, Closes
<1>2. /\ attempt.state = "active" /\ attempt'.state = "suspended"
      /\ attempt'.createdAt = attempt.createdAt /\ attempt'.updatedAt = at
      /\ at \in Int /\ attempt.updatedAt <= at
      /\ attempt'.submittedAt = attempt.submittedAt
      /\ attempt'.revision = attempt.revision + 1
  BY DEF Suspends, Moves
<1>3. /\ DOMAIN participations' = DOMAIN participations /\ Latest' = Latest
      /\ Latest \in DOMAIN participations
      /\ EndsAt(participations[Latest], participations'[Latest], at)
      /\ \A g \in DOMAIN participations : g # Latest => participations'[g] = participations[g]
  BY DEF Suspends, Replaces, Latest
<1>4. /\ DOMAIN connections' = DOMAIN connections /\ Newest' = Newest /\ Closes
  BY DEF Suspends, Closes, Newest
<1>5. /\ now' = now /\ sitting' = sitting /\ connecting' = connecting
      /\ prepared' = prepared /\ submissions' = submissions
  BY DEF Suspends
<1>6. Generations'
  <2>1. connections'[Newest].generation = Latest /\ Latest >= 1 /\ Newest >= 1
    BY <1>2, <1>4, LatestConnectionIsNewest DEF IInv, Generations, Closes
  <2>2. ASSUME NEW g \in DOMAIN participations PROVE participations'[g].state # "active"
    BY <1>2, <1>3 DEF EndsAt, IInv, Generations
  <2>3. ASSUME NEW c \in DOMAIN connections
        PROVE  /\ connections'[c].generation \in DOMAIN participations
               /\ connections'[c].state # "open"
    BY <1>4 DEF IInv, Generations, Closes
  <2>4. QED
    BY <1>2, <1>3, <1>4, <2>1, <2>2, <2>3 DEF Generations
<1>7. Admission'
  BY <1>2, <1>5 DEF IInv, Admission, SoleSession
<1>8. Preparations'
  BY <1>2, <1>3, <1>4, <1>5, SMTT(30), SMTT(20) DEF IInv, Preparations, Prepared, Closes
<1>9. Suspended'
  <2>1. ASSUME NEW n \in DOMAIN suspensions PROVE suspensions'[n].state # "active"
    BY <1>2 DEF IInv, Suspended, Suspends
  <2>2. \A n \in DOMAIN suspensions' : n \in DOMAIN suspensions \/ n = Len(suspensions')
    BY <1>0, SMTT(30), SMTT(20) DEF Suspends, Indices
  <2>3. QED
    BY <1>2, <2>1, <2>2 DEF Suspended, Suspends
<1>10. ASSUME NEW g \in DOMAIN participations
       PROVE  LET p == participations[g]
                  q == participations'[g]
              IN  /\ q.session = p.session /\ q.sequence = p.sequence
                  /\ q.startedAt = p.startedAt /\ q.lease = p.lease
                  /\ q.updatedAt \in Int /\ p.updatedAt <= q.updatedAt
                  /\ \A t \in q.endedAt : p.startedAt <= t /\ t <= q.updatedAt
                  /\ p.state = "ended" => q = p
                  /\ q.state = "ended" /\ q.endedAt # {}
  <2>1. CASE g = Latest
    <3>1. participations'[Latest].updatedAt \in Int
      BY <1>3 DEF EndsAt, Participation
    <3>2. participations[Latest].state = "active"
      BY <1>2, <1>3 DEF IInv, Generations
    <3>3. QED
      BY <1>3, <2>1, <3>1, <3>2 DEF EndsAt
  <2>2. CASE g # Latest
    <3>1. participations'[g] = participations[g] /\ participations[g].state = "ended"
      BY <1>0, <1>3, <2>2 DEF IInv, Generations, Columns
    <3>2. QED
      BY <1>0, <3>1, SMTT(30), SMTT(20) DEF IInv, RowsRevalidate, Columns
  <2>3. QED
    BY <2>1, <2>2
<1>11. Clocks'
  <2>1. ASSUME NEW g \in DOMAIN participations
        PROVE  LET q == participations'[g]
               IN  /\ attempt.createdAt <= q.startedAt /\ q.startedAt <= now
                   /\ q.state = "active" => q.updatedAt <= now
                   /\ q.lease <= sitting.end /\ q.lease <= q.updatedAt + InitialLease
    BY <1>0, <1>10, ExamAttemptAssumption, SMTT(30), SMTT(20) DEF IInv, Clocks, Columns
  <2>2. \A c \in DOMAIN connections : connections'[c].openedAt <= now
    BY <1>4 DEF IInv, Clocks, Closes
  <2>3. QED
    BY <1>2, <1>3, <1>4, <1>5, <2>1, <2>2 DEF Clocks, IInv
<1>12. RowsRevalidate'
  <2>1. ASSUME NEW g \in DOMAIN participations
        PROVE  LET q == participations'[g]
               IN  /\ q.startedAt <= q.updatedAt /\ q.startedAt < q.lease
                   /\ \A t \in q.endedAt : q.startedAt <= t /\ t <= q.updatedAt
                   /\ (q.state = "ended") = (q.endedAt # {})
    BY <1>0, <1>10, SMTT(30), SMTT(20) DEF IInv, RowsRevalidate, Columns
  <2>2. ASSUME NEW c \in DOMAIN connections, NEW t \in connections'[c].closedAt
        PROVE  connections'[c].openedAt <= t
    BY <1>0, <1>4, SMTT(30), SMTT(20) DEF Closes, Columns, IInv, RowsRevalidate
  <2>3. ASSUME NEW n \in DOMAIN suspensions', NEW t \in suspensions'[n].endedAt
        PROVE  suspensions'[n].startedAt <= t
    <3>1. n \in DOMAIN suspensions \/ n = Len(suspensions')
      BY <1>0, SMTT(30), SMTT(20) DEF Suspends, Indices
    <3>2. QED
      BY <3>1 DEF Suspends, IInv, RowsRevalidate
  <2>4. attempt.createdAt <= at /\ attempt.submittedAt = {}
    BY <1>0, <1>2, SMTT(30), SMTT(20) DEF IInv, RowsRevalidate, OneSubmission, Columns
  <2>5. QED
    BY <1>2, <1>3, <1>4, <2>1, <2>2, <2>3, <2>4 DEF RowsRevalidate
<1>13. OneSubmission'
  BY <1>2, <1>5 DEF IInv, OneSubmission
<1>14. Advances
  <2>1. \A n \in DOMAIN suspensions : suspensions'[n] = suspensions[n]
    BY DEF Suspends
  <2>2. \A g \in DOMAIN participations :
            participations[g].sequence <= participations[g].sequence
            /\ participations[g].lease <= participations[g].lease
    BY <1>0, SMTT(30), SMTT(20) DEF Columns
  <2>3. QED
    BY <1>2, <1>4, <1>10, <2>1, <2>2 DEF Advances, Closes
<1>15. QED
  BY <1>1, <1>6, <1>7, <1>8, <1>9, <1>11, <1>12, <1>13, <1>14 DEF IInv
\* The Attempt is sealed with target t: its newest generation, if it is still
\* active, ends, its Connection closes and a Submission is inserted.
Seals(t, updated) ==
    /\ attempt.state \in Unresolved
    /\ t \in SealTarget /\ t.generation = Latest /\ t.connection = Newest
    /\ Moves("submitted", updated) /\ attempt'.submittedAt = {t.at}
    /\ attempt.createdAt <= t.at /\ t.at <= updated
    /\ Replaces(Latest)
    /\ IF participations[Latest].state = "active"
       THEN EndsAt(participations[Latest], participations'[Latest], t.at)
       ELSE participations'[Latest] = participations[Latest]
    /\ Closes
    /\ \E s : /\ submissions' = submissions \cup {s} /\ s.submittedAt = t.at
              /\ s.generation = t.generation /\ s.connection = t.connection
    /\ prepared' \in [SealKinds -> SUBSET SealTarget]
    /\ \A kind \in SealKinds : prepared'[kind] \subseteq prepared[kind]
    /\ UNCHANGED <<now, sitting, sessions, connecting, suspensions>>

\* A seal ends every Participation, Connection and Suspension it finds open.
LEMMA SealsKeeps ==
  ASSUME IInv, NEW t, NEW updated, Seals(t, updated)
  PROVE  IInv' /\ Advances
<1>0. Columns /\ Indices
  BY ColumnTypes DEF IInv
<1>1. RowTypes'
  BY DEF IInv, RowTypes, Seals, Moves, Replaces, Closes
<1>2. /\ attempt.state \in Unresolved /\ attempt'.state = "submitted"
      /\ attempt'.createdAt = attempt.createdAt /\ attempt'.updatedAt = updated
      /\ updated \in Int /\ attempt.updatedAt <= updated
      /\ attempt'.submittedAt = {t.at}
      /\ attempt.createdAt <= t.at /\ t.at <= updated
      /\ attempt'.revision = attempt.revision + 1
  BY DEF Seals, Moves
<1>3. /\ DOMAIN participations' = DOMAIN participations /\ Latest' = Latest
      /\ Latest \in DOMAIN participations
      /\ IF participations[Latest].state = "active"
         THEN EndsAt(participations[Latest], participations'[Latest], t.at)
         ELSE participations'[Latest] = participations[Latest]
      /\ \A g \in DOMAIN participations : g # Latest => participations'[g] = participations[g]
  BY DEF Seals, Replaces, Latest
<1>4. /\ DOMAIN connections' = DOMAIN connections /\ Newest' = Newest /\ Closes
  BY DEF Seals, Closes, Newest
<1>5. /\ now' = now /\ sitting' = sitting /\ connecting' = connecting
      /\ sessions' = sessions /\ suspensions' = suspensions
  BY DEF Seals
<1>6. /\ connections'[Newest].generation = Latest /\ Latest >= 1 /\ Newest >= 1
      /\ Newest \in DOMAIN connections
  BY <1>2, <1>4, LatestConnectionIsNewest DEF IInv, Generations, Closes, Unresolved
<1>10. ASSUME NEW g \in DOMAIN participations
       PROVE  LET p == participations[g]
                  q == participations'[g]
              IN  /\ q.session = p.session /\ q.sequence = p.sequence
                  /\ q.startedAt = p.startedAt /\ q.lease = p.lease
                  /\ q.updatedAt \in Int /\ p.updatedAt <= q.updatedAt
                  /\ \A u \in q.endedAt : p.startedAt <= u /\ u <= q.updatedAt
                  /\ p.state = "ended" => q = p
                  /\ q.state = "ended" /\ q.endedAt # {}
  <2>1. CASE g = Latest /\ participations[Latest].state = "active"
    <3>1. participations'[Latest].updatedAt \in Int
      BY <1>3, <2>1 DEF EndsAt, Participation
    <3>2. QED
      BY <1>3, <2>1, <3>1 DEF EndsAt
  <2>2. CASE ~(g = Latest /\ participations[Latest].state = "active")
    <3>1. participations'[g] = participations[g] /\ participations[g].state = "ended"
      BY <1>0, <1>3, <2>2 DEF IInv, Generations, Columns
    <3>2. QED
      BY <1>0, <3>1, SMTT(30), SMTT(20) DEF IInv, RowsRevalidate, Columns
  <2>3. QED
    BY <2>1, <2>2
<1>7. Generations'
  <2>1. ASSUME NEW c \in DOMAIN connections
        PROVE  /\ connections'[c].generation \in DOMAIN participations
               /\ connections'[c].state # "open"
    BY <1>4 DEF IInv, Generations, Closes
  <2>2. QED
    BY <1>2, <1>3, <1>4, <1>6, <1>10, <2>1 DEF Generations
<1>8. Admission'
  BY <1>2, <1>5 DEF IInv, Admission, SoleSession
<1>9. Preparations'
  <2>1. \A kind : Prepared(kind)' \subseteq Prepared(kind)
    BY DEF Prepared, Seals
  <2>2. QED
    BY <1>2, <1>3, <1>4, <1>5, <2>1 DEF IInv, Preparations, Closes
<1>11. Suspended'
  BY <1>2, <1>5 DEF IInv, Suspended
<1>12. Clocks'
  <2>1. ASSUME NEW g \in DOMAIN participations
        PROVE  LET q == participations'[g]
               IN  /\ attempt.createdAt <= q.startedAt /\ q.startedAt <= now
                   /\ q.state = "active" => q.updatedAt <= now
                   /\ q.lease <= sitting.end /\ q.lease <= q.updatedAt + InitialLease
    BY <1>0, <1>10, ExamAttemptAssumption, SMTT(30), SMTT(20) DEF IInv, Clocks, Columns
  <2>2. \A c \in DOMAIN connections : connections'[c].openedAt <= now
    BY <1>4 DEF IInv, Clocks, Closes
  <2>3. QED
    BY <1>2, <1>3, <1>4, <1>5, <2>1, <2>2 DEF Clocks, IInv
<1>13. RowsRevalidate'
  <2>1. ASSUME NEW g \in DOMAIN participations
        PROVE  LET q == participations'[g]
               IN  /\ q.startedAt <= q.updatedAt /\ q.startedAt < q.lease
                   /\ \A u \in q.endedAt : q.startedAt <= u /\ u <= q.updatedAt
                   /\ (q.state = "ended") = (q.endedAt # {})
    BY <1>0, <1>10, SMTT(30), SMTT(20) DEF IInv, RowsRevalidate, Columns
  <2>2. ASSUME NEW c \in DOMAIN connections, NEW u \in connections'[c].closedAt
        PROVE  connections'[c].openedAt <= u
    BY <1>0, <1>4, SMTT(30), SMTT(20) DEF Closes, Columns, IInv, RowsRevalidate
  <2>3. attempt.createdAt <= updated
    BY <1>0, <1>2, SMTT(30), SMTT(20) DEF IInv, RowsRevalidate, Columns
  <2>4. QED
    BY <1>2, <1>3, <1>4, <1>5, <2>1, <2>2, <2>3 DEF RowsRevalidate, IInv
<1>14. OneSubmission'
  <2>1. submissions = {}
    BY <1>2 DEF IInv, OneSubmission, Unresolved
  <2>2. PICK s : /\ submissions' = submissions \cup {s} /\ s.submittedAt = t.at
                 /\ s.generation = Latest /\ s.connection = Newest
    BY DEF Seals
  <2>3. QED
    BY <1>2, <1>3, <1>4, <1>6, <2>1, <2>2 DEF OneSubmission
<1>15. Advances
  <2>1. \A g \in DOMAIN participations :
            participations[g].sequence <= participations[g].sequence
            /\ participations[g].lease <= participations[g].lease
    BY <1>0 DEF Columns
  <2>2. QED
    BY <1>2, <1>4, <1>5, <1>10, <2>1 DEF Advances, Closes
<1>16. QED
  BY <1>1, <1>7, <1>8, <1>9, <1>11, <1>12, <1>13, <1>14, <1>15 DEF IInv
\* Connect k starts the next generation with a Connection of its own.
Admits(k) ==
    LET p == NewParticipation(k.session, k.at, BoundedLease(k.at))
    IN  /\ k \in connecting
        /\ attempt.state \in {"none", "ready"}
        /\ attempt' \in AttemptRow /\ attempt'.state = "active"
        /\ attempt'.revision = attempt.revision + 1
        /\ attempt'.createdAt =
            IF attempt.state = "none" THEN k.at ELSE attempt.createdAt
        /\ attempt'.updatedAt = Max({attempt.updatedAt, k.at})
        /\ attempt'.submittedAt = attempt.submittedAt
        /\ InsertableParticipation(p)
        /\ participations' = Append(participations, p)
        /\ connections' = Append(connections, NewConnection(Latest + 1, k.session, k.at))
        /\ sessions' = RevokeOthers(k.session)
        /\ connecting' = {}
        /\ UNCHANGED <<now, sitting, suspensions, submissions, prepared>>

\* An admission adds the newest generation with its only live Connection.
LEMMA AdmitsKeeps ==
  ASSUME IInv, NEW k, Admits(k)
  PROVE  IInv' /\ Advances
<1> DEFINE p == NewParticipation(k.session, k.at, BoundedLease(k.at))
           c == NewConnection(Latest + 1, k.session, k.at)
<1>0. Columns /\ Indices
  BY ColumnTypes DEF IInv
<1>1. /\ k.session \in Sessions /\ k.at \in Nat /\ k.at <= now
      /\ attempt.createdAt <= k.at /\ sessions[k.session] = "live"
      /\ sitting.state \notin {"closing", "closed"}
  BY DEF IInv, RowTypes, Admission, Admits
<1>2. /\ BoundedLease(k.at) \in Int /\ BoundedLease(k.at) <= sitting.end
  BY <1>0, <1>1, MinOfTwo, ExamAttemptAssumption, SMTT(30), SMTT(20) DEF BoundedLease, Columns
<1>3. /\ p \in Participation /\ c \in Connection
  <2>1. Latest + 1 \in Nat /\ k.at \in Int
    BY <1>0, <1>1 DEF Indices
  <2>2. QED
    BY <1>1, <1>2, <2>1, NewRowFacts
<1>4. /\ p.session = k.session /\ p.state = "active" /\ p.sequence = 0
      /\ p.startedAt = k.at /\ p.updatedAt = k.at /\ p.endedAt = {}
      /\ p.lease = k.at + InitialLease /\ k.at < p.lease /\ p.lease <= sitting.end
      /\ p.lease \in Int
  BY <1>1, <1>2 DEF Admits, InsertableParticipation, NewParticipation
<1>5. /\ c.generation = Latest + 1 /\ c.session = k.session /\ c.state = "open"
      /\ c.openedAt = k.at /\ c.closedAt = {}
  BY DEF NewConnection
<1> HIDE DEF p, c
<1>6. /\ participations' \in Seq(Participation) /\ Latest' = Latest + 1
      /\ DOMAIN participations' = 1 .. (Latest + 1)
      /\ participations'[Latest + 1] = p
      /\ \A g \in DOMAIN participations : participations'[g] = participations[g]
  BY <1>3, RowAppended, SMTT(30), SMTT(20) DEF Admits, Latest, IInv, RowTypes, p
<1>7. /\ connections' \in Seq(Connection) /\ Newest' = Newest + 1
      /\ DOMAIN connections' = 1 .. (Newest + 1)
      /\ connections'[Newest + 1] = c
      /\ \A d \in DOMAIN connections : connections'[d] = connections[d]
  BY <1>3, RowAppended, SMTT(30), SMTT(20) DEF Admits, Newest, IInv, RowTypes, c
<1>8. /\ \A g \in DOMAIN participations' : g \in DOMAIN participations \/ g = Latest + 1
      /\ \A d \in DOMAIN connections' : d \in DOMAIN connections \/ d = Newest + 1
      /\ Latest + 1 \notin DOMAIN participations /\ Newest + 1 \notin DOMAIN connections
      /\ DOMAIN participations \subseteq DOMAIN participations'
      /\ DOMAIN connections \subseteq DOMAIN connections'
      /\ Latest + 1 \in DOMAIN participations' /\ Newest + 1 \in DOMAIN connections'
      /\ Latest + 1 >= 1 /\ Newest + 1 >= 1
  BY <1>0, <1>6, <1>7 DEF Indices
<1>9. /\ attempt.state \in {"none", "ready"} /\ attempt'.state = "active"
      /\ attempt' \in AttemptRow /\ attempt'.revision = attempt.revision + 1
      /\ attempt'.submittedAt = {} /\ submissions' = {}
      /\ attempt'.createdAt \in Int /\ attempt'.createdAt <= k.at
      /\ attempt.state # "none" => attempt'.createdAt = attempt.createdAt
  BY <1>0, <1>1, SMTT(30), SMTT(20) DEF Admits, IInv, OneSubmission, Columns
<1>10. /\ attempt'.updatedAt \in Int /\ attempt.updatedAt <= attempt'.updatedAt
       /\ k.at <= attempt'.updatedAt /\ attempt'.updatedAt <= now
  <2>1. attempt'.updatedAt = IF attempt.updatedAt <= k.at THEN k.at ELSE attempt.updatedAt
    <3>1. attempt.updatedAt \in Int /\ k.at \in Int
      BY <1>0, <1>1, SMTT(30), SMTT(20) DEF Columns
    <3>2. attempt'.updatedAt = Max({attempt.updatedAt, k.at})
      BY DEF Admits
    <3>3. QED
      BY <3>1, <3>2, MaxOfTwo
  <2>2. attempt.updatedAt <= now
    BY <1>9 DEF IInv, Clocks
  <2>3. QED
    BY <1>0, <1>1, <2>1, <2>2, SMTT(30), SMTT(20) DEF Columns
<1>11. /\ now' = now /\ sitting' = sitting /\ connecting' = {}
       /\ suspensions' = suspensions /\ prepared' = prepared
       /\ sessions' = RevokeOthers(k.session)
  BY DEF Admits
<1>12. RowTypes'
  <2>1. sessions' \in [Sessions -> {"unissued", "live", "revoked"}]
    BY <1>11 DEF RevokeOthers, IInv, RowTypes
  <2>2. QED
    BY <1>6, <1>7, <1>9, <1>11, <2>1 DEF IInv, RowTypes
<1>13. Generations'
  <2>1. ASSUME NEW g \in DOMAIN participations' 
        PROVE  participations'[g].state = "active" <=> g = Latest + 1
    BY <1>4, <1>6, <1>8, <1>9, <2>1 DEF IInv, Generations
  <2>2. ASSUME NEW d \in DOMAIN connections'
        PROVE  /\ connections'[d].generation \in DOMAIN participations'
               /\ connections'[d].state = "open" =>
                    /\ d = Newest + 1 /\ connections'[d].generation = Latest + 1
                    /\ connections'[d].session = p.session
    <3>1. CASE d = Newest + 1
      BY <1>4, <1>5, <1>7, <1>8, <3>1
    <3>2. CASE d \in DOMAIN connections
      <4>1. /\ connections'[d] = connections[d] /\ connections[d].state # "open"
            /\ connections[d].generation \in DOMAIN participations
        BY <1>7, <1>9, <3>2 DEF IInv, Generations
      <4>2. QED
        BY <1>8, <4>1
    <3>3. QED
      BY <1>8, <3>1, <3>2
  <2>3. QED
    BY <1>4, <1>5, <1>6, <1>7, <1>8, <1>9, <2>1, <2>2, SMTT(30), SMTT(20) DEF Generations
<1>14. Admission'
  <2>1. {s \in Sessions : sessions'[s] = "live"} = {k.session}
    BY <1>1, <1>11 DEF RevokeOthers
  <2>2. SoleSession'
    BY <1>4, <1>6, <2>1 DEF SoleSession
  <2>3. QED
    BY <1>11, <2>2 DEF Admission
<1>15. Preparations'
  <2>1. Prepared("candidate")' = Prepared("candidate") /\ Prepared("sitting")' = Prepared("sitting")
    BY <1>11 DEF Prepared
  <2>2. Prepared("sitting") = {}
    BY <1>1 DEF IInv, Preparations
  <2>3. QED
    BY <1>7, <1>8, <2>1, <2>2 DEF IInv, Preparations
<1>16. Suspended'
  BY <1>9, <1>11 DEF IInv, Suspended
<1>17. ASSUME NEW g \in DOMAIN participations'
       PROVE  LET q == participations'[g]
              IN  /\ attempt'.createdAt <= q.startedAt /\ q.startedAt <= now
                  /\ q.state = "active" => q.updatedAt <= now
                  /\ q.lease <= sitting.end /\ q.lease <= q.updatedAt + InitialLease
                  /\ q.startedAt <= q.updatedAt /\ q.startedAt < q.lease
                  /\ \A t \in q.endedAt : q.startedAt <= t /\ t <= q.updatedAt
                  /\ (q.state = "ended") = (q.endedAt # {})
  <2>1. CASE g = Latest + 1
    BY <1>1, <1>4, <1>6, <1>9, <2>1, ExamAttemptAssumption, SMTT(30), SMTT(20)
  <2>2. CASE g \in DOMAIN participations
    <3>1. attempt.state # "none"
      BY <1>0, <2>2 DEF IInv, Generations
    <3>2. participations'[g] = participations[g] /\ attempt'.createdAt = attempt.createdAt
      BY <1>6, <1>9, <2>2, <3>1
    <3>3. QED
      BY <2>2, <3>2 DEF IInv, Clocks, RowsRevalidate
  <2>3. QED
    BY <1>8, <2>1, <2>2
<1>18. Clocks'
  <2>1. \A d \in DOMAIN connections' : connections'[d].openedAt <= now
    BY <1>1, <1>5, <1>7, <1>8 DEF IInv, Clocks
  <2>2. attempt'.createdAt <= now
    BY <1>0, <1>1, <1>9, SMTT(30), SMTT(20) DEF Columns
  <2>3. QED
    BY <1>10, <1>11, <1>17, <2>1, <2>2 DEF Clocks
<1>19. RowsRevalidate'
  <2>1. ASSUME NEW d \in DOMAIN connections', NEW t \in connections'[d].closedAt
        PROVE  connections'[d].openedAt <= t
    BY <1>5, <1>7, <1>8 DEF IInv, RowsRevalidate
  <2>2. attempt'.createdAt <= attempt'.updatedAt
    BY <1>1, <1>9, <1>10, SMTT(30), SMTT(20)
  <2>3. QED
    BY <1>9, <1>11, <1>17, <2>1, <2>2 DEF IInv, RowsRevalidate
<1>20. OneSubmission'
  BY <1>9 DEF OneSubmission
<1>21. Advances
  <2>1. \A g \in DOMAIN participations :
            /\ participations[g].sequence <= participations[g].sequence
            /\ participations[g].lease <= participations[g].lease
            /\ participations[g].updatedAt <= participations[g].updatedAt
    BY <1>0 DEF Columns
  <2>2. QED
    BY <1>6, <1>7, <1>9, <1>10, <1>11, <2>1 DEF Advances
<1>22. QED
  BY <1>12, <1>13, <1>14, <1>15, <1>16, <1>18, <1>19, <1>20, <1>21 DEF IInv


----------------------------------------------------------------------------
(* The actions                                                             *)

\* Expiry, a kick and Focus Loss suspend the Attempt now.
LEMMA SuspendSuspends ==
  ASSUME IInv, NEW g \in DOMAIN participations, participations[g].state = "active",
         NEW why \in Reasons, Suspend(g, why)
  PROVE  Suspends(now)
<1>0. Columns /\ Indices /\ RowTypes
  BY ColumnTypes DEF IInv
<1>1. attempt.state = "active" /\ g = Latest
  BY DEF IInv, Generations
<1>2. now \in Int /\ attempt.updatedAt <= now
  BY <1>0, <1>1 DEF Columns, IInv, Clocks
<1>3. Moves("suspended", now) /\ attempt'.submittedAt = attempt.submittedAt
  <2>1. attempt \in AttemptRow /\ "suspended" \in Unresolved \cup {"none", "submitted"}
    BY <1>0 DEF RowTypes, Unresolved
  <2>2. attempt' = Moved(attempt, "suspended", now)
    BY DEF Suspend, Moved
  <2>3. QED
    <3>1. /\ attempt' \in AttemptRow /\ attempt'.state = "suspended"
          /\ attempt'.updatedAt = now /\ attempt'.revision = attempt.revision + 1
          /\ attempt'.createdAt = attempt.createdAt
          /\ attempt'.submittedAt = attempt.submittedAt
      BY <1>2, <2>1, <2>2, MovedFacts, SMTT(30), SMTT(20)
    <3>2. QED
      BY <1>2, <3>1 DEF Moves
<1>4. /\ Replaces(Latest)
      /\ EndsAt(participations[Latest], participations'[Latest], now)
  <2> DEFINE q == EndParticipation(participations[g], why, now)
  <2>1. participations' = [participations EXCEPT ![g] = q]
    BY DEF Suspend
  <2>2. /\ participations[g].startedAt <= now /\ participations[g].updatedAt <= now
        /\ participations[g] \in Participation
    BY <1>0 DEF Columns, IInv, Clocks
  <2>3. EndsAt(participations[g], q, now)
    BY <1>2, <2>2, EndParticipationFacts
  <2> HIDE DEF q
  <2>4. q \in Participation
    BY <2>3 DEF EndsAt
  <2>5. QED
    BY <1>0, <1>1, <2>1, <2>3, <2>4, RowReplaced, SMTT(30), SMTT(20) DEF Replaces, RowTypes
<1>5. Closes
  <2>1. connections' = CloseOpen(why, now)
    BY DEF Suspend
  <2>2. ASSUME NEW c \in DOMAIN connections, connections[c].state = "open"
        PROVE  /\ connections'[c] = Close(connections[c], why, now)
               /\ connections[c].openedAt <= now
    BY <2>1, <2>2 DEF CloseOpen, OpenConnections, IInv, Clocks
  <2>3. ASSUME NEW c \in DOMAIN connections, connections[c].state # "open"
        PROVE  connections'[c] = connections[c]
    BY <2>1, <2>3 DEF CloseOpen, OpenConnections
  <2>4. ASSUME NEW c \in DOMAIN connections
        PROVE  LET a == connections[c]
                   b == connections'[c]
               IN  /\ b \in Connection
                   /\ b.generation = a.generation /\ b.session = a.session
                   /\ b.openedAt = a.openedAt /\ b.state = "closed"
                   /\ a.state = "closed" => b = a
                   /\ a.state = "open" =>
                        \E t \in Int : b.closedAt = {t} /\ a.openedAt <= t
    <3>1. connections[c] \in Connection /\ connections[c].state \in {"open", "closed"}
      BY <1>0 DEF Columns
    <3>2. CASE connections[c].state = "open"
      BY <1>2, <2>2, <3>1, <3>2, CloseFacts, SMTT(30), SMTT(20)
    <3>3. CASE connections[c].state = "closed"
      BY <2>3, <3>1, <3>3
    <3>4. QED
      BY <3>1, <3>2, <3>3
  <2>5. connections' = [c \in DOMAIN connections |-> connections'[c]]
    BY <2>1 DEF CloseOpen
  <2>6. /\ connections' \in Seq(Connection) /\ Len(connections') = Len(connections)
        /\ DOMAIN connections' = DOMAIN connections
    BY <1>0, <2>4, <2>5, RowsMapped DEF RowTypes
  <2>7. QED
    BY <2>4, <2>6 DEF Closes
<1>6. /\ suspensions' \in Seq(Suspension)
      /\ DOMAIN suspensions' = 1 .. Len(suspensions')
      /\ Len(suspensions') = Len(suspensions) + 1
      /\ suspensions'[Len(suspensions')].state = "active"
      /\ suspensions'[Len(suspensions')].startedAt = now
      /\ suspensions'[Len(suspensions')].endedAt = {}
      /\ \A n \in DOMAIN suspensions : suspensions'[n] = suspensions[n]
  <2> DEFINE s == [generation |-> g, revision |-> attempt.revision + 1,
                   state |-> "active", startedAt |-> now, endedAt |-> {}]
  <2>1. g \in Nat /\ attempt.revision + 1 \in Nat
    BY <1>0, <1>1, SMTT(30), SMTT(20) DEF Indices, RowTypes, AttemptRow
  <2>2. s \in Suspension
    BY <1>2, <2>1 DEF Suspension
  <2>3. s.state = "active" /\ s.startedAt = now /\ s.endedAt = {}
    OBVIOUS
  <2>4. suspensions' = Append(suspensions, s)
    BY DEF Suspend
  <2> HIDE DEF s
  <2>5. QED
    BY <1>0, <2>2, <2>3, <2>4, RowAppended, SMTT(30), SMTT(20) DEF RowTypes
<1>7. UNCHANGED <<now, sitting, connecting, prepared, submissions>>
  BY DEF Suspend
<1>8. QED
  BY <1>1, <1>3, <1>4, <1>5, <1>6, <1>7 DEF Suspends


\* The revocation trigger suspends the Attempt at its fence.
LEMMA FenceSuspends ==
  ASSUME IInv, NEW g \in ActiveGenerations, NEW at \in Int, FenceAttempt(g, at),
         UNCHANGED <<now, sitting, connecting, prepared>>
  PROVE  \E fence : Suspends(fence)
<1> DEFINE p == participations[g]
           fence == Max({at, p.startedAt, attempt.updatedAt})
<1>0. Columns /\ Indices /\ RowTypes
  BY ColumnTypes DEF IInv
<1>1. /\ attempt.state = "active" /\ g = Latest /\ g \in DOMAIN participations
      /\ p.state = "active"
  BY DEF IInv, Generations, ActiveGenerations
<1>2. fence \in Int /\ p.startedAt <= fence /\ attempt.updatedAt <= fence
  <2>1. p.startedAt \in Int /\ attempt.updatedAt \in Int
    BY <1>0, <1>1 DEF Columns
  <2>2. QED
    BY <2>1, MaxOfThree
<1>3. Moves("suspended", fence) /\ attempt'.submittedAt = attempt.submittedAt
  <2>1. attempt \in AttemptRow /\ "suspended" \in Unresolved \cup {"none", "submitted"}
    BY <1>0 DEF RowTypes, Unresolved
  <2>2. attempt' = Moved(attempt, "suspended", fence)
    BY DEF FenceAttempt, Moved
  <2> HIDE DEF fence
  <2>3. /\ attempt' \in AttemptRow /\ attempt'.state = "suspended"
        /\ attempt'.updatedAt = fence /\ attempt'.revision = attempt.revision + 1
        /\ attempt'.createdAt = attempt.createdAt
        /\ attempt'.submittedAt = attempt.submittedAt
    BY <1>2, <2>1, <2>2, MovedFacts, SMTT(30), SMTT(20)
  <2>4. QED
    BY <1>2, <2>3 DEF Moves
<1>4. /\ Replaces(Latest)
      /\ EndsAt(participations[Latest], participations'[Latest], fence)
  <2> DEFINE updated == Max({fence, p.updatedAt})
             q == [EndParticipation(p, "policy_suspended", fence) EXCEPT !.updatedAt = updated]
  <2>1. participations' = [participations EXCEPT ![g] = q]
    BY DEF FenceAttempt
  <2> HIDE DEF fence
  <2>2. p \in Participation /\ p.updatedAt \in Int
    BY <1>0, <1>1 DEF Columns
  <2>3. updated \in Int /\ p.updatedAt <= updated /\ fence <= updated
    BY <1>2, <2>2, MaxOfTwo, SMTT(30), SMTT(20)
  <2>4. EndsAt(p, q, fence)
    <3>1. "policy_suspended" \in Reasons
      BY DEF Reasons
    <3> HIDE DEF updated
    <3>2. QED
      BY <1>2, <2>2, <2>3, <3>1, EndParticipationLateFacts
  <2> HIDE DEF q
  <2>5. q \in Participation
    BY <2>4 DEF EndsAt
  <2>6. QED
    BY <1>0, <1>1, <2>1, <2>4, <2>5, RowReplaced, SMTT(30), SMTT(20) DEF Replaces, RowTypes
<1>5. Closes
  <2> DEFINE end(c) == Max({fence, connections[c].openedAt})
  <2>1. connections' = [c \in DOMAIN connections |->
                            IF c \in OpenConnections /\ connections[c].generation = g
                            THEN Close(connections[c], "policy_suspended", end(c))
                            ELSE connections[c]]
    BY DEF FenceAttempt
  <2> HIDE DEF fence
  <2>2. ASSUME NEW c \in DOMAIN connections
        PROVE  end(c) \in Int /\ connections[c].openedAt <= end(c)
    <3>1. connections[c].openedAt \in Int
      BY <1>0 DEF Columns
    <3>2. QED
      BY <1>2, <3>1, MaxOfTwo, SMTT(30), SMTT(20)
  <2> HIDE DEF end
  <2>3. ASSUME NEW c \in DOMAIN connections, connections[c].state = "open"
        PROVE  connections'[c] = Close(connections[c], "policy_suspended", end(c))
    <3>1. connections[c].generation = g
      BY <1>1, <2>3 DEF IInv, Generations
    <3>2. QED
      BY <2>1, <2>3, <3>1 DEF OpenConnections
  <2>4. ASSUME NEW c \in DOMAIN connections, connections[c].state # "open"
        PROVE  connections'[c] = connections[c]
    BY <2>1, <2>4 DEF OpenConnections
  <2>5. ASSUME NEW c \in DOMAIN connections
        PROVE  LET a == connections[c]
                   b == connections'[c]
               IN  /\ b \in Connection
                   /\ b.generation = a.generation /\ b.session = a.session
                   /\ b.openedAt = a.openedAt /\ b.state = "closed"
                   /\ a.state = "closed" => b = a
                   /\ a.state = "open" =>
                        \E t \in Int : b.closedAt = {t} /\ a.openedAt <= t
    <3>1. connections[c] \in Connection /\ connections[c].state \in {"open", "closed"}
      BY <1>0 DEF Columns
    <3>2. "policy_suspended" \in Reasons
      BY DEF Reasons
    <3>3. CASE connections[c].state = "open"
      BY <2>2, <2>3, <3>1, <3>2, <3>3, CloseFacts, SMTT(30), SMTT(20)
    <3>4. CASE connections[c].state = "closed"
      BY <2>4, <3>1, <3>4
    <3>5. QED
      BY <3>1, <3>3, <3>4
  <2>6. connections' = [c \in DOMAIN connections |-> connections'[c]]
    BY <2>1
  <2>7. /\ connections' \in Seq(Connection) /\ Len(connections') = Len(connections)
        /\ DOMAIN connections' = DOMAIN connections
    BY <1>0, <2>5, <2>6, RowsMapped DEF RowTypes
  <2>8. QED
    BY <2>5, <2>7 DEF Closes
<1>6. /\ suspensions' \in Seq(Suspension)
      /\ DOMAIN suspensions' = 1 .. Len(suspensions')
      /\ Len(suspensions') = Len(suspensions) + 1
      /\ suspensions'[Len(suspensions')].state = "active"
      /\ suspensions'[Len(suspensions')].startedAt = fence
      /\ suspensions'[Len(suspensions')].endedAt = {}
      /\ \A n \in DOMAIN suspensions : suspensions'[n] = suspensions[n]
  <2> DEFINE s == [generation |-> g, revision |-> attempt.revision + 1,
                   state |-> "active", startedAt |-> fence, endedAt |-> {}]
  <2>1. suspensions' = Append(suspensions, s)
    BY DEF FenceAttempt
  <2> HIDE DEF fence
  <2>2. g \in Nat /\ attempt.revision + 1 \in Nat
    BY <1>0, <1>1, SMTT(30), SMTT(20) DEF Indices, RowTypes, AttemptRow
  <2>3. s \in Suspension
    BY <1>2, <2>2 DEF Suspension
  <2>4. s.state = "active" /\ s.startedAt = fence /\ s.endedAt = {}
    OBVIOUS
  <2> HIDE DEF s
  <2>5. QED
    BY <1>0, <2>1, <2>3, <2>4, RowAppended, SMTT(30), SMTT(20) DEF RowTypes
<1>7. UNCHANGED submissions
  BY DEF FenceAttempt
<1> HIDE DEF fence
<1>8. Suspends(fence)
  BY <1>1, <1>3, <1>4, <1>5, <1>6, <1>7 DEF Suspends
<1>9. QED
  BY <1>8
\* The Attempt's row after a seal.
Submitted(a, at, updated) ==
    [a EXCEPT !.state = "submitted", !.submittedAt = {at}, !.updatedAt = updated,
              !.revision = @ + 1]

\* A submitted Attempt row has its submission time and keeps its creation.
LEMMA SubmittedFacts ==
  ASSUME NEW a \in AttemptRow, NEW at \in Int, NEW updated \in Int
  PROVE  LET b == Submitted(a, at, updated)
         IN  /\ b \in AttemptRow /\ b.state = "submitted" /\ b.updatedAt = updated
             /\ b.revision = a.revision + 1 /\ b.createdAt = a.createdAt
             /\ b.submittedAt = {at}
<1>1. a.revision + 1 \in Nat
  BY SMTT(30), SMTT(20) DEF AttemptRow
<1>2. QED
  BY <1>1 DEF AttemptRow, Submitted

\* SealAttempt seals a target that is still the Attempt's current one.
LEMMA SealAttemptSeals ==
  ASSUME IInv, NEW t \in SealTarget, NEW kind \in SealKinds, NEW why \in Reasons,
         NEW updated \in Int, SealAttempt(t, kind, why, updated),
         attempt.state \in Unresolved, t.generation = Latest, t.connection = Newest,
         attempt.updatedAt <= updated, t.at <= updated, attempt.createdAt <= t.at,
         connections[Newest].openedAt <= t.at,
         Replaces(Latest),
         IF participations[Latest].state = "active"
         THEN EndsAt(participations[Latest], participations'[Latest], t.at)
         ELSE participations'[Latest] = participations[Latest]
  PROVE  IInv' /\ Advances
<1>0. Columns /\ Indices /\ RowTypes
  BY ColumnTypes DEF IInv
<1>1. t.at \in Int /\ Newest \in DOMAIN connections
  BY LatestConnectionIsNewest DEF SealTarget, IInv, Unresolved
<1>2. Moves("submitted", updated) /\ attempt'.submittedAt = {t.at}
  <2>1. attempt' = Submitted(attempt, t.at, updated)
    BY DEF SealAttempt, Submitted
  <2>2. /\ attempt' \in AttemptRow /\ attempt'.state = "submitted"
        /\ attempt'.updatedAt = updated /\ attempt'.revision = attempt.revision + 1
        /\ attempt'.createdAt = attempt.createdAt /\ attempt'.submittedAt = {t.at}
    <3>1. attempt \in AttemptRow
      BY <1>0 DEF RowTypes
    <3>2. QED
      BY <1>1, <2>1, <3>1, SubmittedFacts, SMTT(30), SMTT(20)
  <2>3. QED
    BY <2>2 DEF Moves
<1>3. Closes
  <2> DEFINE a == connections[Newest]
             b == IF a.state = "open" THEN Close(a, why, t.at) ELSE a
  <2>1. connections' = [connections EXCEPT ![Newest] = b]
    BY DEF SealAttempt
  <2>2. a \in Connection /\ a.state \in {"open", "closed"}
    BY <1>0, <1>1 DEF Columns
  <2>3. /\ b \in Connection /\ b.generation = a.generation /\ b.session = a.session
        /\ b.openedAt = a.openedAt /\ b.state = "closed"
        /\ a.state = "closed" => b = a
        /\ a.state = "open" => \E u \in Int : b.closedAt = {u} /\ a.openedAt <= u
    <3>1. CASE a.state = "open"
      BY <1>1, <2>2, <3>1, CloseFacts, ZenonT(30)
    <3>2. CASE a.state = "closed"
      BY <2>2, <3>2
    <3>3. QED
      BY <2>2, <3>1, <3>2
  <2> HIDE DEF b
  <2>4. /\ connections' \in Seq(Connection) /\ Len(connections') = Len(connections)
        /\ DOMAIN connections' = DOMAIN connections /\ connections'[Newest] = b
        /\ \A c \in DOMAIN connections : c # Newest => connections'[c] = connections[c]
    BY <1>0, <1>1, <2>1, <2>3, RowReplaced, SMTT(30), SMTT(20) DEF RowTypes
  <2>5. ASSUME NEW c \in DOMAIN connections, c # Newest
        PROVE  connections[c].state = "closed" /\ connections'[c] = connections[c]
    BY <1>0, <2>4, <2>5 DEF IInv, Generations, Columns
  <2>6. QED
    BY <2>3, <2>4, <2>5 DEF Closes
<1>4. \E s : /\ submissions' = submissions \cup {s} /\ s.submittedAt = t.at
             /\ s.generation = t.generation /\ s.connection = t.connection
  <2> DEFINE s == [provenance |-> kind, generation |-> t.generation,
                   connection |-> t.connection, submittedAt |-> t.at]
  <2>1. submissions' = submissions \cup {s}
    BY DEF SealAttempt
  <2>2. s.submittedAt = t.at /\ s.generation = t.generation /\ s.connection = t.connection
    OBVIOUS
  <2> HIDE DEF s
  <2>3. QED
    BY <2>1, <2>2
<1>5. /\ prepared' \in [SealKinds -> SUBSET SealTarget]
      /\ \A k \in SealKinds : prepared'[k] \subseteq prepared[k]
  BY <1>0 DEF SealAttempt, RowTypes
<1>6. UNCHANGED <<now, sitting, sessions, connecting, suspensions>>
  BY DEF SealAttempt
<1>7. Seals(t, updated)
  BY <1>2, <1>3, <1>4, <1>5, <1>6 DEF Seals
<1>8. QED
  BY <1>7, SealsKeeps

\* The candidate's own seal.
LEMMA SealKeeps ==
  ASSUME IInv, Seal
  PROVE  IInv' /\ Advances
<1>0. Columns /\ Indices /\ RowTypes
  BY ColumnTypes DEF IInv
<1>1. PICK t \in Prepared("candidate") :
        LET p == participations[t.generation]
        IN  /\ MaySubmit(t.connection)
            /\ t.at <= now /\ t.at >= p.startedAt
            /\ t.at >= connections[t.connection].openedAt
            /\ participations' = [participations EXCEPT ![t.generation] =
                    [EndParticipation(p, "submitted", t.at)
                        EXCEPT !.updatedAt = Max({p.updatedAt, t.at})]]
            /\ SealAttempt(t, "candidate", "submitted", Max({attempt.updatedAt, t.at}))
  BY DEF Seal
<1>2. "candidate" \in SealKinds /\ t \in SealTarget /\ t.at \in Int
  BY <1>0, <1>1, SMTT(30), SMTT(20) DEF Prepared, RowTypes, SealTarget
<1>3. /\ t.connection \in DOMAIN connections
      /\ t.generation = connections[t.connection].generation
      /\ connections[t.connection].state = "open" /\ attempt.state = "active"
  BY <1>1 DEF IInv, Preparations, MaySubmit
<1>4. /\ t.connection = Newest /\ t.generation = Latest
      /\ Latest \in DOMAIN participations
  BY <1>3 DEF IInv, Generations
<1> DEFINE p == participations[Latest]
           updated == Max({attempt.updatedAt, t.at})
           late == Max({p.updatedAt, t.at})
           q == [EndParticipation(p, "submitted", t.at) EXCEPT !.updatedAt = late]
<1>5. /\ p \in Participation /\ p.updatedAt \in Int /\ p.startedAt \in Int
      /\ attempt.updatedAt \in Int /\ attempt.createdAt \in Int
      /\ p.state = "active" /\ attempt.createdAt <= p.startedAt
  BY <1>0, <1>3, <1>4 DEF Columns, IInv, Clocks, Generations
<1>6. /\ updated \in Int /\ attempt.updatedAt <= updated /\ t.at <= updated
      /\ late \in Int /\ p.updatedAt <= late /\ t.at <= late
  BY <1>2, <1>5, MaxOfTwo, SMTT(30), SMTT(20)
<1>7. /\ participations' = [participations EXCEPT ![Latest] = q]
      /\ SealAttempt(t, "candidate", "submitted", updated)
      /\ p.startedAt <= t.at /\ connections[Newest].openedAt <= t.at
  BY <1>1, <1>4, <1>5 DEF IInv
<1> HIDE DEF updated, late
<1>8. EndsAt(p, q, t.at)
  <2>1. "submitted" \in Reasons
    BY DEF Reasons
  <2>2. QED
    BY <1>2, <1>5, <1>6, <1>7, <2>1, EndParticipationLateFacts
<1> HIDE DEF q
<1>9. Replaces(Latest) /\ participations'[Latest] = q
  <2>1. q \in Participation
    BY <1>8 DEF EndsAt
  <2>2. QED
    BY <1>0, <1>4, <1>7, <2>1, RowReplaced, SMTT(30), SMTT(20) DEF Replaces, RowTypes
<1>10. attempt.state \in Unresolved /\ attempt.createdAt <= t.at /\ "submitted" \in Reasons
  BY <1>2, <1>3, <1>5, <1>7 DEF Unresolved, Reasons
<1>11. QED
  BY <1>2, <1>4, <1>5, <1>6, <1>7, <1>8, <1>9, <1>10, SealAttemptSeals
\* The seals by a manager and by the closing Sitting.
LEMMA SealUnfinishedKeeps ==
  ASSUME IInv, NEW t \in SealTarget, NEW kind \in SealKinds, NEW why \in Reasons,
         t.generation = Latest, t.connection = LatestConnection,
         SealUnfinished(t, kind, why)
  PROVE  IInv' /\ Advances
<1>0. Columns /\ Indices /\ RowTypes
  BY ColumnTypes DEF IInv
<1>1. /\ attempt.state \in Unresolved /\ t.connection = Newest
      /\ Newest \in DOMAIN connections /\ Latest \in DOMAIN participations
  BY LatestConnectionIsNewest DEF SealUnfinished, IInv, Unresolved
<1> DEFINE p == participations[Latest]
           q == IF p.state = "active" THEN EndParticipation(p, why, t.at) ELSE p
<1>2. /\ attempt.updatedAt <= t.at /\ p.updatedAt <= t.at
      /\ connections[Newest].openedAt <= t.at /\ t.at \in Int
      /\ participations' = [participations EXCEPT ![Latest] = q]
      /\ SealAttempt(t, kind, why, t.at)
  BY <1>0, <1>1 DEF SealUnfinished, SealTarget, Columns
<1>3. /\ p \in Participation /\ p.updatedAt \in Int /\ p.startedAt \in Int
      /\ attempt.updatedAt \in Int /\ attempt.createdAt \in Int
      /\ p.startedAt <= p.updatedAt /\ attempt.createdAt <= attempt.updatedAt
  BY <1>0, <1>1 DEF Columns, IInv, RowsRevalidate
<1>4. p.startedAt <= t.at /\ attempt.createdAt <= t.at /\ t.at <= t.at
  BY <1>2, <1>3
<1>5. EndsAt(p, EndParticipation(p, why, t.at), t.at)
  BY <1>2, <1>3, <1>4, EndParticipationFacts
<1>6. q \in Participation
  BY <1>3, <1>5 DEF EndsAt
<1>7. IF p.state = "active" THEN EndsAt(p, q, t.at) ELSE q = p
  BY <1>5
<1> HIDE DEF q
<1>8. Replaces(Latest) /\ participations'[Latest] = q
  BY <1>0, <1>1, <1>2, <1>6, RowReplaced, SMTT(30), SMTT(20) DEF Replaces, RowTypes
<1>9. QED
  BY <1>1, <1>2, <1>4, <1>7, <1>8, SealAttemptSeals

\* A first admission and a reactivation start the next generation.
LEMMA AdmissionKeeps ==
  ASSUME IInv, FirstAdmission \/ Reactivate
  PROVE  IInv' /\ Advances
<1>0. Columns /\ Indices /\ RowTypes
  BY ColumnTypes DEF IInv
<1>1. CASE FirstAdmission
  <2>1. PICK k \in connecting :
          LET p == NewParticipation(k.session, k.at, BoundedLease(k.at))
          IN  /\ attempt.state = "none"
              /\ InsertableParticipation(p)
              /\ attempt' = [state |-> "active", revision |-> 1, createdAt |-> k.at,
                             updatedAt |-> k.at, submittedAt |-> {}]
              /\ participations' = <<p>>
              /\ connections' = <<NewConnection(1, k.session, k.at)>>
              /\ sessions' = RevokeOthers(k.session)
              /\ connecting' = {}
              /\ UNCHANGED <<now, sitting, suspensions, submissions, prepared>>
    BY <1>1 DEF FirstAdmission
  <2>2. /\ participations = <<>> /\ connections = <<>> /\ attempt.revision = 0
        /\ attempt.updatedAt = 0 /\ attempt.submittedAt = {} /\ k.at \in Nat
    BY <1>0, <2>1 DEF IInv, Generations, OneSubmission, RowTypes
  <2>3. Latest = 0 /\ \A x : <<x>> = Append(<<>>, x)
    BY <2>2, SMTT(30), SMTT(20) DEF Latest
  <2>4. Max({attempt.updatedAt, k.at}) = k.at
    BY <2>2, MaxOfTwo, SMTT(30), SMTT(20)
  <2>5. /\ attempt' \in AttemptRow /\ attempt'.state = "active"
        /\ attempt'.revision = attempt.revision + 1 /\ attempt'.createdAt = k.at
        /\ attempt'.updatedAt = k.at /\ attempt'.submittedAt = attempt.submittedAt
    BY <2>1, <2>2, SMTT(30), SMTT(20) DEF AttemptRow, Unresolved
  <2>a. Latest + 1 = 1
    BY <2>3
  <2>b. /\ participations' =
             Append(participations, NewParticipation(k.session, k.at, BoundedLease(k.at)))
        /\ connections' = Append(connections, NewConnection(Latest + 1, k.session, k.at))
    BY <2>1, <2>2, <2>3, <2>a
  <2>6. Admits(k)
    BY <2>1, <2>4, <2>5, <2>b DEF Admits
  <2>7. QED
    BY <2>6, AdmitsKeeps
<1>2. CASE Reactivate
  <2>1. PICK k \in connecting :
          LET p == NewParticipation(k.session, k.at, BoundedLease(k.at))
          IN  /\ attempt.state = "ready"
              /\ InsertableParticipation(p)
              /\ participations' = Append(participations, p)
              /\ connections' =
                  Append(connections, NewConnection(Latest + 1, k.session, k.at))
              /\ attempt' = Moved(attempt, "active", Max({attempt.updatedAt, k.at}))
              /\ sessions' = RevokeOthers(k.session)
              /\ connecting' = {}
              /\ UNCHANGED <<now, sitting, suspensions, submissions, prepared>>
    BY <1>2 DEF Reactivate, Moved
  <2>2. attempt.updatedAt \in Int /\ k.at \in Int
    BY <1>0, SMTT(30), SMTT(20) DEF Columns, RowTypes
  <2> DEFINE updated == Max({attempt.updatedAt, k.at})
  <2>3. updated \in Int
    BY <2>2, MaxOfTwo
  <2>4. attempt \in AttemptRow /\ "active" \in Unresolved \cup {"none", "submitted"}
    BY <1>0 DEF RowTypes, Unresolved
  <2>5. /\ attempt' \in AttemptRow /\ attempt'.state = "active"
        /\ attempt'.updatedAt = updated /\ attempt'.revision = attempt.revision + 1
        /\ attempt'.createdAt = attempt.createdAt
        /\ attempt'.submittedAt = attempt.submittedAt
    BY <2>1, <2>3, <2>4, MovedFacts, SMTT(30), SMTT(20)
  <2>6. Admits(k)
    BY <2>1, <2>5 DEF Admits
  <2>7. QED
    BY <2>6, AdmitsKeeps
<1>3. QED
  BY <1>1, <1>2
\* A reconnect keeps the open Connection or opens one on the generation.
LEMMA ReconnectKeeps ==
  ASSUME IInv, Reconnect
  PROVE  IInv' /\ Advances
<1>0. Columns /\ Indices /\ RowTypes
  BY ColumnTypes DEF IInv
<1>1. PICK k \in connecting, g \in ActiveGenerations :
        /\ attempt.state = "active" /\ participations[g].session = k.session
        /\ IF OpenConnections # {} THEN UNCHANGED connections
           ELSE connections' = Append(connections, NewConnection(g, k.session, k.at))
        /\ connecting' = {}
        /\ UNCHANGED <<now, sitting, sessions, prepared, attempt,
                       participations, suspensions, submissions>>
  BY DEF Reconnect
<1>2. /\ k.session \in Sessions /\ k.at \in Nat /\ k.at \in Int /\ k.at <= now
      /\ sitting.state \notin {"closing", "closed"}
  BY <1>0, SMTT(30), SMTT(20) DEF IInv, RowTypes, Admission
<1>3. g = Latest /\ Latest \in DOMAIN participations
  BY DEF IInv, Generations, ActiveGenerations
<1>4. /\ now' = now /\ sitting' = sitting /\ sessions' = sessions /\ connecting' = {}
      /\ prepared' = prepared /\ attempt' = attempt /\ submissions' = submissions
      /\ participations' = participations /\ suspensions' = suspensions
      /\ Latest' = Latest
  BY <1>1 DEF Latest
<1>5. Admission'
  BY <1>4 DEF IInv, Admission, SoleSession
<1>6. Prepared("candidate")' = Prepared("candidate") /\ Prepared("sitting")' = {}
  BY <1>2, <1>4 DEF Prepared, IInv, Preparations
<1>7. CASE OpenConnections # {}
  <2>1. connections' = connections
    BY <1>1, <1>7
  <2>2. RowTypes' /\ UNCHANGED tables /\ now <= now' /\ sitting.end <= sitting'.end
    BY <1>0, <1>4, <2>1, SMTT(30), SMTT(20) DEF RowTypes, tables, Columns
  <2>3. Preparations'
    BY <1>6, <2>1 DEF IInv, Preparations
  <2>4. QED
    BY <1>5, <2>2, <2>3, QuietStep DEF IInv
<1>8. CASE OpenConnections = {}
  <2> DEFINE c == NewConnection(Latest, k.session, k.at)
  <2>1. connections' = Append(connections, c)
    BY <1>1, <1>3, <1>8
  <2>2. c \in Connection
    BY <1>0, <1>2, NewRowFacts DEF Indices
  <2>3. /\ c.generation = Latest /\ c.session = k.session /\ c.openedAt = k.at
        /\ c.closedAt = {}
    BY DEF NewConnection
  <2> HIDE DEF c
  <2>4. /\ connections' \in Seq(Connection) /\ Newest' = Newest + 1
        /\ DOMAIN connections' = 1 .. (Newest + 1)
        /\ connections'[Newest + 1] = c
        /\ \A d \in DOMAIN connections : connections'[d] = connections[d]
    BY <1>0, <2>1, <2>2, RowAppended, SMTT(30), SMTT(20) DEF Newest, RowTypes
  <2>5. /\ \A d \in DOMAIN connections' : d \in DOMAIN connections \/ d = Newest + 1
        /\ DOMAIN connections \subseteq DOMAIN connections' /\ Newest + 1 >= 1
    BY <1>0, <2>4 DEF Indices
  <2>6. RowTypes'
    BY <1>0, <1>4, <2>4 DEF RowTypes
  <2>7. Generations'
    <3>1. ASSUME NEW d \in DOMAIN connections'
          PROVE  /\ connections'[d].generation \in DOMAIN participations
                 /\ connections'[d].state = "open" =>
                      /\ d = Newest + 1 /\ connections'[d].generation = Latest
                      /\ connections'[d].session = participations[Latest].session
      <4>1. CASE d = Newest + 1
        BY <1>1, <1>3, <2>3, <2>4, <4>1
      <4>2. CASE d \in DOMAIN connections
        BY <1>8, <2>4, <4>2 DEF OpenConnections, IInv, Generations
      <4>3. QED
        BY <2>5, <4>1, <4>2
    <3>2. QED
      BY <1>1, <1>4, <2>3, <2>4, <2>5, <3>1, SMTT(30), SMTT(20) DEF IInv, Generations
  <2>8. Preparations'
    BY <1>6, <2>4, <2>5 DEF IInv, Preparations
  <2>9. Suspended' /\ OneSubmission'
    BY <1>1, <1>4 DEF IInv, Suspended, OneSubmission
  <2>10. Clocks'
    <3>1. \A d \in DOMAIN connections' : connections'[d].openedAt <= now
      BY <1>2, <2>3, <2>4, <2>5 DEF IInv, Clocks
    <3>2. QED
      BY <1>4, <3>1 DEF IInv, Clocks
  <2>11. RowsRevalidate'
    <3>1. ASSUME NEW d \in DOMAIN connections', NEW t \in connections'[d].closedAt
          PROVE  connections'[d].openedAt <= t
      BY <2>3, <2>4, <2>5 DEF IInv, RowsRevalidate
    <3>2. QED
      BY <1>4, <3>1 DEF IInv, RowsRevalidate
  <2>12. Advances
    <3>1. /\ attempt.updatedAt <= attempt.updatedAt
          /\ \A h \in DOMAIN participations :
                /\ participations[h].sequence <= participations[h].sequence
                /\ participations[h].lease <= participations[h].lease
                /\ participations[h].updatedAt <= participations[h].updatedAt
      BY <1>0 DEF Columns
    <3>2. QED
      BY <1>4, <2>4, <3>1 DEF Advances
  <2>13. QED
    BY <1>5, <2>6, <2>7, <2>8, <2>9, <2>10, <2>11, <2>12 DEF IInv
<1>9. QED
  BY <1>7, <1>8

\* A transport that is gone closes its Connection and nothing else.
LEMMA CloseConnectionKeeps ==
  ASSUME IInv, NEW c \in DOMAIN connections, CloseConnection(c)
  PROVE  IInv' /\ Advances
<1> DEFINE b == Close(connections[c], "transport_closed", now)
<1>0. Columns /\ Indices /\ RowTypes
  BY ColumnTypes DEF IInv
<1>1. /\ now' = now /\ sitting' = sitting /\ sessions' = sessions
      /\ connecting' = connecting /\ prepared' = prepared /\ attempt' = attempt
      /\ participations' = participations /\ suspensions' = suspensions
      /\ submissions' = submissions /\ Latest' = Latest
      /\ connections[c].state = "open" /\ connections[c].openedAt <= now
      /\ connections' = [connections EXCEPT ![c] = b]
  BY DEF CloseConnection, Latest
<1>2. /\ b \in Connection /\ b.generation = connections[c].generation
      /\ b.session = connections[c].session /\ b.openedAt = connections[c].openedAt
      /\ b.state = "closed" /\ b.closedAt = {now}
  <2>1. connections[c] \in Connection /\ now \in Int /\ "transport_closed" \in Reasons
    BY <1>0 DEF Columns, Reasons
  <2>2. QED
    BY <2>1, CloseFacts
<1> HIDE DEF b
<1>3. /\ connections' \in Seq(Connection) /\ Newest' = Newest
      /\ DOMAIN connections' = DOMAIN connections /\ connections'[c] = b
      /\ \A d \in DOMAIN connections : d # c => connections'[d] = connections[d]
  BY <1>0, <1>1, <1>2, RowReplaced, SMTT(30), SMTT(20) DEF RowTypes, Newest
<1>4. RowTypes'
  BY <1>0, <1>1, <1>3 DEF RowTypes
<1>5. \A d \in DOMAIN connections :
        /\ connections'[d].generation = connections[d].generation
        /\ connections'[d].session = connections[d].session
        /\ connections'[d].openedAt = connections[d].openedAt
        /\ connections'[d].state = "open" => connections[d].state = "open"
        /\ connections[d].state = "closed" => connections'[d] = connections[d]
  BY <1>1, <1>2, <1>3
<1>6. Generations'
  <2>1. attempt.state # "none" => Newest \in DOMAIN connections
    BY LatestConnectionIsNewest DEF IInv
  <2>2. attempt.state # "none"
    BY <1>1 DEF IInv, Generations
  <2>3. QED
    BY <1>1, <1>3, <1>5, <2>1, <2>2, SMTT(30), SMTT(20) DEF IInv, Generations
<1>7. Admission' /\ Suspended' /\ OneSubmission'
  <2>1. OneSubmission'
    BY <1>1 DEF IInv, OneSubmission, Generations
  <2>2. Admission' /\ Suspended'
    BY <1>1 DEF IInv, Admission, SoleSession, Suspended
  <2>3. QED
    BY <2>1, <2>2
<1>8. Preparations'
  BY <1>1, <1>3, <1>5, SMTT(30), SMTT(20) DEF IInv, Preparations, Prepared
<1>9. Clocks'
  BY <1>1, <1>3, <1>5 DEF IInv, Clocks
<1>10. RowsRevalidate'
  <2>1. ASSUME NEW d \in DOMAIN connections, NEW t \in connections'[d].closedAt
        PROVE  connections'[d].openedAt <= t
    BY <1>1, <1>2, <1>3 DEF IInv, RowsRevalidate
  <2>2. QED
    BY <1>1, <1>3, <2>1 DEF IInv, RowsRevalidate
<1>11. Advances
  <2>1. /\ attempt.updatedAt <= attempt.updatedAt
        /\ \A h \in DOMAIN participations :
              /\ participations[h].sequence <= participations[h].sequence
              /\ participations[h].lease <= participations[h].lease
              /\ participations[h].updatedAt <= participations[h].updatedAt
    BY <1>0 DEF Columns
  <2>2. QED
    BY <1>1, <1>5, <2>1 DEF Advances
<1>12. QED
  BY <1>4, <1>6, <1>7, <1>8, <1>9, <1>10, <1>11 DEF IInv
\* RenewParticipation writes sequence, updated_at and lease.
RenewedRow(p, n, at, lease) ==
    [p EXCEPT !.sequence = n, !.updatedAt = at, !.lease = lease]

\* A renewal moves the lease of the latest generation, within its bounds.
LEMMA RenewKeeps ==
  ASSUME IInv, NEW c \in DOMAIN connections, NEW n \in 1 .. MaxSequence, Renew(c, n)
  PROVE  IInv' /\ Advances
<1> DEFINE g == connections[c].generation
           p == participations[g]
           q == RenewedRow(p, n, now, BoundedLease(now))
<1>0. Columns /\ Indices /\ RowTypes
  BY ColumnTypes DEF IInv
<1>1. /\ now' = now /\ sitting' = sitting /\ sessions' = sessions
      /\ connecting' = connecting /\ prepared' = prepared /\ attempt' = attempt
      /\ connections' = connections /\ suspensions' = suspensions
      /\ submissions' = submissions /\ Newest' = Newest
      /\ p.state = "active" /\ attempt.state = "active" /\ n > p.sequence
      /\ p.updatedAt <= now /\ now < p.lease
      /\ participations' = [participations EXCEPT ![g] = q]
  BY DEF Renew, Newest, RenewedRow
<1>2. /\ g \in DOMAIN participations /\ g = Latest /\ p = participations[Latest]
      /\ participations' = [participations EXCEPT ![Latest] = q]
  <2>1. /\ g \in DOMAIN participations /\ g = Latest
    BY <1>1 DEF IInv, Generations
  <2>2. QED
    BY <1>1, <2>1
<1>r. Generations /\ Admission /\ Preparations /\ Suspended
      /\ Clocks /\ RowsRevalidate /\ OneSubmission
  BY DEF IInv
<1> HIDE DEF g, p
<1>3. /\ p \in Participation /\ p.startedAt \in Int /\ p.updatedAt \in Int
      /\ p.lease \in Int /\ p.sequence \in Int /\ now \in Int /\ sitting.end \in Int
      /\ n \in Nat /\ p.startedAt <= now /\ p.startedAt <= p.updatedAt
      /\ p.startedAt < p.lease /\ p.lease <= sitting.end
      /\ p.lease <= p.updatedAt + InitialLease /\ InitialLease \in Int
      /\ attempt.createdAt <= p.startedAt
  BY <1>0, <1>2, <1>r, ExamAttemptAssumption, SMTT(30), SMTT(20) DEF Columns, Clocks, RowsRevalidate
<1>4. /\ BoundedLease(now) \in Int /\ p.lease <= BoundedLease(now)
      /\ BoundedLease(now) <= sitting.end /\ BoundedLease(now) <= now + InitialLease
  <2>1. BoundedLease(now) = IF now + InitialLease <= sitting.end
                            THEN now + InitialLease ELSE sitting.end
    BY <1>3, MinOfTwo, SMTT(30), SMTT(20) DEF BoundedLease
  <2>2. QED
    BY <1>1, <1>3, <2>1
<1>5. /\ q \in Participation /\ q.session = p.session /\ q.state = p.state
      /\ q.startedAt = p.startedAt /\ q.endedAt = p.endedAt
      /\ q.sequence = n /\ q.updatedAt = now /\ q.lease = BoundedLease(now)
  BY <1>3, <1>4 DEF RenewedRow, Participation
<1> HIDE DEF q
<1>6. /\ participations' \in Seq(Participation) /\ Latest' = Latest
      /\ DOMAIN participations' = DOMAIN participations /\ participations'[Latest] = q
      /\ \A h \in DOMAIN participations : h # Latest => participations'[h] = participations[h]
  BY <1>0, <1>2, <1>5, RowReplaced, SMTT(30), SMTT(20) DEF RowTypes, Latest
<1>7. RowTypes'
  BY <1>0, <1>1, <1>6 DEF RowTypes
<1>8. p.endedAt = {}
  BY <1>1, <1>2, <1>r DEF RowsRevalidate
<1>9. ASSUME NEW h \in DOMAIN participations
      PROVE  LET a == participations[h]
                 b == participations'[h]
             IN  /\ b.session = a.session /\ b.state = a.state
                 /\ a.state = "ended" => b = a
                 /\ a.sequence <= b.sequence /\ a.lease <= b.lease
                 /\ a.updatedAt <= b.updatedAt
                 /\ attempt.createdAt <= b.startedAt /\ b.startedAt <= now
                 /\ b.state = "active" => b.updatedAt <= now
                 /\ b.lease <= sitting.end /\ b.lease <= b.updatedAt + InitialLease
                 /\ b.startedAt <= b.updatedAt /\ b.startedAt < b.lease
                 /\ \A t \in b.endedAt : b.startedAt <= t /\ t <= b.updatedAt
                 /\ (b.state = "ended") = (b.endedAt # {})
  <2>1. CASE h = Latest
    <3>1. participations[h] = p /\ participations'[h] = q
      BY <1>2, <1>6, <2>1
    <3>2. /\ p.sequence <= q.sequence /\ p.lease <= q.lease /\ p.updatedAt <= q.updatedAt
          /\ q.startedAt <= q.updatedAt /\ q.startedAt < q.lease
          /\ attempt.createdAt <= q.startedAt /\ q.startedAt <= now /\ q.updatedAt <= now
          /\ q.lease <= sitting.end /\ q.lease <= q.updatedAt + InitialLease
      BY <1>1, <1>3, <1>4, <1>5
    <3>3. QED
      BY <1>1, <1>5, <1>8, <3>1, <3>2
  <2>2. CASE h # Latest
    <3>1. participations'[h] = participations[h]
      BY <1>6, <2>2
    <3>2. QED
      BY <1>0, <1>r, <3>1, SMTT(30), SMTT(20) DEF Clocks, RowsRevalidate, Columns
  <2>3. QED
    BY <2>1, <2>2
<1>10. Generations'
  BY <1>1, <1>2, <1>6, <1>9, <1>r, SMTT(30), SMTT(20) DEF Generations
<1>11. Admission' /\ Preparations' /\ Suspended' /\ OneSubmission'
  <2>1. SoleSession'
    BY <1>1, <1>2, <1>6, <1>9, <1>r DEF Admission, SoleSession
  <2>2. Admission'
    BY <1>1, <1>r, <2>1 DEF Admission
  <2>3. Preparations' /\ Suspended' /\ OneSubmission'
    BY <1>1, <1>6, <1>r DEF Preparations, Prepared, Suspended, OneSubmission
  <2>4. QED
    BY <2>2, <2>3
<1>12. Clocks' /\ RowsRevalidate'
  BY <1>1, <1>6, <1>9, <1>r DEF Clocks, RowsRevalidate
<1>13. Advances
  <2>1. attempt.updatedAt <= attempt.updatedAt
    <3>1. attempt.updatedAt \in Int
      BY <1>0 DEF Columns
    <3>2. QED
      BY <3>1
  <2>2. QED
    BY <1>1, <1>9, <2>1 DEF Advances
<1>14. QED
  BY <1>7, <1>10, <1>11, <1>12, <1>13 DEF IInv

\* A re-allow ends the Attempt's Suspension.
ReallowedRow(s, at) == [s EXCEPT !.state = "closed", !.endedAt = {at}]

\* A re-allowed Attempt has no active Suspension and no live transport.
LEMMA ReallowKeeps ==
  ASSUME IInv, NEW n \in DOMAIN suspensions, ReallowAttempt(n)
  PROVE  IInv' /\ Advances
<1> DEFINE s == suspensions[n]
           r == ReallowedRow(s, now)
<1>0. Columns /\ Indices /\ RowTypes
  BY ColumnTypes DEF IInv
<1>1. /\ now' = now /\ sitting' = sitting /\ sessions' = sessions
      /\ connecting' = connecting /\ prepared' = prepared
      /\ participations' = participations /\ connections' = connections
      /\ submissions' = submissions /\ Latest' = Latest /\ Newest' = Newest
      /\ attempt.state = "suspended" /\ s.state = "active" /\ s.startedAt <= now
      /\ attempt' = Moved(attempt, "ready", now)
      /\ suspensions' = [suspensions EXCEPT ![n] = r]
  BY DEF ReallowAttempt, Moved, ReallowedRow, Latest, Newest
<1>2. n = Len(suspensions) /\ attempt.updatedAt <= now
  BY <1>1 DEF IInv, Suspended
<1>3. /\ attempt' \in AttemptRow /\ attempt'.state = "ready"
      /\ attempt'.updatedAt = now /\ attempt'.revision = attempt.revision + 1
      /\ attempt'.createdAt = attempt.createdAt
      /\ attempt'.submittedAt = attempt.submittedAt
  <2>1. /\ attempt \in AttemptRow /\ now \in Int
        /\ "ready" \in Unresolved \cup {"none", "submitted"}
    BY <1>0, SMTT(30), SMTT(20) DEF RowTypes, Unresolved
  <2>2. QED
    BY <1>1, <2>1, MovedFacts, SMTT(30), SMTT(20)
<1>4. /\ r \in Suspension /\ r.state = "closed" /\ r.startedAt = s.startedAt
      /\ r.endedAt = {now}
  <2>1. s \in Suspension /\ now \in Int
    BY <1>0 DEF Columns
  <2> HIDE DEF s
  <2>2. QED
    BY <2>1 DEF ReallowedRow, Suspension
<1> HIDE DEF r
<1>5. /\ suspensions' \in Seq(Suspension) /\ DOMAIN suspensions' = DOMAIN suspensions
      /\ suspensions'[n] = r
      /\ \A m \in DOMAIN suspensions : m # n => suspensions'[m] = suspensions[m]
  BY <1>0, <1>1, <1>4, RowReplaced DEF RowTypes
<1>6. RowTypes'
  BY <1>0, <1>1, <1>3, <1>5 DEF RowTypes
<1>7. Generations' /\ Admission' /\ Preparations' /\ OneSubmission'
  <2>1. Generations'
    BY <1>1, <1>3 DEF IInv, Generations
  <2>2. Admission'
    BY <1>1, <1>3 DEF IInv, Admission, SoleSession
  <2>3. Preparations'
    BY <1>1, <1>3 DEF IInv, Preparations, Prepared
  <2>4. OneSubmission'
    BY <1>1, <1>3 DEF IInv, OneSubmission
  <2>5. QED
    BY <2>1, <2>2, <2>3, <2>4
<1>8. Suspended'
  BY <1>2, <1>4, <1>5 DEF IInv, Suspended
<1>9. Clocks'
  BY <1>0, <1>1, <1>3, SMTT(30), SMTT(20) DEF IInv, Clocks, Columns
<1>10. RowsRevalidate'
  <2>1. ASSUME NEW m \in DOMAIN suspensions, NEW t \in suspensions'[m].endedAt
        PROVE  suspensions'[m].startedAt <= t
    BY <1>1, <1>4, <1>5 DEF IInv, RowsRevalidate
  <2>2. attempt'.createdAt <= attempt'.updatedAt /\ attempt'.submittedAt = {}
    BY <1>1, <1>3 DEF IInv, Clocks, OneSubmission
  <2>3. QED
    BY <1>1, <1>5, <2>1, <2>2 DEF IInv, RowsRevalidate
<1>11. Advances
  <2>1. \A h \in DOMAIN participations :
            /\ participations[h].sequence <= participations[h].sequence
            /\ participations[h].lease <= participations[h].lease
            /\ participations[h].updatedAt <= participations[h].updatedAt
    BY <1>0 DEF Columns
  <2>2. QED
    BY <1>1, <1>2, <1>3, <1>5, <2>1 DEF Advances
<1>12. QED
  BY <1>6, <1>7, <1>8, <1>9, <1>10, <1>11 DEF IInv

----------------------------------------------------------------------------
(* Steps that leave the Attempt's tables alone                             *)

\* A new Session meets no active Attempt and no waiting Connect.
LEMMA IssueKeeps ==
  ASSUME IInv, NEW s \in Sessions, IssueSession(s)
  PROVE  IInv' /\ Advances
<1>1. /\ now' = now /\ sitting' = sitting /\ connecting' = connecting
      /\ prepared' = prepared /\ UNCHANGED tables /\ attempt.state # "active"
      /\ connecting = {} /\ sessions' = [sessions EXCEPT ![s] = "live"]
  BY DEF IssueSession, Unlocked
<1>2. RowTypes' /\ now <= now' /\ sitting.end <= sitting'.end
  BY <1>1, SMTT(30), SMTT(20) DEF IInv, RowTypes, tables
<1>3. Admission' /\ Preparations'
  BY <1>1 DEF IInv, Admission, SoleSession, Preparations, Prepared, tables, Latest, Newest
<1>4. QED
  BY <1>1, <1>2, <1>3, QuietStep DEF IInv

\* A revoked Session leaves no Participation of its own active.
LEMMA RevokeKeeps ==
  ASSUME IInv, NEW s \in Sessions, NEW at \in Int, RevokeSession(s, at)
  PROVE  IInv' /\ Advances
<1> DEFINE fenced == {g \in ActiveGenerations :
                        participations[g].session = s /\ attempt.state = "active"}
<1>1. /\ now' = now /\ sitting' = sitting /\ connecting' = connecting
      /\ prepared' = prepared /\ connecting = {} /\ sessions[s] = "live"
      /\ sessions' = [sessions EXCEPT ![s] = "revoked"]
      /\ IF fenced = {} THEN UNCHANGED tables ELSE \E g \in fenced : FenceAttempt(g, at)
  BY DEF RevokeSession, Unlocked
<1>2. sessions' \in [Sessions -> {"unissued", "live", "revoked"}]
  BY <1>1 DEF IInv, RowTypes
<1>3. CASE fenced = {}
  <2>1. attempt.state # "active"
    <3>1. SUFFICES ASSUME attempt.state = "active" PROVE FALSE
      OBVIOUS
    <3>2. participations[Latest].session = s
      BY <1>1, <3>1 DEF IInv, Admission, SoleSession
    <3>3. Latest \in DOMAIN participations /\ participations[Latest].state = "active"
      BY <3>1, LatestConnectionIsNewest DEF IInv, Generations
    <3>4. QED
      BY <1>3, <3>1, <3>2, <3>3 DEF ActiveGenerations
  <2>2. UNCHANGED tables
    BY <1>1, <1>3
  <2>3. RowTypes' /\ now <= now' /\ sitting.end <= sitting'.end
    BY <1>1, <1>2, <2>2, SMTT(30), SMTT(20) DEF IInv, RowTypes, tables
  <2>4. Admission' /\ Preparations'
    BY <1>1, <2>1, <2>2 DEF IInv, Admission, SoleSession, Preparations, Prepared,
                            tables, Latest, Newest
  <2>5. QED
    BY <2>2, <2>3, <2>4, QuietStep DEF IInv
<1>4. CASE fenced # {}
  <2>1. PICK g \in ActiveGenerations : FenceAttempt(g, at)
    BY <1>1, <1>4
  <2>2. PICK fence : Suspends(fence)
    BY <1>1, <2>1, FenceSuspends
  <2>3. QED
    BY <1>1, <1>2, <2>2, SuspendsKeeps
<1>5. QED
  BY <1>3, <1>4

\* A Connect waits with a Session that is live, or gives up.
LEMMA LockKeeps ==
  ASSUME IInv, (\E s \in Sessions : LockEligibility(s)) \/ AbandonConnect
  PROVE  IInv' /\ Advances
<1>1. /\ now' = now /\ sitting' = sitting /\ sessions' = sessions
      /\ prepared' = prepared /\ UNCHANGED tables
      /\ \/ connecting' = {}
         \/ /\ sitting.state = "open"
            /\ \E s \in Sessions :
                sessions[s] = "live" /\ connecting' = {[session |-> s, at |-> now]}
  BY DEF LockEligibility, AbandonConnect
<1>2. RowTypes' /\ now <= now' /\ sitting.end <= sitting'.end
  BY <1>1, SMTT(30), SMTT(20) DEF IInv, RowTypes, tables
<1>3. now <= now /\ attempt.createdAt <= now /\ attempt' = attempt
  BY <1>1, SMTT(30), SMTT(20) DEF IInv, RowTypes, Clocks, tables
<1>4. Admission'
  <2>1. SoleSession'
    BY <1>1 DEF IInv, Admission, SoleSession, tables, Latest
  <2>2. QED
    BY <1>1, <1>3, <2>1 DEF Admission
<1>5. Preparations'
  BY <1>1 DEF IInv, Preparations, Prepared, tables, Latest, Newest
<1>6. QED
  BY <1>1, <1>2, <1>4, <1>5, QuietStep DEF IInv

\* A seal is prepared.
LEMMA PrepareKeeps ==
  ASSUME IInv, NEW kind, NEW t \in SealTarget, Prepare(kind, t),
         kind = "candidate" =>
            /\ t.connection \in DOMAIN connections
            /\ t.generation = connections[t.connection].generation,
         kind = "sitting" =>
            /\ sitting.state \in {"closing", "closed"} /\ attempt.state # "none"
            /\ t.generation = Latest /\ t.connection = Newest
  PROVE  IInv' /\ Advances
<1>1. /\ now' = now /\ sitting' = sitting /\ sessions' = sessions
      /\ connecting' = connecting /\ UNCHANGED tables /\ kind \in SealKinds
      /\ prepared' = [prepared EXCEPT ![kind] = {t}]
  BY DEF Prepare
<1>2. RowTypes' /\ now <= now' /\ sitting.end <= sitting'.end
  BY <1>1, SMTT(30), SMTT(20) DEF IInv, RowTypes, tables
<1>3. Admission'
  BY <1>1 DEF IInv, Admission, SoleSession, tables, Latest
<1>4. \A k : \A u \in Prepared(k)' : u \in Prepared(k) \/ (k = kind /\ u = t)
  BY <1>1 DEF IInv, RowTypes, Prepared
<1>5. Preparations'
  <2>1. /\ attempt' = attempt /\ connections' = connections
        /\ Latest' = Latest /\ Newest' = Newest
    BY <1>1 DEF tables, Latest, Newest
  <2>2. QED
    BY <1>1, <1>4, <2>1 DEF IInv, Preparations
<1>6. QED
  BY <1>1, <1>2, <1>3, <1>5, QuietStep DEF IInv

\* A target names the newest generation and its newest Connection.
LEMMA TargetFacts ==
  ASSUME IInv, attempt.state # "none", NEW at \in Int
  PROVE  /\ Target(at) \in SealTarget
         /\ Target(at).generation = Latest /\ Target(at).connection = Newest
<1>1. /\ Latest \in Nat /\ Newest \in Nat /\ LatestConnection = Newest
      /\ attempt.revision \in Nat
  BY LatestConnectionIsNewest, ColumnTypes DEF IInv, Indices, RowTypes, AttemptRow
<1>2. QED
  BY <1>1 DEF Target, SealTarget

\* A truncated clock reading is a time.
LEMMA TruncatedIsTime ==
  ASSUME RowTypes
  PROVE  Truncated(now) \in Int
  BY ExamAttemptAssumption, SMTT(30), SMTT(20) DEF Truncated, RowTypes

\* A target prepared outside the transaction is one the tables allow now.
LEMMA PreparationsKeep ==
  ASSUME IInv,
         \/ \E c \in DOMAIN connections : ResolveSealTarget(c)
         \/ PrepareManagerEnd \/ PrepareAutomaticSeal
  PROVE  IInv' /\ Advances
<1>1. Truncated(now) \in Int
  BY TruncatedIsTime DEF IInv
<1> DEFINE T == Target(Truncated(now))
<1>2. CASE \E c \in DOMAIN connections : ResolveSealTarget(c)
  <2>1. PICK c \in DOMAIN connections : ResolveSealTarget(c)
    BY <1>2
  <2> DEFINE t == [T EXCEPT !.generation = connections[c].generation, !.connection = c]
  <2>2. /\ Prepare("candidate", t) /\ attempt.state # "none"
    BY <2>1 DEF ResolveSealTarget, MaySubmit
  <2>3. T \in SealTarget /\ c \in Nat /\ connections[c].generation \in Nat
    BY <1>1, <2>2, TargetFacts, ColumnTypes, SMTT(30), SMTT(20) DEF IInv, Indices, Columns
  <2> HIDE DEF T
  <2>4. /\ t \in SealTarget /\ t.connection = c
        /\ t.generation = connections[c].generation
    BY <2>3 DEF SealTarget
  <2> HIDE DEF t
  <2>5. QED
    BY <2>2, <2>4, PrepareKeeps
<1>3. CASE PrepareManagerEnd
  <2>1. Prepare("manager", T) /\ attempt.state # "none"
    BY <1>3 DEF PrepareManagerEnd, Unresolved
  <2>2. T \in SealTarget
    BY <1>1, <2>1, TargetFacts
  <2> HIDE DEF T
  <2>3. QED
    BY <2>1, <2>2, PrepareKeeps
<1>4. CASE PrepareAutomaticSeal
  <2> DEFINE t == [T EXCEPT !.revision = 0]
  <2>1. /\ Prepare("sitting", t) /\ attempt.state # "none"
        /\ sitting.state = "closing"
    BY <1>4 DEF PrepareAutomaticSeal, Unresolved
  <2>2. T \in SealTarget /\ T.generation = Latest /\ T.connection = Newest
    BY <1>1, <2>1, TargetFacts
  <2> HIDE DEF T
  <2>3. t \in SealTarget /\ t.generation = Latest /\ t.connection = Newest
    BY <2>2 DEF SealTarget
  <2> HIDE DEF t
  <2>4. QED
    BY <2>1, <2>3, PrepareKeeps
<1>5. QED
  BY <1>2, <1>3, <1>4

\* The Sitting's transitions, an extension and the passage of time.
LEMMA SittingKeeps ==
  ASSUME IInv,
         \/ Pause \/ Resume \/ EarlyClose \/ EnterClosing \/ FinishSealing
         \/ \E end \in Ends : Extend(end)
         \/ Tick
  PROVE  IInv' /\ Advances
<1>1. /\ sessions' = sessions /\ connecting' = connecting /\ prepared' = prepared
      /\ UNCHANGED tables
  BY DEF Pause, Resume, EarlyClose, EnterClosing, FinishSealing, Become, Extend, Tick
<1>2. \/ /\ now' = now + 1 /\ sitting' = sitting
      \/ /\ now' = now /\ connecting = {}
         /\ sitting' = [sitting EXCEPT !.state = "paused"]
         /\ sitting.state \notin {"closing", "closed"}
      \/ /\ now' = now /\ connecting = {}
         /\ sitting' = [sitting EXCEPT !.state = "open"]
         /\ sitting.state \notin {"closing", "closed"}
      \/ /\ now' = now /\ connecting = {}
         /\ sitting' = [sitting EXCEPT !.state = "closing"]
      \/ /\ now' = now /\ connecting = {}
         /\ sitting' = [sitting EXCEPT !.state = "closed"]
      \/ /\ now' = now /\ connecting = {}
         /\ \E end \in Ends : end > sitting.end /\ sitting' = [sitting EXCEPT !.end = end]
  BY DEF Pause, Resume, EarlyClose, EnterClosing, FinishSealing, Become, Extend, Tick,
         Live, Unlocked
<1>3. sitting \in [state : {"open", "paused", "closing", "closed"}, end : Nat]
      /\ now \in Nat
  BY DEF IInv, RowTypes
<1>4. /\ sitting' \in [state : {"open", "paused", "closing", "closed"}, end : Nat]
      /\ now' \in Nat /\ now <= now' /\ sitting.end <= sitting'.end
      /\ sitting'.state = sitting.state \/ connecting = {}
      /\ sitting.state \in {"closing", "closed"} => sitting'.state \in {"closing", "closed"}
  BY <1>2, <1>3, ExamAttemptAssumption, SMTT(30), SMTT(20)
<1>5. RowTypes'
  BY <1>1, <1>4 DEF IInv, RowTypes, tables
<1>6. /\ attempt' = attempt /\ connections' = connections
      /\ participations' = participations /\ Latest' = Latest /\ Newest' = Newest
  BY <1>1 DEF tables, Latest, Newest
<1>7. Admission'
  <2>1. SoleSession'
    BY <1>1, <1>6 DEF IInv, Admission, SoleSession
  <2>2. \A k \in connecting : k.at \in Int /\ k.at <= now
    BY SMTT(30), SMTT(20) DEF IInv, Admission, RowTypes
  <2>3. QED
    BY <1>1, <1>3, <1>4, <1>6, <2>1, <2>2, SMTT(30), SMTT(20) DEF IInv, Admission
<1>8. Preparations'
  BY <1>1, <1>4, <1>6 DEF IInv, Preparations, Prepared
<1>9. QED
  BY <1>1, <1>4, <1>5, <1>7, <1>8, QuietStep DEF IInv

----------------------------------------------------------------------------
(* The theorems                                                            *)

\* Every step keeps the invariant and moves no fence back.
LEMMA NextIInv ==
  ASSUME IInv, Next
  PROVE  IInv' /\ Advances
<1>1. ASSUME NEW s \in Sessions, IssueSession(s) PROVE IInv' /\ Advances
  BY <1>1, IssueKeeps
<1>2. ASSUME NEW s \in Sessions, NEW at \in (now - Skew) .. (now + Skew),
             RevokeSession(s, at)
      PROVE  IInv' /\ Advances
  <2>1. at \in Int
    OBVIOUS
  <2>2. QED
    BY <1>2, <2>1, RevokeKeeps
<1>3. CASE (\E s \in Sessions : LockEligibility(s)) \/ AbandonConnect
  BY <1>3, LockKeeps
<1>4. CASE FirstAdmission \/ Reactivate
  BY <1>4, AdmissionKeeps
<1>5. CASE Reconnect
  BY <1>5, ReconnectKeeps
<1>6. ASSUME NEW c \in DOMAIN connections, CloseConnection(c) PROVE IInv' /\ Advances
  BY <1>6, CloseConnectionKeeps
<1>7. ASSUME NEW c \in DOMAIN connections, NEW n \in 1 .. MaxSequence, Renew(c, n)
      PROVE  IInv' /\ Advances
  BY <1>7, RenewKeeps
<1>8. ASSUME NEW g \in DOMAIN participations, participations[g].state = "active",
             NEW why \in Reasons, Suspend(g, why)
      PROVE  IInv' /\ Advances
  <2>1. Suspends(now)
    BY <1>8, SuspendSuspends
  <2>2. sessions' = sessions
    BY <1>8 DEF Suspend
  <2>3. /\ sessions' \in [Sessions -> {"unissued", "live", "revoked"}]
        /\ \A k \in connecting : sessions'[k.session] = "live"
    BY <2>2 DEF IInv, RowTypes, Admission
  <2>4. QED
    BY <2>1, <2>3, SuspendsKeeps
<1>9. ASSUME NEW g \in DOMAIN participations,
             ExpireParticipation(g) \/ SuspendByManager(g)
      PROVE  IInv' /\ Advances
  BY <1>8, <1>9 DEF ExpireParticipation, SuspendByManager, Reasons
<1>10. ASSUME NEW c \in DOMAIN connections, SuspendForFocusLoss(c)
       PROVE  IInv' /\ Advances
  <2>1. connections[c].generation \in DOMAIN participations
    BY DEF IInv, Generations
  <2>2. QED
    BY <1>8, <1>10, <2>1 DEF SuspendForFocusLoss, Reasons
<1>11. ASSUME NEW n \in DOMAIN suspensions, ReallowAttempt(n) PROVE IInv' /\ Advances
  BY <1>11, ReallowKeeps
<1>12. CASE \/ \E c \in DOMAIN connections : ResolveSealTarget(c)
            \/ PrepareManagerEnd \/ PrepareAutomaticSeal
  BY <1>12, PreparationsKeep
<1>13. CASE Seal
  BY <1>13, SealKeeps
<1>14. ASSUME NEW kind \in {"manager", "sitting"}, NEW t \in Prepared(kind)
       PROVE  kind \in SealKinds /\ t \in SealTarget
  BY DEF Prepared, IInv, RowTypes
<1>15. CASE EndByManager
  <2>1. PICK t \in Prepared("manager") :
            /\ t.generation = Latest /\ t.connection = LatestConnection
            /\ SealUnfinished(t, "manager", "manager_ended")
    BY <1>15 DEF EndByManager
  <2>2. QED
    BY <1>14, <2>1, SealUnfinishedKeeps DEF Reasons
<1>16. CASE SealForSittingClose
  <2>1. PICK t \in Prepared("sitting") :
            /\ t.generation = Latest /\ t.connection = LatestConnection
            /\ SealUnfinished(t, "sitting", "sitting_closed")
    BY <1>16 DEF SealForSittingClose
  <2>2. QED
    BY <1>14, <2>1, SealUnfinishedKeeps DEF Reasons
<1>17. CASE \/ Pause \/ Resume \/ EarlyClose \/ EnterClosing \/ FinishSealing
            \/ \E end \in Ends : Extend(end)
            \/ Tick
  BY <1>17, SittingKeeps
<1>18. QED
  BY <1>1, <1>2, <1>3, <1>4, <1>5, <1>6, <1>7, <1>9, <1>10, <1>11, <1>12, <1>13,
     <1>15, <1>16, <1>17 DEF Next

\* A step that changes nothing keeps the invariant.
LEMMA StutterIInv ==
  ASSUME IInv, UNCHANGED vars
  PROVE  IInv'
<1>1. /\ now' = now /\ sitting' = sitting /\ sessions' = sessions
      /\ connecting' = connecting /\ prepared' = prepared /\ UNCHANGED tables
  BY DEF vars
<1>2. RowTypes' /\ now <= now' /\ sitting.end <= sitting'.end
  BY <1>1, SMTT(30), SMTT(20) DEF IInv, RowTypes, tables
<1>3. Admission' /\ Preparations'
  BY <1>1 DEF IInv, Admission, SoleSession, Preparations, Prepared, tables, Latest, Newest
<1>4. QED
  BY <1>1, <1>2, <1>3, QuietStep DEF IInv

\* In every reachable state the rows of the Attempt agree: which generation
\* and Connection are live, what a waiting Connect and a prepared seal rely
\* on, and that no instant is ahead of the step that must follow it.
THEOREM IInvHolds == Spec => []IInv
<1>1. Init => IInv
  BY InitIInv
<1>2. IInv /\ [Next]_vars => IInv'
  BY NextIInv, StutterIInv
<1>3. QED
  BY <1>1, <1>2, PTL DEF Spec

\* An active Attempt has one active Participation, the newest generation, and
\* at most one open Connection, on it; any other Attempt has neither.
THEOREM TransportIsFenced == Spec => []TransportFenced
<1>1. IInv => TransportFenced
  <2> SUFFICES ASSUME IInv PROVE TransportFenced
    OBVIOUS
  <2>1. attempt.state # "none" =>
            LatestConnection = Newest /\ Latest \in DOMAIN participations
    BY LatestConnectionIsNewest DEF IInv
  <2>2. ActiveGenerations = IF attempt.state = "active" THEN {Latest} ELSE {}
    BY <2>1 DEF IInv, Generations, ActiveGenerations
  <2>3. OpenConnections \subseteq {Newest}
    BY DEF IInv, Generations, OpenConnections
  <2>4. Cardinality(OpenConnections) <= 1
    <3>1. IsFiniteSet({Newest}) /\ Cardinality({Newest}) = 1
      BY FS_Singleton
    <3>2. QED
      BY <2>3, <3>1, FS_Subset, FS_CardinalityType
  <2>5. ASSUME NEW c \in OpenConnections
        PROVE  /\ connections[c].generation \in ActiveGenerations
               /\ c = LatestConnection
               /\ connections[c].session = participations[Latest].session
    BY <2>1, <2>2 DEF IInv, Generations, OpenConnections
  <2>6. QED
    BY <2>2, <2>4, <2>5 DEF TransportFenced
<1>2. QED
  BY <1>1, IInvHolds, PTL

\* While an Attempt is active, its Participation's Session is the candidate's
\* only live Session, whatever sign-ins, revocations and Connects race.
THEOREM SessionIsSole == Spec => []SoleSession
<1>1. IInv => SoleSession
  BY DEF IInv, Admission
<1>2. QED
  BY <1>1, IInvHolds, PTL

\* Every row still passes its Validate when it is read back, although Connect,
\* revocation and seals act at an instant that is not the commit's.
THEOREM EveryRowRevalidates == Spec => []RowsRevalidate
<1>1. IInv => RowsRevalidate
  BY DEF IInv
<1>2. QED
  BY <1>1, IInvHolds, PTL

\* A submitted Attempt has one Submission, for its newest generation and at
\* its own submitted_at, whichever of the three sealers came first.
THEOREM SubmittedOnce == Spec => []OneSubmission
<1>1. IInv => OneSubmission
  BY DEF IInv
<1>2. QED
  BY <1>1, IInvHolds, PTL

\* The target that an automatic seal prepared stays the Attempt's current one:
\* nothing is admitted to a closing Sitting.
THEOREM TargetStaysCurrent == Spec => []AutomaticTargetStable
<1>1. IInv => AutomaticTargetStable
  BY LatestConnectionIsNewest DEF IInv, Preparations, AutomaticTargetStable
<1>2. QED
  BY <1>1, IInvHolds, PTL

\* No step changes an ended row, moves a lease, a sequence or an updated_at
\* back, or changes the Attempt without its revision.
THEOREM FencesOnlyAdvance == Spec => FencesAdvance
<1>1. IInv /\ [Next]_vars => [Advances]_vars
  BY NextIInv
<1>2. FencesAdvance <=> [][Advances]_vars
  BY DEF FencesAdvance, Advances
<1>3. QED
  BY <1>1, <1>2, IInvHolds, PTL DEF Spec
=============================================================================
