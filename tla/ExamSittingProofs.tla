------------------------- MODULE ExamSittingProofs -------------------------
(***************************************************************************)
(* Every Sitting that has not settled has a pending Job that reaches its   *)
(* next boundary in time, and no Job acts before a boundary, for any       *)
(* number of Sittings and windows and any number of lost runs.             *)
(*                                                                         *)
(* The Job that covers a boundary is due no earlier than the boundary.  A  *)
(* Job that is being run was due when it was claimed, so one that finds    *)
(* the boundary still ahead is not the Job that covers it, and may succeed *)
(* without effect.                                                         *)
(***************************************************************************)
EXTENDS ExamSitting, TLAPS

\* A leaf that names no prover is tried with Zenon, then with SMT. SMT is listed
\* twice, here and at the leaves that need it: tlapm gives up on an encoding after
\* five seconds, and a second try starts afresh.
USE ZenonT(10), SMTT(30), SMTT(20), ZenonT(30)

Later(t, n) == IF t > n THEN t ELSE n

\* Table J has a Job of Sitting s in the phase, due neither before low nor
\* after high (or, when high is past, after the clock n).
Has(J, s, phase, low, high, n) ==
  \E k \in DOMAIN J : /\ k.phase = phase /\ k.sitting = s
                      /\ low <= J[k].due /\ J[k].due <= Later(high, n)

\* The Jobs that row r of Sitting s has to have in table J.
Cover(J, s, r, n) ==
  /\ r.state = "scheduled" => /\ Has(J, s, "open", r.start, r.start, n)
                              /\ Has(J, s, "deadline", r.end, r.end, n)
  /\ r.state \in Live => Has(J, s, "deadline", r.end, r.end, n)
  /\ r.state = "closing" => Has(J, s, "finalize", 0, r.closingAt, n)

\* A Job being run was due when it was claimed, and reconciles its Sitting.
Run(k, j, n) ==
  /\ j.status # "waiting" => j.due <= n
  /\ k # Recovery /\ j.status = "resolved" =>
       j.sitting = k.sitting /\ k.phase \in {"open", "deadline"}

\* A manager's open transaction holds the row of a Live Sitting.
Holding(c, r, n) ==
  c # Free => /\ r.state \in Live /\ c.at <= n /\ r.end <= c.end
              /\ c.command # "extend" => c.end = r.end

IInv ==
  /\ TypeOK
  /\ \A s \in Sittings : /\ sitting[s].start <= sitting[s].end
                         /\ Holding(held[s], sitting[s], now)
  /\ \A k \in DOMAIN jobs : Run(k, jobs[k], now)
  /\ \A s \in Sittings \ missed : Cover(jobs, s, sitting[s], now)

PassType == [listed : BOOLEAN, todo : SUBSET (Nat \X Sittings), after : Nat \X Nat,
             reserved : Nat]

\* A table of pending Jobs at time n.
Table(J, n) ==
  /\ DOMAIN J \subseteq Keys /\ J \in [DOMAIN J -> Job]
  /\ \A k \in DOMAIN J : Run(k, J[k], n)

\* From table J to table K no Job but those of lost leaves or moves, except
\* that a Job being retried at time n becomes due at n.
Keeps(J, K, n, lost) ==
  \A k \in DOMAIN J \ lost :
    /\ k \in DOMAIN K
    /\ K[k].due = J[k].due \/ (J[k].due <= n /\ K[k].due = n)

\* The Jobs that a transaction inserts, and when they are due.
Inserts(new) ==
  DOMAIN new \subseteq Keys /\ new \in [DOMAIN new -> Nat]

-----------------------------------------------------------------------------
(* Tables of Jobs *)

\* Keys of lifecycle Jobs.
LEMMA KeyFacts ==
  ASSUME NEW s \in Sittings, NEW r \in Nat, NEW p \in {"open", "deadline", "finalize"}
  PROVE  /\ Key(p, s, r) \in Keys /\ Key(p, s, r) # Recovery
         /\ Key(p, s, r).phase = p /\ Key(p, s, r).sitting = s
BY DEF Key, Keys, Recovery

\* The recovery Job's key, and what the other keys have.
LEMMA RecoveryFacts ==
  /\ Recovery \in Keys /\ Recovery.phase = "recovery" /\ Recovery.sitting = 0
  /\ \A k \in Keys : k # Recovery =>
       k.sitting \in Sittings /\ k.phase \in {"open", "deadline", "finalize"}
BY DEF Keys, Recovery, Key

\* A new Job waits and is due at the time given.
LEMMA NewJobFacts ==
  ASSUME NEW t \in Nat
  PROVE  NewJob(t) \in Job /\ NewJob(t).status = "waiting" /\ NewJob(t).due = t
BY DEF NewJob, Job

\* A Job that waits in the table covers the same boundary after a step that
\* does not lose it.
LEMMA HasKept ==
  ASSUME NEW J, NEW K, NEW n \in Nat, NEW lost, NEW s, NEW p, NEW low \in Nat, NEW high \in Nat,
         J \in [DOMAIN J -> Job], Keeps(J, K, n, lost), Has(J, s, p, low, high, n),
         \A k \in lost \cap DOMAIN J : k.phase = p /\ k.sitting = s => J[k].due < low
  PROVE  Has(K, s, p, low, high, n)
<1>1. PICK k \in DOMAIN J : /\ k.phase = p /\ k.sitting = s
                            /\ low <= J[k].due /\ J[k].due <= Later(high, n)
  BY DEF Has
<1>2. J[k].due \in Nat
  <2>1. J[k] \in Job
    OBVIOUS
  <2> QED
    BY <2>1 DEF Job
<1>3. k \notin lost
  BY <1>1, <1>2
<1>4. /\ k \in DOMAIN K
      /\ K[k].due = J[k].due \/ (J[k].due <= n /\ K[k].due = n)
  BY <1>3 DEF Keeps
<1>5. low <= K[k].due /\ K[k].due <= Later(high, n)
  BY <1>1, <1>2, <1>4 DEF Later
<1> QED
  BY <1>1, <1>4, <1>5 DEF Has

\* The clock only widens what a Job covers.
LEMMA HasLater ==
  ASSUME NEW J, NEW n \in Nat, NEW s, NEW p, NEW low \in Nat, NEW high \in Nat,
         J \in [DOMAIN J -> Job], Has(J, s, p, low, high, n)
  PROVE  Has(J, s, p, low, high, n + 1)
<1>1. PICK k \in DOMAIN J : /\ k.phase = p /\ k.sitting = s
                            /\ low <= J[k].due /\ J[k].due <= Later(high, n)
  BY DEF Has
<1>2. J[k].due \in Nat
  <2>1. J[k] \in Job
    OBVIOUS
  <2> QED
    BY <2>1 DEF Job
<1>3. J[k].due <= Later(high, n + 1)
  BY <1>1, <1>2 DEF Later
<1> QED
  BY <1>1, <1>3 DEF Has

\* A row stays covered when the Jobs lost are of other Sittings, or none of
\* the Jobs that cover it.
LEMMA CoverKept ==
  ASSUME NEW J, NEW K, NEW n \in Nat, NEW lost, NEW s, NEW r \in Row,
         J \in [DOMAIN J -> Job], Keeps(J, K, n, lost), Cover(J, s, r, n),
         \A k \in lost \cap DOMAIN J : k.sitting # s
  PROVE  Cover(K, s, r, n)
<1>1. r.start \in Nat /\ r.end \in Nat /\ r.closingAt \in Nat
  BY DEF Row
<1>2. \A p, low, high : low \in Nat /\ high \in Nat /\ Has(J, s, p, low, high, n)
                          => Has(K, s, p, low, high, n)
  BY HasKept
<1> QED
  BY <1>1, <1>2 DEF Cover

\* Inserting Jobs into a table.
LEMMA InsertFacts ==
  ASSUME NEW T, NEW n \in Nat, Table(T, n), NEW new, Inserts(new)
  PROVE  /\ Table(Insert(new, T), n)
         /\ Keeps(T, Insert(new, T), n, DOMAIN new)
         /\ \A k \in DOMAIN new : /\ k \in DOMAIN Insert(new, T)
                                  /\ Insert(new, T)[k].due = new[k]
<1> DEFINE I == Insert(new, T)
<1>1. /\ DOMAIN I = DOMAIN new \cup DOMAIN T
      /\ \A k \in DOMAIN new : I[k] = NewJob(new[k])
      /\ \A k \in DOMAIN T \ DOMAIN new : I[k] = T[k]
      /\ I = [k \in DOMAIN I |-> I[k]]
  BY DEF Insert
<1> HIDE DEF I
<1>2. \A k \in DOMAIN new : /\ new[k] \in Nat /\ NewJob(new[k]) \in Job
                            /\ NewJob(new[k]).status = "waiting" /\ NewJob(new[k]).due = new[k]
  BY NewJobFacts DEF Inserts
<1>3. \A k \in DOMAIN I : I[k] \in Job /\ Run(k, I[k], n)
  <2>1. \A k \in DOMAIN new : I[k] \in Job /\ Run(k, I[k], n)
    BY <1>1, <1>2 DEF Run
  <2>2. \A k \in DOMAIN T \ DOMAIN new : I[k] \in Job /\ Run(k, I[k], n)
    BY <1>1 DEF Table
  <2> QED
    BY <1>1, <2>1, <2>2
<1>4. I \in [DOMAIN I -> Job]
  BY <1>1, <1>3
<1>5. DOMAIN I \subseteq Keys
  BY <1>1 DEF Table, Inserts
<1> QED
  BY <1>1, <1>2, <1>3, <1>4, <1>5 DEF Table, Keeps, I

\* What two steps lose one after the other.
LEMMA KeepsTwice ==
  ASSUME NEW J, NEW T, NEW K, NEW n \in Nat, NEW a, NEW b,
         Keeps(J, T, n, a), Keeps(T, K, n, b)
  PROVE  Keeps(J, K, n, a \cup b)
BY DEF Keeps

\* One Job is replaced: it stays due when it was, or becomes due now.
LEMMA UpdateFacts ==
  ASSUME NEW J, NEW n \in Nat, Table(J, n), NEW k \in DOMAIN J, NEW u \in Job, Run(k, u, n),
         u.due = J[k].due \/ (J[k].due <= n /\ u.due = n)
  PROVE  /\ Table([J EXCEPT ![k] = u], n)
         /\ Keeps(J, [J EXCEPT ![k] = u], n, {})
<1> DEFINE K == [J EXCEPT ![k] = u]
<1>1. /\ DOMAIN K = DOMAIN J /\ K[k] = u /\ \A j \in DOMAIN J \ {k} : K[j] = J[j]
      /\ K \in [DOMAIN K -> Job]
  BY DEF Table
<1> HIDE DEF K
<1>2. Table(K, n)
  BY <1>1 DEF Table
<1>3. Keeps(J, K, n, {})
  BY <1>1 DEF Keeps
<1> QED
  BY <1>2, <1>3 DEF K

\* One Job leaves the table.
LEMMA WithoutFacts ==
  ASSUME NEW n \in Nat, Table(jobs, n), NEW k
  PROVE  /\ Table(Without(k), n)
         /\ Keeps(jobs, Without(k), n, {k})
<1> DEFINE K == Without(k)
<1>1. /\ DOMAIN K = DOMAIN jobs \ {k} /\ \A j \in DOMAIN jobs \ {k} : K[j] = jobs[j]
      /\ K \in [DOMAIN K -> Job]
  BY DEF Table, Without
<1> HIDE DEF K
<1>2. Table(K, n)
  BY <1>1 DEF Table
<1>3. Keeps(jobs, K, n, {k})
  BY <1>1 DEF Keeps
<1> QED
  BY <1>2, <1>3 DEF K

\* A retried Job waits and is due now.
LEMMA RetriedFacts ==
  ASSUME IInv, NEW k \in DOMAIN jobs, Held(k)
  PROVE  /\ jobs[k].due <= now /\ jobs[k].runs \in Nat
         /\ Retried(k) \in Job /\ Retried(k).due = now /\ Retried(k).status = "waiting"
<1>1. jobs[k] \in Job /\ now \in Nat /\ jobs[k].due <= now
  BY DEF IInv, TypeOK, Run, Held
<1> QED
  BY <1>1, NewJobFacts DEF Retried, NewJob, Job

\* The recovery pass after its Job is retried or ends.
LEMMA PassFacts ==
  ASSUME IInv, NEW k
  PROVE  Unlisted(k) \in PassType /\ NoPass \in PassType
BY DEF IInv, TypeOK, PassType, Unlisted, NoPass

\* The table, under the invariant.
LEMMA TableHolds == IInv => Table(jobs, now) /\ now \in Nat /\ pass \in PassType
BY DEF IInv, TypeOK, Table, PassType

\* A run that fails, for good or not, leaves every other Job in place.
LEMMA AgainFacts ==
  ASSUME IInv, NEW k \in DOMAIN jobs, Held(k), Again(k) \/ Failed(k)
  PROVE  /\ Table(jobs', now) /\ pass' \in PassType
         /\ \E lost \in {{}, {k}} :
              /\ Keeps(jobs, jobs', now, lost)
              /\ missed' = missed \cup {s \in Sittings : \E j \in lost : j.sitting = s}
<1>1. Table(jobs, now) /\ now \in Nat /\ pass \in PassType /\ missed \subseteq Sittings
  BY TableHolds DEF IInv, TypeOK
<1>2. CASE Failed(k)
  <2>1. Table(jobs', now) /\ Keeps(jobs, jobs', now, {k})
    BY <1>1, <1>2, WithoutFacts DEF Failed
  <2>2. Target(k) = {s \in Sittings : \E j \in {k} : j.sitting = s}
    <3>1. k \in Keys
      BY <1>1 DEF Table
    <3>2. 0 \notin Sittings
      BY ExamSittingAssumption
    <3> QED
      BY <3>1, <3>2, RecoveryFacts DEF Target
  <2>3. pass' \in PassType
    BY <1>1, <1>2, PassFacts DEF Failed
  <2> QED
    BY <1>2, <2>1, <2>2, <2>3 DEF Failed
<1>3. CASE /\ jobs' = [jobs EXCEPT ![k] = Retried(k)] /\ pass' = Unlisted(k) /\ missed' = missed
  <2>1. /\ Retried(k) \in Job /\ Run(k, Retried(k), now)
        /\ jobs[k].due <= now /\ Retried(k).due = now
    BY RetriedFacts DEF Run
  <2>2. Table(jobs', now) /\ Keeps(jobs, jobs', now, {})
    BY <1>1, <1>3, <2>1, UpdateFacts
  <2>3. missed' = missed \cup {s \in Sittings : \E j \in {} : j.sitting = s}
    BY <1>1, <1>3
  <2> QED
    BY <1>3, <2>2, <2>3, PassFacts
<1> QED
  BY <1>2, <1>3 DEF Again

\* A run whose transaction inserted Jobs: at most its own Job and the keys
\* inserted are lost, and the inserted ones are there.
LEMMA CompletesFacts ==
  ASSUME IInv, NEW k \in DOMAIN jobs, Held(k), NEW new, Inserts(new), Completes(k, new)
  PROVE  /\ Table(jobs', now) /\ pass' \in PassType
         /\ Keeps(jobs, jobs', now, ({k} \ {Recovery}) \cup DOMAIN new)
         /\ \A j \in DOMAIN new : j \in DOMAIN jobs' /\ jobs'[j].due = new[j]
<1>1. Table(jobs, now) /\ now \in Nat /\ pass \in PassType
  BY TableHolds
<1>2. ASSUME NEW T, Table(T, now), Keeps(jobs, T, now, {k} \ {Recovery}), jobs' = Insert(new, T)
      PROVE  /\ Table(jobs', now)
             /\ Keeps(jobs, jobs', now, ({k} \ {Recovery}) \cup DOMAIN new)
             /\ \A j \in DOMAIN new : j \in DOMAIN jobs' /\ jobs'[j].due = new[j]
  <2>1. /\ Table(jobs', now) /\ Keeps(T, jobs', now, DOMAIN new)
        /\ \A j \in DOMAIN new : j \in DOMAIN jobs' /\ jobs'[j].due = new[j]
    BY <1>1, <1>2, InsertFacts, SMTT(30), SMTT(20)
  <2> QED
    BY <1>1, <1>2, <2>1, KeepsTwice
<1>3. CASE k # Recovery /\ jobs' = Insert(new, Without(k)) /\ pass' = pass
  <2>1. Table(Without(k), now) /\ Keeps(jobs, Without(k), now, {k} \ {Recovery})
    <3>1. {k} \ {Recovery} = {k}
      BY <1>3
    <3> QED
      BY <1>1, <3>1, WithoutFacts
  <2> QED
    BY <1>1, <1>2, <1>3, <2>1
<1>4. ASSUME NEW u \in Job, Run(k, u, now), u.due = jobs[k].due \/ u.due = now,
             jobs' = Insert(new, [jobs EXCEPT ![k] = u])
      PROVE  /\ Table(jobs', now)
             /\ Keeps(jobs, jobs', now, ({k} \ {Recovery}) \cup DOMAIN new)
             /\ \A j \in DOMAIN new : j \in DOMAIN jobs' /\ jobs'[j].due = new[j]
  <2>1. jobs[k].due <= now
    BY RetriedFacts
  <2>2. Table([jobs EXCEPT ![k] = u], now) /\ Keeps(jobs, [jobs EXCEPT ![k] = u], now, {})
    BY <1>1, <1>4, <2>1, UpdateFacts
  <2>3. Keeps(jobs, [jobs EXCEPT ![k] = u], now, {k} \ {Recovery})
    BY <2>2 DEF Keeps
  <2> QED
    BY <1>2, <1>4, <2>2, <2>3
<1>5. CASE /\ k = Recovery
           /\ jobs' = Insert(new, [jobs EXCEPT ![k].status = "running", ![k].sitting = 0,
                                               ![k].plan = <<0, 0>>])
           /\ \E d \in pass.todo : pass' = [pass EXCEPT !.todo = @ \ {d}, !.after = d]
  <2> DEFINE u == [jobs[k] EXCEPT !.status = "running", !.sitting = 0, !.plan = <<0, 0>>]
  <2>1. u \in Job /\ u.due = jobs[k].due /\ u.status = "running"
    <3>1. jobs[k] \in Job
      BY <1>1 DEF Table
    <3> QED
      BY <3>1 DEF Job
  <2>2. [jobs EXCEPT ![k].status = "running", ![k].sitting = 0, ![k].plan = <<0, 0>>]
          = [jobs EXCEPT ![k] = u]
    OBVIOUS
  <2> HIDE DEF u
  <2>3. Run(k, u, now)
    BY <2>1, RetriedFacts DEF Run
  <2>4. pass' \in PassType
    <3>1. PICK d \in pass.todo : pass' = [pass EXCEPT !.todo = @ \ {d}, !.after = d]
      BY <1>5
    <3>2. d \in Nat \X Nat
      BY <1>1, ExamSittingAssumption DEF PassType
    <3> QED
      BY <1>1, <3>1, <3>2 DEF PassType
  <2> QED
    BY <1>4, <1>5, <2>1, <2>2, <2>3, <2>4
<1>6. CASE jobs' = Insert(new, [jobs EXCEPT ![k] = Retried(k)]) /\ pass' = Unlisted(k)
  <2>1. Retried(k) \in Job /\ Retried(k).due = now /\ Run(k, Retried(k), now)
    BY RetriedFacts DEF Run
  <2> QED
    BY <1>4, <1>6, <2>1, PassFacts
<1> QED
  BY <1>3, <1>5, <1>6 DEF Completes

\* What the transactions insert: nothing, one Job, or the two of a window.
LEMMA InsertsFacts ==
  /\ Inserts(NoJobs) /\ DOMAIN NoJobs = {}
  /\ \A k \in Keys, t \in Nat :
       Inserts(OneJob(k, t)) /\ DOMAIN OneJob(k, t) = {k} /\ OneJob(k, t)[k] = t
BY DEF Inserts, NoJobs, OneJob

-----------------------------------------------------------------------------
(* What a step must show *)

\* A step on the row of Sitting s and on its Jobs.
LEMMA SittingStep ==
  ASSUME IInv, NEW s \in Sittings, now' = now,
         NEW r \in Row, sitting' = [sitting EXCEPT ![s] = r],
         NEW c \in Command, held' = [held EXCEPT ![s] = c],
         Table(jobs', now), pass' \in PassType,
         NEW lost, Keeps(jobs, jobs', now, lost),
         \A k \in lost \cap DOMAIN jobs : k.sitting = s \/ k = Recovery,
         missed' \in {missed, missed \ {s}, missed \cup {s}},
         r.start <= r.end, Holding(c, r, now),
         s \notin missed' => Cover(jobs', s, r, now)
  PROVE  IInv'
<1>1. /\ now \in Nat /\ sitting \in [Sittings -> Row] /\ held \in [Sittings -> Command]
      /\ jobs \in [DOMAIN jobs -> Job] /\ missed \subseteq Sittings /\ 0 \notin Sittings
  BY ExamSittingAssumption DEF IInv, TypeOK
<1>2. /\ sitting' \in [Sittings -> Row] /\ held' \in [Sittings -> Command]
      /\ sitting'[s] = r /\ held'[s] = c
      /\ \A q \in Sittings \ {s} : sitting'[q] = sitting[q] /\ held'[q] = held[q]
  BY <1>1
<1>3. TypeOK'
  BY <1>1, <1>2 DEF TypeOK, Table, PassType
<1>4. \A q \in Sittings : /\ sitting'[q].start <= sitting'[q].end
                          /\ Holding(held'[q], sitting'[q], now)
  BY <1>2 DEF IInv
<1>5. ASSUME NEW q \in Sittings \ missed', q # s
      PROVE  Cover(jobs', q, sitting'[q], now)
  <2>1. q \notin missed /\ Cover(jobs, q, sitting[q], now) /\ sitting[q] \in Row
    BY <1>1, <1>5 DEF IInv
  <2>2. \A k \in lost \cap DOMAIN jobs : k.sitting # q
    BY <1>1, <1>5, RecoveryFacts
  <2>3. Cover(jobs', q, sitting[q], now)
    BY <1>1, <2>1, <2>2, CoverKept
  <2> QED
    BY <1>2, <1>5, <2>3
<1>6. \A q \in Sittings \ missed' : Cover(jobs', q, sitting'[q], now)
  BY <1>2, <1>5
<1>7. \A k \in DOMAIN jobs' : Run(k, jobs'[k], now)
  BY DEF Table
<1> QED
  BY <1>3, <1>4, <1>6, <1>7 DEF IInv

\* A step on the Jobs alone.  A Job lost is the recovery Job, or leaves its
\* Sitting among the missed.
LEMMA TableStep ==
  ASSUME IInv, now' = now, sitting' = sitting, held' = held,
         Table(jobs', now), pass' \in PassType,
         NEW lost, Keeps(jobs, jobs', now, lost), missed \subseteq missed', missed' \subseteq Sittings,
         \A k \in lost \cap DOMAIN jobs : k.sitting \in missed' \/ k = Recovery
  PROVE  IInv'
<1>1. /\ now \in Nat /\ sitting \in [Sittings -> Row] /\ held \in [Sittings -> Command]
      /\ jobs \in [DOMAIN jobs -> Job] /\ 0 \notin Sittings
  BY ExamSittingAssumption DEF IInv, TypeOK
<1>2. TypeOK'
  BY <1>1 DEF TypeOK, Table, PassType
<1>3. ASSUME NEW q \in Sittings \ missed'
      PROVE  Cover(jobs', q, sitting[q], now)
  <2>1. Cover(jobs, q, sitting[q], now) /\ sitting[q] \in Row
    BY <1>1 DEF IInv
  <2>2. \A k \in lost \cap DOMAIN jobs : k.sitting # q
    BY <1>1, RecoveryFacts
  <2> QED
    BY <1>1, <2>1, <2>2, CoverKept
<1>4. \A k \in DOMAIN jobs' : Run(k, jobs'[k], now)
  BY DEF Table
<1> QED
  BY <1>2, <1>3, <1>4 DEF IInv

-----------------------------------------------------------------------------
(* Managers *)

\* The two Jobs of a window.
LEMMA BoundaryFacts ==
  ASSUME IInv, NEW s \in Sittings, NEW v \in Nat, NEW w \in Windows, w[1] > now,
         jobs' = Insert(BoundaryJobs(s, v, w), jobs)
  PROVE  /\ Table(jobs', now)
         /\ \E lost : /\ Keeps(jobs, jobs', now, lost)
                      /\ \A k \in lost : k.sitting = s
         /\ Has(jobs', s, "open", w[1], w[1], now)
         /\ Has(jobs', s, "deadline", w[2], w[2], now)
<1>1. Table(jobs, now) /\ now \in Nat
  BY TableHolds
<1>2. w[1] \in Nat /\ w[2] \in Nat /\ w[1] < w[2]
  BY ExamSittingAssumption
<1> DEFINE new == BoundaryJobs(s, v, w)
           o == Key("open", s, v)
           d == Key("deadline", s, v)
<1>3. o \in Keys /\ o.phase = "open" /\ o.sitting = s
  BY KeyFacts
<1>4. d \in Keys /\ d.phase = "deadline" /\ d.sitting = s
  BY KeyFacts
<1> HIDE DEF o, d
<1>5. DOMAIN new = {o, d} /\ new = [k \in {o, d} |-> IF k.phase = "open" THEN w[1] ELSE w[2]]
  BY DEF BoundaryJobs, o, d
<1> HIDE DEF new
<1>6. Inserts(new) /\ new[o] = w[1] /\ new[d] = w[2]
  BY <1>2, <1>3, <1>4, <1>5 DEF Inserts
<1>7. /\ Table(jobs', now) /\ Keeps(jobs, jobs', now, DOMAIN new)
      /\ o \in DOMAIN jobs' /\ jobs'[o].due = w[1]
      /\ d \in DOMAIN jobs' /\ jobs'[d].due = w[2]
  <2>1. jobs' = Insert(new, jobs)
    BY DEF new
  <2> QED
    BY <1>1, <1>5, <1>6, <2>1, InsertFacts, SMTT(30), SMTT(20)
<1>8. Has(jobs', s, "open", w[1], w[1], now) /\ Has(jobs', s, "deadline", w[2], w[2], now)
  BY <1>1, <1>2, <1>3, <1>4, <1>7 DEF Has, Later
<1>9. \A k \in DOMAIN new : k.sitting = s
  BY <1>3, <1>4, <1>5
<1> QED
  BY <1>7, <1>8, <1>9

\* A Sitting that is scheduled or moved has both Jobs of its window.
LEMMA ScheduleKeeps ==
  ASSUME IInv, NEW s \in Sittings, NEW w \in Windows, Schedule(s, w) \/ UpdateSchedule(s, w)
  PROVE  IInv'
<1>1. /\ sitting \in [Sittings -> Row] /\ held \in [Sittings -> Command] /\ held[s] \in Command
      /\ pass \in PassType /\ sitting[s] \in Row /\ sitting[s].revision \in Nat
  BY TableHolds DEF IInv, TypeOK, Row
<1>2. w[1] \in Nat /\ w[2] \in Nat /\ w[1] <= w[2] /\ w[1] > now
  BY ExamSittingAssumption, SMTT(30), SMTT(20) DEF Schedule, UpdateSchedule
<1>3. held[s] = Free
  <2>1. sitting[s].state \notin Live
    BY SMTT(30), SMTT(20) DEF Schedule, UpdateSchedule, Absent, Live
  <2> QED
    BY <2>1 DEF IInv, Holding
<1>4. PICK v \in Nat : jobs' = Insert(BoundaryJobs(s, v, w), jobs)
  BY <1>1, SMTT(30), SMTT(20) DEF Schedule, UpdateSchedule
<1>5. PICK r \in Row : /\ sitting' = [sitting EXCEPT ![s] = r]
                       /\ r.state = "scheduled" /\ r.start = w[1] /\ r.end = w[2]
  <2>1. CASE Schedule(s, w)
    <3> DEFINE r == [state |-> "scheduled", revision |-> 1, start |-> w[1], end |-> w[2],
                     closingAt |-> 0]
    <3>1. r \in Row
      BY <1>2 DEF Row
    <3> QED
      BY <2>1, <3>1 DEF Schedule
  <2>2. CASE UpdateSchedule(s, w)
    <3> DEFINE r == [sitting[s] EXCEPT !.start = w[1], !.end = w[2], !.revision = @ + 1]
    <3>1. r \in Row /\ r.state = sitting[s].state /\ r.start = w[1] /\ r.end = w[2]
      <4>1. sitting[s] \in Row /\ w[1] \in Nat /\ w[2] \in Nat /\ sitting[s].revision + 1 \in Nat
        BY <1>1, <1>2
      <4> QED
        BY <4>1 DEF Row
    <3>2. sitting' = [sitting EXCEPT ![s] = r]
      BY <2>2, <1>1 DEF UpdateSchedule
    <3>3. sitting[s].state = "scheduled"
      BY <2>2 DEF UpdateSchedule
    <3> QED
      BY <3>1, <3>2, <3>3
  <2> QED
    BY <2>1, <2>2
<1>6. /\ Table(jobs', now)
      /\ Has(jobs', s, "open", w[1], w[1], now)
      /\ Has(jobs', s, "deadline", w[2], w[2], now)
  BY <1>2, <1>4, BoundaryFacts
<1>7. PICK lost : Keeps(jobs, jobs', now, lost) /\ \A k \in lost : k.sitting = s
  BY <1>2, <1>4, BoundaryFacts
<1>8. Cover(jobs', s, r, now)
  BY <1>5, <1>6 DEF Cover, Live
<1>9. Holding(held[s], r, now) /\ held' = [held EXCEPT ![s] = held[s]]
  BY <1>1, <1>3 DEF Holding, Schedule, UpdateSchedule
<1>10. UNCHANGED <<now, pass, missed>>
  BY DEF Schedule, UpdateSchedule
<1> QED
  BY <1>1, <1>2, <1>5, <1>6, <1>7, <1>8, <1>9, <1>10, SittingStep

\* A canceled Sitting needs no Job.
LEMMA CancelKeeps ==
  ASSUME IInv, NEW s \in Sittings, Cancel(s)
  PROVE  IInv'
<1>1. /\ sitting \in [Sittings -> Row] /\ held \in [Sittings -> Command] /\ held[s] \in Command
      /\ pass \in PassType /\ Table(jobs, now) /\ sitting[s] \in Row
      /\ sitting[s].start <= sitting[s].end
  BY TableHolds DEF IInv, TypeOK
<1> DEFINE r == [sitting[s] EXCEPT !.state = "canceled", !.revision = @ + 1]
<1>2. r \in Row /\ r.state = "canceled" /\ r.start = sitting[s].start /\ r.end = sitting[s].end
  <2>1. sitting[s].revision + 1 \in Nat
    BY <1>1, SMTT(30), SMTT(20) DEF Row
  <2> QED
    BY <1>1, <2>1 DEF Row, Settled
<1>3. sitting' = [sitting EXCEPT ![s] = r]
  BY <1>1 DEF Cancel
<1> HIDE DEF r
<1>4. held[s] = Free
  BY DEF IInv, Holding, Cancel, Live
<1>5. /\ Cover(jobs', s, r, now) /\ Holding(held[s], r, now)
      /\ held' = [held EXCEPT ![s] = held[s]] /\ Keeps(jobs, jobs', now, {})
      /\ Table(jobs', now)
  BY <1>1, <1>2, <1>4 DEF Cover, Live, Holding, Keeps, Cancel
<1> QED
  BY <1>1, <1>2, <1>3, <1>5, SittingStep DEF Cancel

\* A manager's transaction holds the row as it found it.
LEMMA DecideKeeps ==
  ASSUME IInv, NEW s \in Sittings, NEW command \in {"pause", "resume", "close", "extend", "retarget"},
         NEW w \in Windows, Decide(s, command, w[2])
  PROVE  IInv'
<1>1. /\ sitting \in [Sittings -> Row] /\ held \in [Sittings -> Command] /\ now \in Nat
      /\ pass \in PassType /\ Table(jobs, now) /\ sitting[s] \in Row
      /\ sitting[s].start <= sitting[s].end
      /\ s \notin missed => Cover(jobs, s, sitting[s], now)
  BY TableHolds DEF IInv, TypeOK
<1> DEFINE c == [command |-> command, at |-> now, end |-> w[2]]
<1>2. c \in Command /\ c.command = command /\ c.at = now /\ c.end = w[2]
  BY <1>1, ExamSittingAssumption DEF Command
<1>3. held' = [held EXCEPT ![s] = c]
  BY DEF Decide
<1> HIDE DEF c
<1>4. Holding(c, sitting[s], now)
  <2>1. IF command = "extend" THEN w[2] > sitting[s].end ELSE w[2] = sitting[s].end
    BY DEF Decide
  <2>2. sitting[s].end \in Nat /\ w[2] \in Nat /\ sitting[s].state \in Live
    BY <1>1, ExamSittingAssumption DEF Row, Decide
  <2> QED
    BY <1>1, <1>2, <2>1, <2>2 DEF Holding
<1>5. /\ sitting' = [sitting EXCEPT ![s] = sitting[s]] /\ Keeps(jobs, jobs', now, {})
      /\ UNCHANGED <<now, jobs, pass, missed>>
  BY <1>1 DEF Decide, Keeps
<1> QED
  BY <1>1, <1>2, <1>3, <1>4, <1>5, SittingStep

\* The change of a manager's transaction brings the Job it needs with it.
LEMMA CommitKeeps ==
  ASSUME IInv, NEW s \in Sittings, Commit(s)
  PROVE  IInv'
<1>1. /\ sitting \in [Sittings -> Row] /\ held \in [Sittings -> Command] /\ now \in Nat
      /\ pass \in PassType /\ Table(jobs, now) /\ sitting[s] \in Row /\ held[s] \in Command
      /\ sitting[s].start <= sitting[s].end /\ jobs \in [DOMAIN jobs -> Job]
      /\ s \notin missed => Cover(jobs, s, sitting[s], now)
  BY TableHolds DEF IInv, TypeOK
<1> DEFINE c == held[s]
           r == Managed(sitting[s], c)
           v == sitting[s].revision + 1
           new == ManagedJobs(s, v, c)
<1>2. /\ sitting[s].state \in Live /\ c.at <= now /\ sitting[s].end <= c.end
      /\ c.command # "extend" => c.end = sitting[s].end
  BY DEF IInv, Holding, Commit
<1>3. /\ v \in Nat /\ sitting[s].start \in Nat /\ sitting[s].end \in Nat
      /\ c.at \in Nat /\ c.end \in Nat
  BY <1>1, SMTT(30), SMTT(20) DEF Row, Command
<1>4. /\ r \in Row /\ r.start = sitting[s].start /\ r.end = c.end
      /\ c.command = "close" => r.state = "closing" /\ r.closingAt = c.at
      /\ c.command # "close" => r.state \in Live
  <2> DEFINE st == CASE c.command = "pause" -> "paused"
                     [] c.command = "resume" -> "open"
                     [] c.command = "close" -> "closing"
                     [] OTHER -> sitting[s].state
             at == IF c.command = "close" THEN c.at ELSE sitting[s].closingAt
  <2>1. /\ st \in {"closing"} \cup Live
        /\ c.command = "close" => st = "closing"
        /\ c.command # "close" => st \in Live
    BY <1>2 DEF Live
  <2>2. at \in Nat /\ (c.command = "close" => at = c.at)
    BY <1>1, <1>3 DEF Row
  <2>3. r = [sitting[s] EXCEPT !.revision = v, !.end = c.end, !.state = st, !.closingAt = at]
    BY DEF Managed
  <2> HIDE DEF st, at, r, c, v
  <2> QED
    BY <1>1, <1>3, <2>1, <2>2, <2>3 DEF Row
<1>5. sitting' = [sitting EXCEPT ![s] = r] /\ jobs' = Insert(new, jobs)
      /\ held' = [held EXCEPT ![s] = Free]
      /\ missed' = (IF c.command = "close" THEN missed \ {s} ELSE missed)
      /\ UNCHANGED <<now, pass>>
  BY DEF Commit
<1> HIDE DEF r
<1>6. Free \in Command /\ Holding(Free, r, now) /\ r.start <= r.end
  BY <1>1, <1>2, <1>3, <1>4, SMTT(30), SMTT(20) DEF Free, Command, Holding
<1>7. CASE c.command \in {"close", "extend"}
  <2> DEFINE p == IF c.command = "close" THEN "finalize" ELSE "deadline"
             t == IF c.command = "close" THEN c.at ELSE c.end
             k == Key(p, s, v)
  <2>1. new = OneJob(k, t) /\ t \in Nat
    BY <1>3, <1>7 DEF ManagedJobs
  <2>2. k \in Keys /\ k.phase = p /\ k.sitting = s
    BY <1>3, KeyFacts, SMTT(30), SMTT(20)
  <2>3. /\ c.command = "close" => p = "finalize" /\ t = c.at
        /\ c.command # "close" => p = "deadline" /\ t = c.end
    OBVIOUS
  <2> HIDE DEF new, k, p, t, c
  <2>4. Inserts(new) /\ DOMAIN new = {k} /\ new[k] = t
    BY <2>1, <2>2, InsertsFacts
  <2>5. /\ Table(jobs', now) /\ Keeps(jobs, jobs', now, {k})
        /\ k \in DOMAIN jobs' /\ jobs'[k].due = t
    BY <1>1, <1>5, <2>4, InsertFacts, SMTT(30), SMTT(20)
  <2>6. Has(jobs', s, p, t, t, now) /\ (t <= now => Has(jobs', s, p, 0, t, now))
    BY <1>1, <2>1, <2>2, <2>5 DEF Has, Later
  <2>7. Cover(jobs', s, r, now)
    BY <1>2, <1>4, <1>7, <2>3, <2>6 DEF Cover, Live
  <2> QED
    BY <1>1, <1>4, <1>5, <1>6, <2>2, <2>5, <2>7, SittingStep
<1>8. CASE c.command \notin {"close", "extend"}
  <2>1. new = NoJobs
    BY <1>8 DEF ManagedJobs
  <2> HIDE DEF new, c
  <2>2. Inserts(new) /\ DOMAIN new = {}
    BY <2>1, InsertsFacts
  <2>3. Table(jobs', now) /\ Keeps(jobs, jobs', now, {})
    BY <1>1, <1>5, <2>2, InsertFacts, SMTT(30), SMTT(20)
  <2>4. s \notin missed => Cover(jobs', s, sitting[s], now)
    BY <1>1, <2>3, CoverKept
  <2>5. s \notin missed => Cover(jobs', s, r, now)
    BY <1>2, <1>4, <1>8, <2>4 DEF Cover, Live
  <2> QED
    BY <1>1, <1>4, <1>5, <1>6, <1>8, <2>3, <2>5, SittingStep
<1> QED
  BY <1>7, <1>8

-----------------------------------------------------------------------------
(* Runs of Jobs *)

\* One Job moves on without a change of its due time.
LEMMA JobStep ==
  ASSUME IInv, NEW k \in DOMAIN jobs, NEW u \in Job, Run(k, u, now), u.due = jobs[k].due,
         jobs' = [jobs EXCEPT ![k] = u], pass' \in PassType,
         UNCHANGED <<now, sitting, held, missed>>
  PROVE  IInv'
<1>1. Table(jobs, now) /\ now \in Nat /\ missed \subseteq Sittings
  BY TableHolds DEF IInv, TypeOK
<1>2. Table(jobs', now) /\ Keeps(jobs, jobs', now, {})
  BY <1>1, UpdateFacts
<1> QED
  BY <1>1, <1>2, TableStep

\* The finalize Job prepared from a row.
LEMMA PreparedType == \A r \in Row : Prepared(r) \in Nat \X Nat
BY SMTT(30), SMTT(20) DEF Prepared, Row

\* A Job that is claimed was due.
LEMMA ClaimsKeep ==
  ASSUME IInv, NEW k \in DOMAIN jobs, Resolve(k) \/ Start(k)
  PROVE  IInv'
<1>1. /\ jobs[k] \in Job /\ k \in Keys /\ sitting \in [Sittings -> Row] /\ pass \in PassType
      /\ Sittings \subseteq Nat
  BY TableHolds, ExamSittingAssumption DEF IInv, TypeOK
<1>2. jobs[k].due <= now
  BY DEF Resolve, Start, Due
<1>3. jobs[k].runs + 1 \in Nat
  BY <1>1, SMTT(30), SMTT(20) DEF Job
<1>4. CASE Resolve(k)
  <2>1. k # Recovery /\ k.sitting \in Sittings /\ k.phase \in {"open", "deadline"}
    BY <1>1, <1>4, RecoveryFacts DEF Resolve
  <2> DEFINE q == Prepared(sitting[k.sitting])
             u == [jobs[k] EXCEPT !.status = "resolved", !.sitting = k.sitting, !.plan = q,
                                  !.runs = jobs[k].runs + 1]
  <2>2. q \in Nat \X Nat /\ k.sitting \in Nat
    BY <1>1, <2>1, PreparedType
  <2>3. [Reading(k, k.sitting) EXCEPT !.runs = @ + 1] = u
    BY <1>1 DEF Reading, Job
  <2> HIDE DEF q
  <2>4. u \in Job /\ u.due = jobs[k].due /\ u.sitting = k.sitting
    BY <1>1, <1>3, <2>2 DEF Job
  <2>5. jobs' = [jobs EXCEPT ![k] = u]
    BY <1>4, <2>3 DEF Resolve
  <2> HIDE DEF u
  <2>6. Run(k, u, now)
    BY <1>2, <2>1, <2>4 DEF Run
  <2> QED
    BY <1>1, <1>4, <2>4, <2>5, <2>6, JobStep DEF Resolve
<1>5. CASE Start(k)
  <2> DEFINE u == Claimed(k)
  <2>1. u \in Job /\ u.due = jobs[k].due /\ u.status = "running"
    BY <1>1, <1>3 DEF Claimed, Job
  <2>2. jobs' = [jobs EXCEPT ![k] = u]
    BY <1>5 DEF Start
  <2> HIDE DEF u
  <2>3. Run(k, u, now)
    BY <1>2, <2>1 DEF Run
  <2> QED
    BY <1>1, <1>5, <2>1, <2>2, <2>3, JobStep DEF Start
<1> QED
  BY <1>4, <1>5

\* A run that fails for good leaves its Sitting among the missed.
LEMMA FailuresKeep ==
  ASSUME IInv, NEW k \in DOMAIN jobs, Trouble(k) \/ Refused(k) \/ Blocked(k)
  PROVE  IInv'
<1>1. Held(k) /\ (Again(k) \/ Failed(k)) /\ UNCHANGED <<now, sitting, held>>
  BY DEF Trouble, Refused, Blocked, Held
<1>2. Table(jobs', now) /\ pass' \in PassType
  BY <1>1, AgainFacts
<1>3. PICK lost \in {{}, {k}} :
        /\ Keeps(jobs, jobs', now, lost)
        /\ missed' = missed \cup {s \in Sittings : \E j \in lost : j.sitting = s}
  BY <1>1, AgainFacts
<1>4. missed \subseteq Sittings /\ k \in Keys
  BY DEF IInv, TypeOK
<1>5. \A j \in lost : j = Recovery \/ j.sitting \in missed'
  BY <1>3, <1>4, RecoveryFacts
<1> QED
  BY <1>1, <1>2, <1>3, <1>4, <1>5, TableStep

-----------------------------------------------------------------------------
(* Reconciliations *)

\* The Job that reconciles s is its own or the recovery Job, and was due.
LEMMA LocksFacts ==
  ASSUME IInv, NEW k \in DOMAIN jobs, NEW s \in Sittings, Locks(k, s)
  PROVE  /\ Held(k) /\ jobs[k].due <= now /\ held[s] = Free
         /\ jobs[k] \in Job /\ jobs[k].due \in Nat
         /\ k # Recovery => k.sitting = s /\ k.phase \in {"open", "deadline"}
<1>1. jobs[k] \in Job /\ Run(k, jobs[k], now)
  BY DEF IInv, TypeOK
<1> QED
  BY <1>1 DEF Locks, Run, Held, Job

\* The row of Sitting s is replaced by r and the run completes.
LEMMA AdvanceStep ==
  ASSUME IInv, NEW k \in DOMAIN jobs, NEW s \in Sittings, Held(k),
         k # Recovery => k.sitting = s, held[s] = Free,
         NEW r \in Row, sitting' = [sitting EXCEPT ![s] = r], r.start <= r.end,
         NEW new, Inserts(new), \A j \in DOMAIN new : j.sitting = s, Completes(k, new),
         UNCHANGED <<now, held>>, missed' \in {missed, missed \ {s}},
         s \notin missed' => Cover(jobs', s, r, now)
  PROVE  IInv'
<1>1. held \in [Sittings -> Command] /\ held[s] \in Command
  BY DEF IInv, TypeOK
<1>2. /\ Table(jobs', now) /\ pass' \in PassType
      /\ Keeps(jobs, jobs', now, ({k} \ {Recovery}) \cup DOMAIN new)
  BY CompletesFacts
<1>3. held' = [held EXCEPT ![s] = held[s]] /\ Holding(held[s], r, now)
  BY <1>1 DEF Holding
<1>4. \A j \in ({k} \ {Recovery}) \cup DOMAIN new : j.sitting = s
  OBVIOUS
<1> QED
  BY <1>1, <1>2, <1>3, <1>4, SittingStep, ZenonT(30)

\* A run that comes before the boundary, or after the end, is not the one
\* that covers the boundary.
LEMMA NothingKeeps ==
  ASSUME IInv, NEW k \in DOMAIN jobs, NEW s \in Sittings, AdvanceNothing(k, s)
  PROVE  IInv'
<1>1. /\ Held(k) /\ jobs[k].due <= now /\ held[s] = Free /\ jobs[k].due \in Nat
      /\ k # Recovery => k.sitting = s
  BY LocksFacts DEF AdvanceNothing
<1>2. /\ sitting \in [Sittings -> Row] /\ sitting[s] \in Row /\ now \in Nat
      /\ sitting[s].start <= sitting[s].end /\ jobs \in [DOMAIN jobs -> Job]
      /\ s \notin missed => Cover(jobs, s, sitting[s], now)
  BY DEF IInv, TypeOK
<1>3. sitting[s].start \in Nat /\ sitting[s].end \in Nat
  BY <1>2 DEF Row
<1>4. Inserts(NoJobs) /\ DOMAIN NoJobs = {}
  BY InsertsFacts
<1>5. Completes(k, NoJobs) /\ UNCHANGED <<now, sitting, held, missed>>
  BY DEF AdvanceNothing
<1>6. Keeps(jobs, jobs', now, {k} \ {Recovery})
  <2>1. Keeps(jobs, jobs', now, ({k} \ {Recovery}) \cup DOMAIN NoJobs)
    BY <1>1, <1>4, <1>5, CompletesFacts
  <2> QED
    BY <1>4, <2>1
<1>7. \A p, low : low \in Nat /\ now < low /\ Has(jobs, s, p, low, low, now)
                    => Has(jobs', s, p, low, low, now)
  <2> SUFFICES ASSUME NEW p, NEW low \in Nat, now < low, Has(jobs, s, p, low, low, now)
               PROVE  Has(jobs', s, p, low, low, now)
    OBVIOUS
  <2>1. jobs[k].due < low
    BY <1>1, <1>2
  <2>2. \A j \in ({k} \ {Recovery}) \cap DOMAIN jobs :
          j.phase = p /\ j.sitting = s => jobs[j].due < low
    BY <2>1
  <2> QED
    BY <1>2, <1>6, <2>2, HasKept
<1>8. s \notin missed => Cover(jobs', s, sitting[s], now)
  <2>1. CASE sitting[s].state = "scheduled" /\ now < sitting[s].start
    <3>1. now < sitting[s].end
      BY <1>2, <1>3, <2>1
    <3> QED
      BY <1>2, <1>3, <1>7, <2>1, <3>1 DEF Cover, Live
  <2>2. CASE sitting[s].state \in Live /\ now < sitting[s].end
    BY <1>2, <1>3, <1>7, <2>2 DEF Cover, Live
  <2>3. CASE sitting[s].state \in Settled
    BY <2>3 DEF Cover, Live, Settled
  <2> QED
    BY <2>1, <2>2, <2>3 DEF AdvanceNothing
<1>9. sitting' = [sitting EXCEPT ![s] = sitting[s]]
  BY <1>2, <1>5
<1> QED
  BY <1>1, <1>2, <1>4, <1>5, <1>8, <1>9, AdvanceStep

\* A Sitting opens before its end, so the Job that opens it is not the one
\* that covers its deadline.
LEMMA OpensKeep ==
  ASSUME IInv, NEW k \in DOMAIN jobs, NEW s \in Sittings, AdvanceScheduled(k, s)
  PROVE  IInv'
<1>1. /\ Held(k) /\ jobs[k].due <= now /\ held[s] = Free /\ jobs[k].due \in Nat
      /\ k # Recovery => k.sitting = s
  BY LocksFacts DEF AdvanceScheduled
<1>2. /\ sitting \in [Sittings -> Row] /\ sitting[s] \in Row /\ now \in Nat
      /\ sitting[s].start <= sitting[s].end /\ jobs \in [DOMAIN jobs -> Job]
      /\ s \notin missed => Cover(jobs, s, sitting[s], now)
  BY DEF IInv, TypeOK
<1>3. sitting[s].end \in Nat /\ sitting[s].revision + 1 \in Nat
  BY <1>2, SMTT(30), SMTT(20) DEF Row
<1>4. PICK state \in {"open", "canceled"} :
        /\ state = "open" => ~(now >= sitting[s].end)
        /\ sitting' = [sitting EXCEPT ![s].state = state, ![s].revision = @ + 1]
  BY DEF AdvanceScheduled
<1> DEFINE r == [sitting[s] EXCEPT !.state = state, !.revision = @ + 1]
<1>5. /\ r \in Row /\ r.state = state
      /\ r.start = sitting[s].start /\ r.end = sitting[s].end
  <2>1. state \in Live \cup Settled
    BY DEF Live, Settled
  <2> QED
    BY <1>2, <1>3, <2>1 DEF Row
<1>6. sitting' = [sitting EXCEPT ![s] = r]
  BY <1>2, <1>4
<1> HIDE DEF r
<1>7. Inserts(NoJobs) /\ DOMAIN NoJobs = {}
  BY InsertsFacts
<1>8. Completes(k, NoJobs) /\ UNCHANGED <<now, held, missed>> /\ sitting[s].state = "scheduled"
  BY DEF AdvanceScheduled
<1>9. s \notin missed => Cover(jobs', s, r, now)
  <2>1. CASE state = "canceled"
    BY <1>5, <2>1 DEF Cover, Live
  <2>2. CASE state = "open" /\ s \notin missed
    <3>1. Keeps(jobs, jobs', now, ({k} \ {Recovery}) \cup DOMAIN NoJobs)
      BY <1>1, <1>7, <1>8, CompletesFacts
    <3>2. jobs[k].due < sitting[s].end
      BY <1>1, <1>2, <1>3, <1>4, <2>2, SMTT(30), SMTT(20)
    <3>3. Has(jobs, s, "deadline", sitting[s].end, sitting[s].end, now)
      BY <1>2, <1>8, <2>2 DEF Cover
    <3>4. \A j \in (({k} \ {Recovery}) \cup DOMAIN NoJobs) \cap DOMAIN jobs :
            jobs[j].due < sitting[s].end
      BY <1>7, <3>2
    <3>5. Has(jobs', s, "deadline", sitting[s].end, sitting[s].end, now)
      BY <1>2, <1>3, <3>1, <3>3, <3>4, HasKept
    <3> QED
      BY <1>5, <2>2, <3>5 DEF Cover, Live
  <2> QED
    BY <2>1, <2>2
<1> QED
  BY <1>1, <1>2, <1>5, <1>6, <1>7, <1>8, <1>9, AdvanceStep

\* A completed run that inserted the finalize Job of revision v, due by now
\* or when the Sitting closed.
LEMMA FinalizeFacts ==
  ASSUME IInv, NEW k \in DOMAIN jobs, Held(k), NEW s \in Sittings, NEW v \in Nat, NEW t \in Nat,
         Completes(k, OneJob(Key("finalize", s, v), t))
  PROVE  /\ Inserts(OneJob(Key("finalize", s, v), t))
         /\ \A j \in DOMAIN OneJob(Key("finalize", s, v), t) : j.sitting = s
         /\ \A r \in Row : r.state = "closing" /\ (t <= now \/ t = r.closingAt)
                            => Cover(jobs', s, r, now)
<1> DEFINE key == Key("finalize", s, v)
           new == OneJob(key, t)
<1>1. key \in Keys /\ key.phase = "finalize" /\ key.sitting = s
  BY KeyFacts
<1> HIDE DEF key
<1>2. Inserts(new) /\ DOMAIN new = {key} /\ new[key] = t
  BY <1>1, InsertsFacts
<1>3. Completes(k, new)
  BY DEF key
<1> HIDE DEF new
<1>4. key \in DOMAIN jobs' /\ jobs'[key].due = t
  BY <1>2, <1>3, CompletesFacts
<1>5. now \in Nat
  BY TableHolds
<1>6. ASSUME NEW r \in Row, r.state = "closing", t <= now \/ t = r.closingAt
      PROVE  Cover(jobs', s, r, now)
  <2>1. r.closingAt \in Nat
    BY DEF Row
  <2>2. Has(jobs', s, "finalize", 0, r.closingAt, now)
    BY <1>1, <1>4, <1>5, <1>6, <2>1 DEF Has, Later
  <2> QED
    BY <1>6, <2>2 DEF Cover, Live
<1> QED
  BY <1>1, <1>2, <1>6 DEF key, new

\* A Sitting that closes brings its finalize Job with it.
LEMMA ClosesKeep ==
  ASSUME IInv, NEW k \in DOMAIN jobs, NEW s \in Sittings, AdvanceLive(k, s)
  PROVE  IInv'
<1>1. Held(k) /\ held[s] = Free /\ (k # Recovery => k.sitting = s)
  BY LocksFacts DEF AdvanceLive
<1>2. /\ sitting \in [Sittings -> Row] /\ sitting[s] \in Row /\ now \in Nat
      /\ sitting[s].start <= sitting[s].end
  BY DEF IInv, TypeOK
<1>3. sitting[s].end \in Nat /\ sitting[s].revision + 1 \in Nat
  BY <1>2, SMTT(30), SMTT(20) DEF Row
<1>4. sitting[s].end <= now
  BY <1>2, <1>3 DEF AdvanceLive
<1> DEFINE r == [sitting[s] EXCEPT !.state = "closing", !.revision = @ + 1, !.closingAt = now]
           new == OneJob(Key("finalize", s, sitting[s].revision + 1), sitting[s].end)
<1>5. /\ r \in Row /\ r.state = "closing"
      /\ r.start = sitting[s].start /\ r.end = sitting[s].end
  BY <1>2, <1>3 DEF Row
<1>6. sitting' = [sitting EXCEPT ![s] = r]
  BY <1>2 DEF AdvanceLive, EnterClosing
<1> HIDE DEF r
<1>7. Completes(k, new) /\ UNCHANGED <<now, held>> /\ missed' = missed \ {s}
  BY DEF AdvanceLive, EnterClosing
<1>8. /\ Inserts(new) /\ \A j \in DOMAIN new : j.sitting = s
      /\ Cover(jobs', s, r, now)
  BY <1>1, <1>3, <1>4, <1>5, <1>7, FinalizeFacts, SMTT(30), SMTT(20)
<1> QED
  BY <1>1, <1>2, <1>5, <1>6, <1>7, <1>8, AdvanceStep

\* A reconciliation that answers without a transaction of its own.
LEMMA AnswersKeep ==
  ASSUME IInv, NEW k \in DOMAIN jobs, NEW s \in Sittings, Locks(k, s),
         NEW status \in {"refused", "blocked"}, Answered(k, status),
         UNCHANGED <<now, sitting, held, pass, missed>>
  PROVE  IInv'
<1>1. jobs[k] \in Job /\ jobs[k].due <= now /\ pass \in PassType
  BY LocksFacts, TableHolds
<1> DEFINE u == [jobs[k] EXCEPT !.status = status, !.plan = <<0, 0>>]
<1>2. u \in Job /\ u.due = jobs[k].due /\ u.status = status
  BY <1>1 DEF Job
<1>3. jobs' = [jobs EXCEPT ![k] = u]
  BY DEF Answered
<1> HIDE DEF u
<1>4. Run(k, u, now)
  BY <1>1, <1>2 DEF Run
<1> QED
  BY <1>1, <1>2, <1>3, <1>4, JobStep

\* A Closing Sitting keeps the finalize Job it has, or gets one.
LEMMA ClosingKeeps ==
  ASSUME IInv, NEW k \in DOMAIN jobs, NEW s \in Sittings,
         AdvanceClosing(k, s) \/ AdvanceStale(k, s)
  PROVE  IInv'
<1>1. Locks(k, s)
  BY DEF AdvanceClosing, AdvanceStale
<1>2. CASE \E status \in {"refused", "blocked"} :
             Answered(k, status) /\ UNCHANGED <<now, sitting, held, pass, missed>>
  BY <1>1, <1>2, AnswersKeep
<1>3. CASE /\ sitting[s].state = "closing"
           /\ Completes(k, OneJob(Key("finalize", s, sitting[s].revision), sitting[s].closingAt))
           /\ missed' = missed \ {s} /\ UNCHANGED <<now, sitting, held>>
  <2>1. /\ Held(k) /\ held[s] = Free /\ (k # Recovery => k.sitting = s)
        /\ jobs[k].due <= now
    BY <1>1, LocksFacts
  <2>2. /\ sitting \in [Sittings -> Row] /\ sitting[s] \in Row /\ now \in Nat
        /\ sitting[s].start <= sitting[s].end
    BY DEF IInv, TypeOK
  <2>3. sitting[s].revision \in Nat /\ sitting[s].closingAt \in Nat
    BY <2>2 DEF Row
  <2> DEFINE new == OneJob(Key("finalize", s, sitting[s].revision), sitting[s].closingAt)
  <2>4. /\ Inserts(new) /\ \A j \in DOMAIN new : j.sitting = s
        /\ Cover(jobs', s, sitting[s], now)
    BY <1>3, <2>1, <2>2, <2>3, FinalizeFacts, SMTT(30), SMTT(20)
  <2>5. sitting' = [sitting EXCEPT ![s] = sitting[s]] /\ Completes(k, new)
    BY <1>3, <2>2
  <2> HIDE DEF new
  <2> QED
    BY <1>3, <2>1, <2>2, <2>4, <2>5, AdvanceStep
<1> QED
  BY <1>2, <1>3 DEF AdvanceClosing, AdvanceStale

\* The sealing Job ends with its Sitting closed, or no longer Closing.
LEMMA SealingKeeps ==
  ASSUME IInv, NEW k \in DOMAIN jobs, FinishSealing(k)
  PROVE  IInv'
<1> DEFINE s == k.sitting
<1>1. Held(k) /\ k.phase = "finalize" /\ k \in Keys
  BY DEF FinishSealing, Held, IInv, TypeOK
<1>2. k # Recovery /\ s \in Sittings
  BY <1>1, RecoveryFacts
<1>3. /\ sitting \in [Sittings -> Row] /\ sitting[s] \in Row /\ now \in Nat
      /\ sitting[s].start <= sitting[s].end /\ jobs \in [DOMAIN jobs -> Job]
      /\ s \notin missed => Cover(jobs, s, sitting[s], now)
      /\ held \in [Sittings -> Command] /\ held[s] \in Command
      /\ Holding(held[s], sitting[s], now)
  BY <1>2 DEF IInv, TypeOK
<1>4. Inserts(NoJobs) /\ DOMAIN NoJobs = {}
  BY InsertsFacts
<1>5. Completes(k, NoJobs) /\ UNCHANGED <<now, held, missed>>
  BY DEF FinishSealing
<1>6. Table(jobs', now) /\ pass' \in PassType /\ Keeps(jobs, jobs', now, {k})
  <2>1. Keeps(jobs, jobs', now, ({k} \ {Recovery}) \cup DOMAIN NoJobs)
        /\ Table(jobs', now) /\ pass' \in PassType
    BY <1>1, <1>4, <1>5, CompletesFacts
  <2>2. ({k} \ {Recovery}) \cup DOMAIN NoJobs = {k}
    BY <1>2, <1>4
  <2> QED
    BY <2>1, <2>2
<1>7. CASE sitting[s].state = "closing"
  <2> DEFINE r == [sitting[s] EXCEPT !.state = "closed", !.revision = @ + 1]
  <2>1. /\ r \in Row /\ r.state = "closed"
        /\ r.start = sitting[s].start /\ r.end = sitting[s].end
    <3>1. sitting[s].revision + 1 \in Nat
      BY <1>3, SMTT(30), SMTT(20) DEF Row
    <3> QED
      BY <1>3, <3>1 DEF Row, Settled
  <2>2. sitting' = [sitting EXCEPT ![s] = r]
    BY <1>3, <1>7 DEF FinishSealing
  <2> HIDE DEF r
  <2>3. held[s] = Free
    BY <1>3, <1>7 DEF Holding, Live
  <2>4. Cover(jobs', s, r, now)
    BY <2>1 DEF Cover, Live
  <2>5. \A j \in DOMAIN NoJobs : j.sitting = s
    BY <1>4
  <2> QED
    BY <1>1, <1>2, <1>3, <1>4, <1>5, <2>1, <2>2, <2>3, <2>4, <2>5, AdvanceStep
<1>8. CASE sitting[s].state # "closing"
  <2>1. sitting' = [sitting EXCEPT ![s] = sitting[s]] /\ held' = [held EXCEPT ![s] = held[s]]
    BY <1>3, <1>5, <1>8 DEF FinishSealing
  <2>2. \A p \in {"open", "deadline"}, low \in Nat :
          Has(jobs, s, p, low, low, now) => Has(jobs', s, p, low, low, now)
    BY <1>1, <1>3, <1>6, HasKept
  <2>3. sitting[s].start \in Nat /\ sitting[s].end \in Nat
    BY <1>3 DEF Row
  <2>4. s \notin missed => Cover(jobs', s, sitting[s], now)
    BY <1>3, <1>8, <2>2, <2>3 DEF Cover
  <2>5. \A j \in {k} \cap DOMAIN jobs : j.sitting = s
    OBVIOUS
  <2> HIDE DEF s
  <2> QED
    BY <1>2, <1>3, <1>5, <1>6, <2>1, <2>4, <2>5, SittingStep
<1> QED
  BY <1>7, <1>8

-----------------------------------------------------------------------------
(* The recovery pass and the clock *)

\* What the query lists is due times and Sittings.
LEMMA DueType == IInv => LifecycleDue(pass.after) \subseteq Nat \X Sittings
<1> SUFFICES ASSUME IInv, NEW s \in Sittings PROVE DueAt(s) \in Nat
  BY SMTT(30), SMTT(20) DEF LifecycleDue
<1>1. sitting[s] \in Row /\ now \in Nat
  BY DEF IInv, TypeOK
<1> QED
  BY <1>1, SMTT(30), SMTT(20) DEF DueAt, Row

\* The pass touches no Job but its own, and a proposal only adds it.
LEMMA PassKeeps ==
  ASSUME IInv, RecoveryPass \/ Propose
  PROVE  IInv'
<1>1. /\ Table(jobs, now) /\ now \in Nat /\ pass \in PassType /\ missed \subseteq Sittings
      /\ sitting \in [Sittings -> Row]
  BY TableHolds DEF IInv, TypeOK
<1>2. CASE ListDue
  <2>1. pass' \in PassType
    BY <1>1, <1>2, DueType DEF ListDue, PassType
  <2>2. Keeps(jobs, jobs', now, {}) /\ UNCHANGED <<now, sitting, held, jobs, missed>>
    BY <1>2 DEF ListDue, Keeps
  <2> QED
    BY <1>1, <2>1, <2>2, TableStep
<1>3. CASE ReconcileNext
  <2>1. PICK d \in pass.todo : /\ jobs' = [jobs EXCEPT ![Recovery] = Reading(Recovery, d[2])]
                               /\ pass' = [pass EXCEPT !.reserved = @ + 1]
    BY <1>3 DEF ReconcileNext
  <2>2. d[2] \in Sittings /\ d[2] \in Nat /\ pass' \in PassType
    <3>1. pass.reserved + 1 \in Nat /\ d \in Nat \X Sittings
      BY <1>1, SMTT(30), SMTT(20) DEF PassType
    <3>2. d[2] \in Sittings /\ d[2] \in Nat
      BY <3>1, ExamSittingAssumption
    <3> QED
      BY <1>1, <2>1, <3>1, <3>2 DEF PassType
  <2>3. /\ Recovery \in DOMAIN jobs /\ jobs[Recovery].status = "running"
        /\ UNCHANGED <<now, sitting, held, missed>>
    BY <1>3 DEF ReconcileNext, Passing
  <2>4. jobs[Recovery] \in Job /\ jobs[Recovery].due <= now
    BY <1>1, <2>3 DEF Table, Run
  <2> DEFINE u == Reading(Recovery, d[2])
  <2>5. u \in Job /\ u.due = jobs[Recovery].due
    <3>1. Prepared(sitting[d[2]]) \in Nat \X Nat
      BY <1>1, <2>2, PreparedType
    <3> QED
      BY <2>2, <2>4, <3>1 DEF Reading, Job
  <2> HIDE DEF u
  <2>6. Run(Recovery, u, now)
    BY <2>4, <2>5 DEF Run
  <2> QED
    BY <2>1, <2>2, <2>3, <2>5, <2>6, JobStep DEF u
<1>4. CASE FinishPass
  <2>1. /\ jobs' = Without(Recovery) /\ pass' = NoPass
        /\ UNCHANGED <<now, sitting, held, missed>>
    BY <1>4 DEF FinishPass
  <2>2. Table(jobs', now) /\ Keeps(jobs, jobs', now, {Recovery}) /\ pass' \in PassType
    BY <1>1, <2>1, WithoutFacts, PassFacts
  <2> QED
    BY <1>1, <2>1, <2>2, TableStep
<1>5. CASE Propose
  <2>1. jobs' = Insert(OneJob(Recovery, now), jobs) /\ UNCHANGED <<now, sitting, held, pass, missed>>
    BY <1>5 DEF Propose
  <2>2. Inserts(OneJob(Recovery, now)) /\ DOMAIN OneJob(Recovery, now) = {Recovery}
    BY <1>1, InsertsFacts, RecoveryFacts
  <2>3. Table(jobs', now) /\ Keeps(jobs, jobs', now, {Recovery})
    BY <1>1, <2>1, <2>2, InsertFacts, SMTT(30), SMTT(20)
  <2> QED
    BY <1>1, <2>1, <2>3, TableStep
<1> QED
  BY <1>2, <1>3, <1>4, <1>5 DEF RecoveryPass

\* The clock runs.
LEMMA TickKeeps ==
  ASSUME IInv, Tick
  PROVE  IInv'
<1>1. /\ TypeOK /\ now \in Nat /\ sitting \in [Sittings -> Row] /\ held \in [Sittings -> Command]
      /\ jobs \in [DOMAIN jobs -> Job]
  BY DEF IInv, TypeOK
<1>2. now' = now + 1 /\ UNCHANGED <<sitting, held, jobs, pass, missed>>
  BY DEF Tick
<1>3. TypeOK'
  BY <1>1, <1>2, SMTT(30), SMTT(20) DEF TypeOK
<1>4. \A s \in Sittings : Holding(held[s], sitting[s], now + 1)
  <2>1. \A s \in Sittings : held[s].at \in Nat /\ Holding(held[s], sitting[s], now)
    BY <1>1 DEF IInv, Command
  <2> QED
    BY <1>1, <2>1 DEF Holding
<1>5. \A k \in DOMAIN jobs : Run(k, jobs[k], now + 1)
  <2>1. \A k \in DOMAIN jobs : jobs[k].due \in Nat /\ Run(k, jobs[k], now)
    BY <1>1 DEF IInv, Job
  <2> QED
    BY <1>1, <2>1, SMTT(30), SMTT(20) DEF Run
<1>6. \A s \in Sittings \ missed : Cover(jobs, s, sitting[s], now + 1)
  <2> SUFFICES ASSUME NEW s \in Sittings \ missed
               PROVE  Cover(jobs, s, sitting[s], now + 1)
    OBVIOUS
  <2>1. Cover(jobs, s, sitting[s], now)
    BY DEF IInv
  <2>2. sitting[s].start \in Nat /\ sitting[s].end \in Nat /\ sitting[s].closingAt \in Nat
    BY <1>1 DEF Row
  <2>3. \A p, low, high : low \in Nat /\ high \in Nat /\ Has(jobs, s, p, low, high, now)
                            => Has(jobs, s, p, low, high, now + 1)
    BY <1>1, HasLater
  <2> QED
    BY <2>1, <2>2, <2>3 DEF Cover
<1> QED
  BY <1>2, <1>3, <1>4, <1>5, <1>6 DEF IInv

-----------------------------------------------------------------------------
(* The theorems *)

\* Nothing is scheduled and no Job is pending.
LEMMA InitKeeps == Init => IInv
<1> SUFFICES ASSUME Init PROVE IInv
  OBVIOUS
<1>1. Absent \in Row /\ Free \in Command /\ NoPass \in PassType
  BY DEF Absent, Row, Free, Command, NoPass, PassType
<1>2. jobs = [k \in {} |-> NewJob(0)]
  BY DEF Init, Insert, NoJobs
<1>3. TypeOK
  BY <1>1, <1>2 DEF Init, TypeOK, PassType
<1>4. \A s \in Sittings : sitting[s] = Absent /\ held[s] = Free
  BY DEF Init
<1> QED
  BY <1>2, <1>3, <1>4 DEF IInv, Holding, Cover, Absent, Live

\* Every step keeps the invariant.
LEMMA NextKeeps == IInv /\ [Next]_vars => IInv'
<1> SUFFICES ASSUME IInv, [Next]_vars PROVE IInv'
  OBVIOUS
<1>1. CASE Tick
  BY <1>1, TickKeeps
<1>2. ASSUME NEW s \in Sittings, Managers(s) \/ Commit(s) PROVE IInv'
  BY <1>2, ScheduleKeeps, CancelKeeps, DecideKeeps, CommitKeeps DEF Managers
<1>3. ASSUME NEW k \in DOMAIN jobs, Handler(k) \/ Trouble(k) PROVE IInv'
  BY <1>3, ClaimsKeep, FailuresKeep, SealingKeeps, NothingKeeps, OpensKeep, ClosesKeep,
     ClosingKeeps DEF Handler, Advance
<1>4. CASE Propose \/ RecoveryPass
  BY <1>4, PassKeeps
<1>5. CASE UNCHANGED vars
  <2>1. UNCHANGED <<now, sitting, held, jobs, pass, missed>>
    BY <1>5 DEF vars
  <2> QED
    BY <2>1 DEF IInv, TypeOK
<1> QED
  BY <1>1, <1>2, <1>3, <1>4, <1>5 DEF Next

\* In every reachable state the Job that covers a boundary is due no earlier
\* than it, a Job being run was due, and a manager's open transaction holds
\* a Live row.
THEOREM IInvHolds == Spec => []IInv
BY InitKeeps, NextKeeps, PTL DEF Spec

\* A Sitting that has not settled has a pending Job that reaches its next
\* boundary in time, unless one of its Jobs failed for good.
THEOREM BoundariesCovered == Spec => []NextBoundaryCovered
<1>1. IInv => NextBoundaryCovered
  <2> SUFFICES ASSUME IInv, NEW s \in Sittings \ missed
               PROVE  /\ sitting[s].state = "scheduled" =>
                           Awaits(s, {"open", "deadline"}, sitting[s].start)
                      /\ sitting[s].state \in Live =>
                           Awaits(s, {"open", "deadline"}, sitting[s].end)
                      /\ sitting[s].state = "closing" =>
                           Awaits(s, {"finalize"}, sitting[s].closingAt)
    BY DEF NextBoundaryCovered
  <2>1. Cover(jobs, s, sitting[s], now)
    BY DEF IInv
  <2> QED
    BY <2>1 DEF Cover, Has, Later, Awaits
<1> QED
  BY <1>1, IInvHolds, PTL

\* No Job opens a Sitting outside its window, and a Sitting closes only at
\* the deadline its locked row has or by a manager's close.
THEOREM BoundariesKept == Spec => BoundariesRespected
<1> DEFINE Respects(s) ==
             /\ sitting[s].state = "scheduled" /\ sitting'[s].state = "open" =>
                   sitting[s].start <= now /\ now < sitting[s].end
             /\ sitting[s].state \in Live /\ sitting'[s].state = "closing" =>
                   now >= sitting[s].end \/ held[s].command = "close"
           Respected == \A s \in Sittings : Respects(s)
<1>1. IInv /\ [Next]_vars => [Respected]_vars
  <2> SUFFICES ASSUME IInv, Next PROVE Respected
    BY DEF vars
  <2>1. /\ sitting \in [Sittings -> Row] /\ now \in Nat
        /\ \A s \in Sittings : /\ sitting[s].start \in Nat /\ sitting[s].end \in Nat
                               /\ Holding(held[s], sitting[s], now)
    BY DEF IInv, TypeOK, Row
  <2>2. ASSUME NEW s \in Sittings, NEW r, sitting' = [sitting EXCEPT ![s] = r],
               sitting[s].state = "scheduled" /\ r.state = "open" =>
                 sitting[s].start <= now /\ now < sitting[s].end,
               sitting[s].state \in Live /\ r.state = "closing" =>
                 now >= sitting[s].end \/ held[s].command = "close"
        PROVE  Respected
    <3>1. ASSUME NEW q \in Sittings PROVE Respects(q)
      <4>1. CASE q = s
        BY <2>1, <2>2, <4>1
      <4>2. CASE q # s
        BY <2>1, <2>2, <4>2 DEF Live
      <4> QED
        BY <4>1, <4>2
    <3> QED
      BY <3>1
  <2>3. CASE sitting' = sitting
    BY <2>3 DEF Live
  <2> HIDE DEF Respected
  <2>4. ASSUME NEW s \in Sittings, Managers(s) \/ Commit(s) PROVE Respected
    <3>1. CASE \E w \in Windows : Schedule(s, w)
      <4>1. PICK r : /\ sitting' = [sitting EXCEPT ![s] = r] /\ sitting[s] = Absent
        BY <3>1 DEF Schedule
      <4>2. sitting[s].state \notin {"scheduled"} \cup Live
        BY <4>1 DEF Absent, Live
      <4> QED
        BY <2>2, <4>1, <4>2
    <3>2. CASE \E w \in Windows : UpdateSchedule(s, w)
      <4>1. PICK w \in Windows : UpdateSchedule(s, w)
        BY <3>2
      <4> DEFINE r == [sitting[s] EXCEPT !.start = w[1], !.end = w[2], !.revision = @ + 1]
      <4>2. sitting' = [sitting EXCEPT ![s] = r] /\ sitting[s].state = "scheduled"
        BY <2>1, <4>1 DEF UpdateSchedule
      <4>3. r.state = "scheduled"
        BY <2>1, <4>2 DEF Row
      <4> HIDE DEF r
      <4> QED
        BY <2>2, <4>2, <4>3 DEF Live
    <3>3. CASE Cancel(s)
      <4> DEFINE r == [sitting[s] EXCEPT !.state = "canceled", !.revision = @ + 1]
      <4>1. sitting' = [sitting EXCEPT ![s] = r] /\ r.state = "canceled"
        BY <2>1, <3>3 DEF Cancel, Row
      <4> HIDE DEF r
      <4> QED
        BY <2>2, <4>1
    <3>4. CASE Commit(s)
      <4> DEFINE r == Managed(sitting[s], held[s])
      <4>1. sitting' = [sitting EXCEPT ![s] = r] /\ held[s] # Free
        BY <3>4 DEF Commit
      <4>2. sitting[s].state \in Live
        BY <2>1, <4>1 DEF Holding
      <4>3. r.state = "closing" => held[s].command = "close"
        BY <2>1, <4>2 DEF Managed, Row, Live
      <4> HIDE DEF r
      <4> QED
        BY <2>2, <4>1, <4>2, <4>3 DEF Live
    <3>5. CASE sitting' = sitting
      BY <2>3, <3>5
    <3> QED
      BY <2>4, <3>1, <3>2, <3>3, <3>4, <3>5 DEF Managers, Decide
  <2>5. ASSUME NEW k \in DOMAIN jobs, NEW s \in Sittings, AdvanceScheduled(k, s)
        PROVE  Respected
    <3>1. PICK state \in IF now >= sitting[s].end THEN {"canceled"} ELSE {"open", "canceled"} :
            sitting' = [sitting EXCEPT ![s].state = state, ![s].revision = @ + 1]
      BY <2>5 DEF AdvanceScheduled
    <3> DEFINE r == [sitting[s] EXCEPT !.state = state, !.revision = @ + 1]
    <3>2. sitting' = [sitting EXCEPT ![s] = r] /\ r.state = state
      BY <2>1, <3>1 DEF Row
    <3>3. state = "open" => sitting[s].start <= now /\ now < sitting[s].end
      BY <2>1, <2>5, SMTT(30), SMTT(20) DEF AdvanceScheduled
    <3>4. sitting[s].state \notin Live
      BY <2>5 DEF AdvanceScheduled, Live
    <3> HIDE DEF r
    <3> QED
      BY <2>2, <3>2, <3>3, <3>4
  <2>6. ASSUME NEW k \in DOMAIN jobs, NEW s \in Sittings, AdvanceLive(k, s)
        PROVE  Respected
    <3> DEFINE r == [sitting[s] EXCEPT !.state = "closing", !.revision = @ + 1, !.closingAt = now]
    <3>1. sitting' = [sitting EXCEPT ![s] = r] /\ r.state = "closing"
      BY <2>1, <2>6 DEF AdvanceLive, EnterClosing, Row
    <3>2. now >= sitting[s].end
      BY <2>6 DEF AdvanceLive
    <3> HIDE DEF r
    <3> QED
      BY <2>2, <3>1, <3>2
  <2>7. ASSUME NEW k \in DOMAIN jobs, FinishSealing(k) PROVE Respected
    <3>1. k \in Keys /\ k.phase = "finalize"
      BY <2>7 DEF FinishSealing, IInv, TypeOK
    <3>2. k.sitting \in Sittings
      BY <3>1, RecoveryFacts
    <3>3. CASE sitting[k.sitting].state = "closing"
      <4> DEFINE r == [sitting[k.sitting] EXCEPT !.state = "closed", !.revision = @ + 1]
      <4>1. sitting' = [sitting EXCEPT ![k.sitting] = r] /\ r.state = "closed"
        BY <2>1, <2>7, <3>2, <3>3 DEF FinishSealing, Row
      <4> HIDE DEF r
      <4> QED
        BY <2>2, <3>2, <4>1
    <3> QED
      BY <2>3, <2>7, <3>3 DEF FinishSealing
  <2> QED
    BY <2>3, <2>4, <2>5, <2>6, <2>7 DEF Next, Handler, Advance, Tick, Propose, RecoveryPass, ListDue,
       ReconcileNext, FinishPass, Resolve, Start, Refused, Blocked, Trouble, AdvanceNothing,
       AdvanceClosing, AdvanceStale
<1>2. BoundariesRespected <=> [][Respected]_vars
  BY DEF BoundariesRespected
<1> HIDE DEF Respected
<1> QED
  BY <1>1, <1>2, IInvHolds, PTL DEF Spec

=============================================================================
