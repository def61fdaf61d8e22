------------------------- MODULE ServingLeaseProofs -------------------------
(***************************************************************************)
(* The inductive invariant of ServingLease, for any processes and node IDs *)
(* and any timing that is Timely: it ties what a process knows (when its   *)
(* calls started) to what the database holds (when its lease expires).     *)
(* It survives the steps a process takes by itself, then the steps that    *)
(* touch the table, the fence and the clock; the properties follow.        *)
(***************************************************************************)
EXTENDS ServingLease, TLAPS

\* A leaf that names no prover is tried with Zenon, then with SMT. SMT is listed
\* twice, here and at the leaves that need it: tlapm gives up on an encoding after
\* five seconds, and a second try starts afresh.
USE ZenonT(10), SMTT(30), SMTT(20), ZenonT(30)

\* The first Upsert returns, a retry is made and HTTP closes soon enough.
Timely ==
    /\ RetryInterval + StopTime < StopMargin
    /\ StartLimit + RenewalInterval + StopTime < Lifetime

\* The node's only row is p's, and expires no earlier than a lease stamped at
\* t would.
Own(p, t) ==
    /\ rows[NodeOf[p]] # {}
    /\ \A row \in rows[NodeOf[p]] :
        row.lease = p /\ row.expiresAt >= t + Lifetime

\* p is within the time in which its lease must be live.
Proven(p) ==
    \/ phase[p] \in {"waiting", "renewing"}
    \/ phase[p] = "failed" /\ now <= due[p] + StopTime

Timing(p) ==
    /\ provenAt[p] <= now
    /\ phase[p] = "starting" =>
        provenAt[p] = due[p] /\ due[p] <= now /\ now <= due[p] + StartLimit
    /\ phase[p] = "waiting" =>
        now <= due[p] /\ due[p] + StopTime < provenAt[p] + Lifetime
    /\ phase[p] = "renewing" =>
        /\ provenAt[p] <= due[p] /\ due[p] <= now
        /\ now <= due[p] + OperationLimit
        /\ due[p] + OperationLimit <= provenAt[p] + Lifetime - StopMargin
    /\ phase[p] = "failed" =>
        due[p] <= now /\ due[p] + StopTime < provenAt[p] + Lifetime
    /\ http[p] = "serving" => Proven(p)

Held(p) ==
    Proven(p) =>
        /\ Own(p, provenAt[p])
        /\ \A w \in writers : NodeOf[w.process] = NodeOf[p] => w.process = p

Answer(p) ==
    /\ reply[p] # "none" => phase[p] \in {"starting", "renewing"}
    /\ reply[p] = "ok" => Own(p, due[p]) /\ ~Locked(NodeOf[p])
    /\ reply[p] = "refused" => phase[p] = "starting"

WriterOK(w) ==
    /\ w.at <= now /\ provenAt[w.process] <= w.at
    /\ phase[w.process] # "new"
    /\ w.awaited =>
        /\ phase[w.process] \in {"starting", "renewing"}
        /\ reply[w.process] = "none"
        /\ due[w.process] <= w.at
    /\ \A row \in rows[NodeOf[w.process]] :
        IF row.lease = w.process THEN row.expiresAt <= w.at + Lifetime
                                 ELSE row.expiresAt <= w.at

SoleWriters ==
    \A v, w \in writers : NodeOf[v.process] = NodeOf[w.process] => v = w

RowsOK ==
    \A n \in Nodes : \A row \in rows[n] :
        /\ row.expiresAt <= now + Lifetime
        /\ \A other \in rows[n] : other = row

FenceOK ==
    fence => writers = {} /\ \A n \in Nodes : \A row \in rows[n] : Expired(row)

IInv ==
    /\ TypeOK
    /\ SoleWriters
    /\ \A w \in writers : WriterOK(w)
    /\ RowsOK
    /\ FenceOK
    /\ \A p \in Processes : Timing(p) /\ Held(p) /\ Answer(p)

----------------------------------------------------------------------------
\* The assumption on the constants, as the proofs use it.
LEMMA Durations ==
    /\ Lifetime \in Nat /\ RenewalInterval \in Nat /\ OperationLimit \in Nat
    /\ RetryInterval \in Nat /\ StopMargin \in Nat /\ StartLimit \in Nat
    /\ StopTime \in Nat /\ 0 < OperationLimit /\ 0 < RenewalInterval
    /\ RenewalInterval + OperationLimit + StopMargin <= Lifetime
  BY ServingLeaseAssumption

\* The fields of a node, from the type of the nodes.
LEMMA NodeType == \A p \in Processes : NodeOf[p] \in Nodes
  BY ServingLeaseAssumption

\* While p is within its time its lease has not expired.
LEMMA ProvenIsLive ==
    ASSUME IInv, Timely, NEW p \in Processes, Proven(p)
    PROVE  now < provenAt[p] + Lifetime /\ Live(p)
  <1>1. /\ now \in Nat /\ provenAt[p] \in Nat /\ due[p] \in Nat
        /\ Timing(p) /\ Held(p)
    BY DEF IInv, TypeOK
  <1>2. now < provenAt[p] + Lifetime
    BY <1>1, Durations, NodeType DEF Timing, Proven, Timely
  <1>3. PICK row \in rows[NodeOf[p]] :
            row.lease = p /\ row.expiresAt >= provenAt[p] + Lifetime
    BY <1>1 DEF Held, Own
  <1>4. row.expiresAt \in Nat
    BY <1>3, Durations, NodeType, SMTT(30), SMTT(20) DEF IInv, TypeOK, Row
  <1>5. now < row.expiresAt
    BY <1>1, <1>2, <1>3, <1>4, Durations, NodeType
  <1>6. QED
    BY <1>2, <1>3, <1>5 DEF Live

\* An abandoned call leaves the transactions as they are, unawaited.
LEMMA AbandonKeeps ==
    ASSUME IInv, NEW p \in Processes, Abandon(p)
    PROVE  /\ writers' \subseteq Writer
           /\ \A w \in writers' :
                \E v \in writers :
                    /\ w.process = v.process /\ w.at = v.at
                    /\ w.awaited => w = v /\ v.process # p
           /\ \A v, w \in writers' :
                NodeOf[v.process] = NodeOf[w.process] => v = w
           /\ writers = {} => writers' = {}
           /\ reply' = [reply EXCEPT ![p] = "none"]
  <1> DEFINE f(w) == IF w.process = p THEN [w EXCEPT !.awaited = FALSE] ELSE w
  <1>1. writers' = {f(w) : w \in writers}
    BY DEF Abandon
  <1>2. writers \subseteq Writer /\ SoleWriters
    BY DEF IInv, TypeOK
  <1>3. \A w \in writers :
            /\ f(w) \in Writer /\ f(w).process = w.process /\ f(w).at = w.at
            /\ f(w).awaited => f(w) = w /\ w.process # p
    BY <1>2 DEF Writer
  <1> HIDE DEF f
  <1>4. \A v, w \in writers' :
            NodeOf[v.process] = NodeOf[w.process] => v = w
    BY <1>1, <1>2, <1>3, SMTT(30), SMTT(20) DEF SoleWriters
  <1>5. \A w \in writers' :
            \E v \in writers :
                /\ w.process = v.process /\ w.at = v.at
                /\ w.awaited => w = v /\ v.process # p
    BY <1>1, <1>3, SMTT(30), SMTT(20)
  <1>6. writers' \subseteq Writer /\ (writers = {} => writers' = {})
    BY <1>1, <1>3
  <1>7. reply' = [reply EXCEPT ![p] = "none"]
    BY DEF Abandon
  <1>8. QED
    BY <1>4, <1>5, <1>6, <1>7

\* What has to be shown of a step that only p takes, and that leaves the
\* table, the fence and the clock alone.
LEMMA LocalStep ==
    ASSUME IInv, NEW p \in Processes, TypeOK', UNCHANGED <<now, rows, fence>>,
           \A q \in Processes : q # p =>
                /\ phase'[q] = phase[q] /\ http'[q] = http[q]
                /\ reply'[q] = reply[q] /\ provenAt'[q] = provenAt[q]
                /\ due'[q] = due[q],
           \A w \in writers' :
                \E v \in writers :
                    /\ w.process = v.process /\ w.at = v.at
                    /\ w.awaited => w = v,
           SoleWriters', writers = {} => writers' = {},
           \A w \in writers' : w.process = p => WriterOK(w)',
           Timing(p)', Held(p)', Answer(p)'
    PROVE  IInv'
  <1>1. \A w \in writers' : WriterOK(w)'
    <2> SUFFICES ASSUME NEW w \in writers', w.process # p PROVE WriterOK(w)'
      OBVIOUS
    <2>1. PICK v \in writers : /\ w.process = v.process /\ w.at = v.at
                               /\ w.awaited => w = v
      OBVIOUS
    <2>2. WriterOK(v) /\ v.process \in Processes
      BY DEF IInv, TypeOK, Writer
    <2>3. QED
      BY <2>1, <2>2, SMTT(30), SMTT(20) DEF WriterOK
  <1>2. RowsOK'
    BY DEF IInv, RowsOK
  <1>3. FenceOK'
    BY DEF IInv, FenceOK, Expired
  <1>4. ASSUME NEW q \in Processes, q # p
        PROVE  Timing(q)' /\ Held(q)' /\ Answer(q)'
    <2>1. Timing(q) /\ Held(q) /\ Answer(q)
      BY DEF IInv
    <2>2. Timing(q)'
      BY <1>4, <2>1 DEF Timing, Proven
    <2>3. Held(q)'
      BY <1>4, <2>1, SMTT(30), SMTT(20) DEF Held, Own, Proven
    <2>4. Answer(q)'
      BY <1>4, <2>1, SMTT(30), SMTT(20) DEF Answer, Own, Locked
    <2>5. QED
      BY <2>2, <2>3, <2>4
  <1>5. QED
    BY <1>1, <1>2, <1>3, <1>4 DEF IInv

\* A node starts and asks for its first lease.
LEMMA StartPreserves ==
    ASSUME IInv, Timely, NEW p \in Processes, Start(p)
    PROVE  IInv'
  <1>1. TypeOK' /\ TypeOK
    BY DEF IInv, TypeOK, Start
  <1>2. /\ phase[p] = "new" /\ phase'[p] = "starting"
        /\ provenAt'[p] = now /\ due'[p] = now
        /\ now' = now /\ http' = http /\ reply' = reply
    BY <1>1, SMTT(30), SMTT(20) DEF Start, TypeOK
  <1>3. \A w \in writers : w.process # p
    BY <1>2 DEF IInv, WriterOK
  <1>4. http[p] # "serving" /\ reply[p] = "none"
    BY <1>2 DEF IInv, Timing, Proven, Answer, TypeOK
  <1>5. Timing(p)' /\ Held(p)' /\ Answer(p)'
    BY <1>1, <1>2, <1>4, Durations DEF Timing, Proven, Held, Answer, TypeOK
  <1>6. SoleWriters'
    BY DEF IInv, SoleWriters, Start
  <1>7. QED
    BY <1>1, <1>3, <1>5, <1>6, LocalStep DEF Start, TypeOK

\* A start is answered: the node holds the lease it was given.
LEMMA StartedPreserves ==
    ASSUME IInv, Timely, NEW p \in Processes, Started(p)
    PROVE  IInv'
  <1>1. TypeOK' /\ TypeOK
    BY Durations, SMTT(30), SMTT(20) DEF IInv, TypeOK, Started
  <1>2. /\ phase[p] = "starting" /\ reply[p] = "ok"
        /\ phase'[p] = "waiting" /\ reply'[p] = "none"
        /\ due'[p] = now + RenewalInterval
        /\ UNCHANGED <<now, rows, writers, http, provenAt>>
    BY <1>1, SMTT(30), SMTT(20) DEF Started, TypeOK
  <1>3. Timing(p) /\ Answer(p)
    BY DEF IInv
  <1>4. Timing(p)'
    BY <1>1, <1>2, <1>3, Durations DEF Timing, Proven, TypeOK, Timely
  <1>5. Held(p)'
    BY <1>2, <1>3 DEF Held, Own, Answer, Timing, Locked
  <1>6. Answer(p)' /\ SoleWriters'
    BY <1>2 DEF Answer, IInv, SoleWriters
  <1>7. \A w \in writers : w.process # p
    BY <1>2, <1>3 DEF Answer, Locked
  <1>8. QED
    BY <1>1, <1>4, <1>5, <1>6, <1>7, LocalStep DEF Started, TypeOK

\* The timer fires: another attempt to renew, or the node gives up.
LEMMA TimerFiresPreserves ==
    ASSUME IInv, Timely, NEW p \in Processes, TimerFires(p)
    PROVE  IInv'
  <1>1. TypeOK' /\ TypeOK
    BY DEF IInv, TypeOK, TimerFires, Fail
  <1>2. /\ phase[p] = "waiting" /\ now >= due[p] /\ due'[p] = now
        /\ \/ phase'[p] = "failed"
           \/ /\ phase'[p] = "renewing"
              /\ now + OperationLimit <= provenAt[p] + Lifetime - StopMargin
        /\ UNCHANGED <<now, rows, writers, http, reply, provenAt>>
    BY <1>1, Durations, SMTT(30), SMTT(20) DEF TimerFires, Fail, TypeOK
  <1>3. Timing(p) /\ Held(p) /\ Answer(p)
    BY DEF IInv
  <1>4. Timing(p)'
    BY <1>1, <1>2, <1>3, Durations, SMTT(30), SMTT(20) DEF Timing, Proven, TypeOK
  <1>5. Held(p)'
    BY <1>2, <1>3 DEF Held, Own, Proven
  <1>6. Answer(p)' /\ SoleWriters'
    BY <1>2, <1>3 DEF Answer, IInv, SoleWriters
  <1>7. \A w \in writers : w.process = p => WriterOK(w)'
    BY <1>1, <1>2 DEF IInv, WriterOK
  <1>8. QED
    BY <1>1, <1>2, <1>4, <1>5, <1>6, <1>7, LocalStep
    DEF TimerFires, Fail, TypeOK

\* A renewal is answered in time: a lease from the start of the call, or a
\* conflict.
LEMMA RenewalAnsweredPreserves ==
    ASSUME IInv, Timely, NEW p \in Processes, RenewalAnswered(p)
    PROVE  IInv'
  <1>1. TypeOK /\ Timing(p) /\ Answer(p)
    BY DEF IInv
  <1>2. phase[p] = "renewing" /\ reply[p] = "ok"
    BY <1>1 DEF RenewalAnswered, Answer, TypeOK
  <1>3. /\ phase' = [phase EXCEPT ![p] = "waiting"]
        /\ provenAt' = [provenAt EXCEPT ![p] = due[p]]
        /\ due' = [due EXCEPT ![p] = now + RenewalInterval]
        /\ reply' = [reply EXCEPT ![p] = "none"]
        /\ UNCHANGED <<now, rows, writers, fence, http>>
    BY <1>2 DEF RenewalAnswered
  <1>4. TypeOK'
    BY <1>1, <1>3, Durations, SMTT(30), SMTT(20) DEF TypeOK
  <1>5. /\ phase'[p] = "waiting" /\ reply'[p] = "none"
        /\ due'[p] = now + RenewalInterval /\ provenAt'[p] = due[p]
    BY <1>1, <1>3 DEF TypeOK
  <1>6. Timing(p)'
    BY <1>1, <1>2, <1>3, <1>5, Durations, SMTT(30), SMTT(20) DEF Timing, Proven, TypeOK, Timely
  <1>7. Held(p)'
    BY <1>1, <1>2, <1>3, <1>5 DEF Held, Own, Answer, Locked
  <1>8. Answer(p)' /\ SoleWriters'
    BY <1>3, <1>5 DEF Answer, IInv, SoleWriters
  <1>9. \A w \in writers : w.process # p
    BY <1>1, <1>2 DEF Answer, Locked
  <1>10. QED
    BY <1>1, <1>3, <1>4, <1>6, <1>7, <1>8, <1>9, LocalStep DEF TypeOK

\* A renewal times out or breaks; the node keeps the lease it has proved.
LEMMA RenewalFailsPreserves ==
    ASSUME IInv, Timely, NEW p \in Processes, RenewalFails(p)
    PROVE  IInv'
  <1>1. /\ writers' \subseteq Writer
        /\ \A w \in writers' :
             \E v \in writers :
                 /\ w.process = v.process /\ w.at = v.at
                 /\ w.awaited => w = v /\ v.process # p
        /\ SoleWriters' /\ (writers = {} => writers' = {})
        /\ reply' = [reply EXCEPT ![p] = "none"]
    BY AbandonKeeps DEF RenewalFails, SoleWriters
  <1>2. TypeOK' /\ TypeOK
    BY <1>1, Durations, SMTT(30), SMTT(20) DEF IInv, TypeOK, RenewalFails
  <1>3. /\ phase[p] = "renewing"
        /\ phase'[p] = "waiting" /\ reply'[p] = "none"
        /\ due'[p] = now + RetryInterval
        /\ UNCHANGED <<now, rows, http, provenAt>>
    BY <1>1, <1>2, SMTT(30), SMTT(20) DEF RenewalFails, TypeOK
  <1>4. Timing(p) /\ Held(p)
    BY DEF IInv
  <1>5. Timing(p)'
    BY <1>2, <1>3, <1>4, Durations, SMTT(30), SMTT(20) DEF Timing, Proven, TypeOK, Timely
  <1>6. Held(p)'
    BY <1>1, <1>3, <1>4 DEF Held, Own, Proven
  <1>7. Answer(p)'
    BY <1>3 DEF Answer
  <1>8. ASSUME NEW w \in writers', w.process = p PROVE WriterOK(w)'
    <2>1. PICK v \in writers : /\ w.process = v.process /\ w.at = v.at
                               /\ w.awaited => v.process # p
      BY <1>1
    <2>2. WriterOK(v)
      BY DEF IInv
    <2>3. QED
      BY <1>3, <1>8, <2>1, <2>2 DEF WriterOK
  <1>9. QED
    BY <1>1, <1>2, <1>5, <1>6, <1>7, <1>8, LocalStep, SMTT(30), SMTT(20)
    DEF RenewalFails, TypeOK

\* HTTP starts to serve.
LEMMA ServePreserves ==
    ASSUME IInv, Timely, NEW p \in Processes, Serve(p) \/ StopServing(p)
    PROVE  IInv'
  <1>1. TypeOK' /\ TypeOK
    BY DEF IInv, TypeOK, Serve, StopServing
  <1>2. /\ http'[p] = "serving" => Proven(p)
        /\ UNCHANGED <<now, rows, writers, fence, phase, reply, provenAt, due>>
    BY <1>1 DEF Serve, StopServing, Proven, TypeOK
  <1>3. Timing(p) /\ Held(p) /\ Answer(p)
    BY DEF IInv
  <1>4. Timing(p)'
    BY <1>1, <1>2, <1>3 DEF Timing, Proven, TypeOK
  <1>5. Held(p)'
    BY <1>2, <1>3 DEF Held, Own, Proven
  <1>6. Answer(p)' /\ SoleWriters'
    BY <1>2, <1>3 DEF Answer, Own, Locked, IInv, SoleWriters
  <1>7. \A w \in writers : WriterOK(w)'
    BY <1>2 DEF IInv, WriterOK
  <1>8. QED
    BY <1>1, <1>2, <1>4, <1>5, <1>6, <1>7, LocalStep, SMTT(30), SMTT(20)
    DEF Serve, StopServing, TypeOK

\* A process that ends: its start failed, it closes, or it dies.
LEMMA EndPreserves ==
    ASSUME IInv, Timely, NEW p \in Processes,
           StartFails(p) \/ Close(p) \/ Crash(p)
    PROVE  IInv'
  <1>1. /\ writers' \subseteq Writer
        /\ \A w \in writers' :
             \E v \in writers :
                 /\ w.process = v.process /\ w.at = v.at
                 /\ w.awaited => w = v /\ v.process # p
        /\ SoleWriters' /\ (writers = {} => writers' = {})
        /\ reply' = [reply EXCEPT ![p] = "none"]
    BY AbandonKeeps DEF StartFails, Close, Crash, SoleWriters
  <1>2. TypeOK' /\ TypeOK
    BY <1>1, SMTT(30), SMTT(20) DEF IInv, TypeOK, StartFails, Close, Crash
  <1>3. /\ phase'[p] \in {"closed", "withdrawing"} /\ reply'[p] = "none"
        /\ http'[p] = "stopped"
        /\ UNCHANGED <<now, rows, fence, provenAt>>
    BY <1>1, <1>2, SMTT(30), SMTT(20) DEF StartFails, Close, Crash, TypeOK
  <1>4. Timing(p)' /\ Held(p)' /\ Answer(p)'
    BY <1>3 DEF IInv, Timing, Proven, Held, Answer
  <1>5. ASSUME NEW w \in writers', w.process = p PROVE WriterOK(w)'
    <2>1. PICK v \in writers : /\ w.process = v.process /\ w.at = v.at
                               /\ w.awaited => v.process # p
      BY <1>1
    <2>2. WriterOK(v)
      BY DEF IInv
    <2>3. QED
      BY <1>3, <1>5, <2>1, <2>2 DEF WriterOK
  <1>6. \A q \in Processes : q # p =>
            /\ phase'[q] = phase[q] /\ http'[q] = http[q]
            /\ reply'[q] = reply[q] /\ provenAt'[q] = provenAt[q]
            /\ due'[q] = due[q]
    BY <1>1, <1>2, SMTT(30), SMTT(20) DEF StartFails, Close, Crash, TypeOK
  <1>7. QED
    BY <1>1, <1>2, <1>3, <1>4, <1>5, <1>6, LocalStep

\* A withdrawal fails and leaves the row behind.
LEMMA WithdrawFailsPreserves ==
    ASSUME IInv, Timely, NEW p \in Processes, WithdrawFails(p)
    PROVE  IInv'
  <1>1. TypeOK' /\ TypeOK
    BY DEF IInv, TypeOK, WithdrawFails
  <1>2. /\ phase[p] = "withdrawing" /\ phase'[p] = "closed"
        /\ UNCHANGED <<now, rows, writers, fence, http, reply, provenAt, due>>
    BY <1>1 DEF WithdrawFails, TypeOK
  <1>3. http[p] # "serving" /\ reply[p] = "none"
    BY <1>1, <1>2 DEF IInv, Timing, Proven, Answer, TypeOK
  <1>4. Timing(p)' /\ Held(p)' /\ Answer(p)' /\ SoleWriters'
    BY <1>2, <1>3 DEF IInv, Timing, Proven, Held, Answer, SoleWriters
  <1>5. \A w \in writers : w.process = p => WriterOK(w)'
    BY <1>2 DEF IInv, WriterOK
  <1>6. QED
    BY <1>1, <1>2, <1>4, <1>5, LocalStep DEF WithdrawFails, TypeOK

----------------------------------------------------------------------------
(* The table, the fence and the clock                                      *)

\* A transaction reads the row and decides.
LEMMA BeginUpsertPreserves ==
    ASSUME IInv, Timely, NEW p \in Processes, BeginUpsert(p)
    PROVE  IInv'
  <1>0. TypeOK
    BY DEF IInv
  <1>1. TypeOK' /\ TypeOK
    <2>1. CASE Refused(p)
      BY <1>0, <2>1 DEF TypeOK, BeginUpsert
    <2>2. CASE ~Refused(p)
      <3>1. [process |-> p, at |-> now, awaited |-> TRUE] \in Writer
        BY <1>0 DEF TypeOK, Writer
      <3>2. QED
        BY <1>0, <2>2, <3>1 DEF TypeOK, BeginUpsert
    <2>3. QED
      BY <2>1, <2>2
  <1>2. /\ UNCHANGED <<now, rows, fence, phase, http, provenAt, due>>
        /\ phase[p] \in {"starting", "renewing"} /\ reply[p] = "none"
        /\ ~fence /\ ~Locked(NodeOf[p])
    BY DEF BeginUpsert
  <1>3. Timing(p) /\ Held(p) /\ Answer(p)
    BY DEF IInv
  <1>4. CASE Refused(p)
    <2>1. reply' = [reply EXCEPT ![p] = "refused"] /\ writers' = writers
      BY <1>4 DEF BeginUpsert
    <2>2. phase[p] = "starting"
      <3>1. SUFFICES ASSUME phase[p] = "renewing" PROVE FALSE
        BY <1>2
      <3>2. Live(p) /\ Own(p, provenAt[p])
        BY <1>3, <3>1, ProvenIsLive DEF Proven, Held
      <3>3. PICK row \in rows[NodeOf[p]] : row.lease = p /\ now < row.expiresAt
        BY <3>2 DEF Live
      <3>4. PICK bad \in rows[NodeOf[p]] : bad.lease = p => bad.expiresAt <= now
        BY <1>4 DEF Refused, Expired
      <3>5. bad = row /\ row.expiresAt \in Nat /\ now \in Nat
        BY <1>1, <3>3, <3>4, NodeType, SMTT(30), SMTT(20) DEF IInv, RowsOK, TypeOK, Row
      <3>6. QED
        BY <3>3, <3>4, <3>5
    <2>3. Timing(p)' /\ Held(p)'
      BY <1>2, <1>3, <2>1 DEF Timing, Held, Proven, Own
    <2>4. Answer(p)' /\ SoleWriters'
      BY <1>1, <1>2, <2>1, <2>2, SMTT(30), SMTT(20) DEF Answer, TypeOK, IInv, SoleWriters
    <2>5. \A w \in writers : w.process # p
      BY <1>2 DEF Locked
    <2>6. QED
      BY <1>1, <1>2, <2>1, <2>3, <2>4, <2>5, LocalStep DEF TypeOK
  <1>5. CASE ~Refused(p)
    <2>1. PICK u : /\ u = [process |-> p, at |-> now, awaited |-> TRUE]
                   /\ writers' = writers \cup {u} /\ reply' = reply
      BY <1>5 DEF BeginUpsert
    <2>2. u.process = p /\ u.at = now
      BY <2>1
    <2>3. SoleWriters'
      <3>1. SoleWriters /\ \A w \in writers : NodeOf[w.process] # NodeOf[p]
        BY <1>2 DEF IInv, Locked
      <3>2. ASSUME NEW v \in writers', NEW w \in writers',
                   NodeOf[v.process] = NodeOf[w.process]
            PROVE  v = w
        <4>1. (v \in writers \/ v = u) /\ (w \in writers \/ w = u)
          BY <2>1
        <4>2. CASE v \in writers /\ w \in writers
          BY <3>1, <3>2, <4>2 DEF SoleWriters
        <4>3. CASE v = u \/ w = u
          BY <2>2, <3>1, <3>2, <4>1, <4>3
        <4>4. QED
          BY <4>1, <4>2, <4>3
      <3>3. QED
        BY <3>2 DEF SoleWriters
    <2>4. \A row \in rows[NodeOf[p]] :
            IF row.lease = p THEN row.expiresAt <= now + Lifetime
                             ELSE row.expiresAt <= now
      BY <1>5, NodeType DEF IInv, RowsOK, Refused, Expired
    <2>5. provenAt[p] <= now /\ due[p] <= now /\ now <= now
      BY <1>1, <1>2, <1>3, SMTT(30), SMTT(20) DEF Timing, TypeOK
    <2>6. WriterOK(u)'
      BY <1>2, <2>1, <2>2, <2>4, <2>5 DEF WriterOK
    <2>7. \A w \in writers' : WriterOK(w)'
      <3>1. \A w \in writers : WriterOK(w)
        BY DEF IInv
      <3>2. \A w \in writers : WriterOK(w)'
        BY <1>2, <2>1, <3>1 DEF WriterOK
      <3>3. QED
        BY <2>1, <2>6, <3>2
    <2>8. RowsOK' /\ FenceOK'
      BY <1>2 DEF IInv, RowsOK, FenceOK
    <2>9. ASSUME NEW q \in Processes
          PROVE  Timing(q)' /\ Held(q)' /\ Answer(q)'
      <3>1. Timing(q) /\ Held(q) /\ Answer(q)
        BY DEF IInv
      <3>2. Timing(q)'
        BY <1>2, <3>1 DEF Timing, Proven
      <3>3. ASSUME q # p, NodeOf[q] = NodeOf[p],
                   Own(q, provenAt[q]) \/ Own(q, due[q]), Live(q)
            PROVE  FALSE
        <4>1. PICK row \in rows[NodeOf[p]] : row.lease = q /\ now < row.expiresAt
          BY <3>3 DEF Live
        <4>2. row.expiresAt \in Nat /\ now \in Nat
          BY <1>1, NodeType, SMTT(30), SMTT(20) DEF TypeOK, Row
        <4>3. ~Expired(row)
          BY <4>1, <4>2 DEF Expired
        <4>4. QED
          BY <1>5, <3>3, <4>1, <4>3 DEF Refused
      <3>4. Held(q)'
        <4>1. SUFFICES ASSUME Proven(q) PROVE Held(q)'
          BY <1>2 DEF Held, Proven
        <4>2. Live(q) /\ Own(q, provenAt[q])
          BY <3>1, <4>1, ProvenIsLive DEF Held
        <4>3. q = p \/ NodeOf[q] # NodeOf[p]
          BY <3>3, <4>2
        <4>4. QED
          BY <1>2, <2>1, <2>2, <3>1, <4>1, <4>3 DEF Held, Own
      <3>5. Answer(q)'
        <4>1. SUFFICES ASSUME reply[q] = "ok" PROVE Answer(q)'
          BY <1>2, <2>1, <3>1 DEF Answer
        <4>2. /\ Own(q, due[q]) /\ ~Locked(NodeOf[q])
              /\ phase[q] \in {"starting", "renewing"}
          BY <3>1, <4>1 DEF Answer
        <4>3. now < due[q] + Lifetime
          BY <1>1, <3>1, <4>2, Durations, SMTT(30), SMTT(20) DEF Timing, Timely, TypeOK
        <4>4. Live(q)
          BY <1>1, <4>2, <4>3, Durations, NodeType, SMTT(30), SMTT(20) DEF Live, Own, TypeOK, Row
        <4>5. NodeOf[q] # NodeOf[p]
          BY <1>2, <3>3, <4>1, <4>2, <4>4
        <4>6. QED
          BY <1>2, <2>1, <2>2, <3>1, <4>5 DEF Answer, Own, Locked
      <3>6. QED
        BY <3>2, <3>4, <3>5
    <2>10. QED
      BY <1>1, <2>3, <2>7, <2>8, <2>9 DEF IInv
  <1>6. QED
    BY <1>4, <1>5

\* A transaction commits, possibly after its caller gave up.
LEMMA CommitPreserves ==
    ASSUME IInv, Timely, NEW w \in writers, Commit(w)
    PROVE  IInv'
  <1> DEFINE n == NodeOf[w.process]
             row == [lease |-> w.process, expiresAt |-> w.at + Lifetime]
  <1>1. TypeOK /\ WriterOK(w) /\ SoleWriters
    BY DEF IInv
  <1>2. /\ w.process \in Processes /\ w.at \in Nat /\ n \in Nodes
        /\ w.awaited \in BOOLEAN
    BY <1>1, NodeType DEF TypeOK, Writer
  <1>3. /\ row \in Row /\ row.lease = w.process
        /\ row.expiresAt = w.at + Lifetime
    BY <1>2, Durations DEF Row
  <1>4. /\ rows'[n] = {row}
        /\ \A m \in Nodes : m # n => rows'[m] = rows[m]
    BY <1>1, <1>2 DEF Commit, TypeOK
  <1>5. /\ writers' = writers \ {w}
        /\ \A v \in writers' : NodeOf[v.process] # n
        /\ UNCHANGED <<now, fence, phase, http, provenAt, due>>
    BY <1>1 DEF Commit, SoleWriters
  <1>6. /\ w.awaited => reply'[w.process] = "ok"
        /\ ~w.awaited => reply'[w.process] = reply[w.process]
        /\ \A q \in Processes : q # w.process => reply'[q] = reply[q]
    BY <1>1, <1>2 DEF Commit, TypeOK
  <1>7. TypeOK'
    <2>1. rows' \in [Nodes -> SUBSET Row]
      BY <1>1, <1>3 DEF Commit, TypeOK
    <2>2. reply' \in [Processes -> {"none", "ok", "refused"}]
      BY <1>1, <1>2 DEF Commit, TypeOK
    <2>3. QED
      BY <1>1, <1>5, <2>1, <2>2 DEF TypeOK
  <1> HIDE DEF row, n
  <1>8. SoleWriters'
    BY <1>1, <1>5 DEF SoleWriters
  <1>9. ASSUME NEW v \in writers' PROVE WriterOK(v)'
    <2>1. /\ WriterOK(v) /\ v \in writers /\ v.process \in Processes
          /\ NodeOf[v.process] \in Nodes /\ NodeOf[v.process] # n
      BY <1>1, <1>5, NodeType DEF IInv, TypeOK, Writer
    <2>2. /\ v.process # w.process
          /\ rows'[NodeOf[v.process]] = rows[NodeOf[v.process]]
      BY <1>4, <2>1 DEF n
    <2>3. QED
      BY <1>5, <1>6, <2>1, <2>2 DEF WriterOK
  <1>10. RowsOK'
    <2>1. row.expiresAt <= now + Lifetime
      BY <1>1, <1>2, <1>3, Durations, SMTT(30), SMTT(20) DEF WriterOK, TypeOK
    <2>2. QED
      BY <1>4, <1>5, <2>1, SMTT(30), SMTT(20) DEF IInv, RowsOK
  <1>11. FenceOK'
    BY <1>5 DEF IInv, FenceOK
  <1>12. ASSUME NEW p \in Processes
         PROVE  Timing(p)' /\ Held(p)' /\ Answer(p)'
    <2>1. Timing(p) /\ Held(p) /\ Answer(p)
      BY DEF IInv
    <2>2. Timing(p)'
      BY <1>5, <2>1 DEF Timing, Proven
    <2>3. CASE NodeOf[p] # n
      <3>1. rows'[NodeOf[p]] = rows[NodeOf[p]] /\ reply'[p] = reply[p]
        BY <1>4, <1>6, <2>3, NodeType DEF n
      <3>2. Held(p)'
        BY <1>5, <2>1, <3>1 DEF Held, Own, Proven
      <3>3. Answer(p)'
        BY <1>5, <2>1, <3>1 DEF Answer, Own, Locked
      <3>4. QED
        BY <2>2, <3>2, <3>3
    <2>4. CASE NodeOf[p] = n /\ p # w.process
      <3>1. ~Proven(p) /\ reply[p] # "ok" /\ reply'[p] = reply[p]
        BY <1>6, <2>1, <2>4 DEF Held, Answer, Locked, n
      <3>2. QED
        BY <1>5, <2>1, <2>2, <3>1 DEF Held, Answer, Proven
    <2>5. CASE p = w.process
      <3>1. /\ rows'[NodeOf[p]] = {row}
            /\ provenAt'[p] = provenAt[p] /\ due'[p] = due[p]
        BY <1>4, <1>5, <2>5 DEF n
      <3>2. Own(p, provenAt[p])'
        BY <1>1, <1>2, <1>3, <2>5, <3>1, Durations, SMTT(30), SMTT(20) DEF Own, WriterOK, TypeOK
      <3>3. Held(p)'
        BY <1>5, <2>5, <3>2 DEF Held, n
      <3>4. ~Locked(NodeOf[p])'
        BY <1>5, <2>5 DEF Locked, n
      <3>5. CASE w.awaited
        <4>1. /\ due[p] <= w.at /\ phase'[p] \in {"starting", "renewing"}
              /\ reply'[p] = "ok"
          BY <1>1, <1>5, <1>6, <2>5, <3>5 DEF WriterOK
        <4>2. row.expiresAt >= due[p] + Lifetime
          <5>1. due[p] \in Nat
            BY <1>1 DEF TypeOK
          <5>2. QED
            BY <1>2, <1>3, <4>1, <5>1, Durations
        <4>3. Own(p, due[p])'
          BY <1>3, <2>5, <3>1, <4>2 DEF Own
        <4>4. QED
          BY <2>2, <3>3, <3>4, <4>1, <4>3 DEF Answer
      <3>6. CASE ~w.awaited
        <4>1. reply[p] # "ok" /\ reply'[p] = reply[p]
          BY <1>6, <2>1, <2>5, <3>6 DEF Answer, Locked
        <4>2. QED
          BY <1>5, <2>1, <2>2, <3>3, <4>1 DEF Answer
      <3>7. QED
        BY <1>2, <3>5, <3>6
    <2>6. QED
      BY <2>3, <2>4, <2>5
  <1>13. QED
    BY <1>7, <1>8, <1>9, <1>10, <1>11, <1>12 DEF IInv

\* A transaction rolls back.
LEMMA RollbackPreserves ==
    ASSUME IInv, Timely, NEW w \in writers, Rollback(w)
    PROVE  IInv'
  <1>1. /\ writers' = writers \ {w}
        /\ UNCHANGED <<now, rows, fence, phase, http, reply, provenAt, due>>
    BY DEF Rollback
  <1>2. TypeOK' /\ SoleWriters' /\ RowsOK' /\ FenceOK'
    BY <1>1 DEF IInv, TypeOK, SoleWriters, RowsOK, FenceOK, Expired
  <1>3. \A v \in writers' : WriterOK(v)'
    BY <1>1 DEF IInv, WriterOK
  <1>4. ASSUME NEW p \in Processes
        PROVE  Timing(p)' /\ Held(p)' /\ Answer(p)'
    <2>1. Timing(p) /\ Held(p) /\ Answer(p)
      BY DEF IInv
    <2>2. Timing(p)'
      BY <1>1, <2>1 DEF Timing, Proven
    <2>3. Held(p)'
      BY <1>1, <2>1 DEF Held, Own, Proven
    <2>4. Answer(p)'
      BY <1>1, <2>1 DEF Answer, Own, Locked
    <2>5. QED
      BY <2>2, <2>3, <2>4
  <1>5. QED
    BY <1>2, <1>3, <1>4 DEF IInv

\* The offline command begins or ends its work.
LEMMA OfflinePreserves ==
    ASSUME IInv, Timely, BeginOffline \/ EndOffline
    PROVE  IInv'
  <1>1. /\ UNCHANGED <<now, rows, writers, phase, http, reply, provenAt, due>>
        /\ fence' \in BOOLEAN
        /\ fence' => /\ writers = {}
                     /\ \A n \in Nodes : \A row \in rows[n] : Expired(row)
    BY DEF BeginOffline, EndOffline
  <1>2. TypeOK' /\ SoleWriters' /\ RowsOK' /\ FenceOK'
    BY <1>1 DEF IInv, TypeOK, SoleWriters, RowsOK, FenceOK, Expired
  <1>3. \A v \in writers' : WriterOK(v)'
    BY <1>1 DEF IInv, WriterOK
  <1>4. ASSUME NEW p \in Processes
        PROVE  Timing(p)' /\ Held(p)' /\ Answer(p)'
    <2>1. Timing(p) /\ Held(p) /\ Answer(p)
      BY DEF IInv
    <2>2. QED
      BY <1>1, <2>1 DEF Timing, Proven, Held, Own, Answer, Locked
  <1>5. QED
    BY <1>2, <1>3, <1>4 DEF IInv

\* A node withdraws its row.
LEMMA WithdrawPreserves ==
    ASSUME IInv, Timely, NEW p \in Processes, Withdraw(p)
    PROVE  IInv'
  <1>1. TypeOK
    BY DEF IInv
  <1>2. /\ phase[p] = "withdrawing" /\ phase'[p] = "closed" /\ ~fence
        /\ \A q \in Processes : q # p => phase'[q] = phase[q]
        /\ \A n \in Nodes : rows'[n] \subseteq rows[n]
        /\ \A n \in Nodes : \A row \in rows[n] :
                row.lease # p => row \in rows'[n]
        /\ UNCHANGED <<now, writers, fence, http, reply, provenAt, due>>
    BY <1>1 DEF Withdraw, TypeOK
  <1>3. TypeOK'
    BY <1>1, <1>2 DEF TypeOK, Withdraw
  <1>4. SoleWriters' /\ FenceOK' /\ RowsOK'
    BY <1>2 DEF IInv, SoleWriters, FenceOK, RowsOK
  <1>5. ASSUME NEW w \in writers' PROVE WriterOK(w)'
    <2>1. WriterOK(w) /\ w.process \in Processes /\ NodeOf[w.process] \in Nodes
      BY <1>1, <1>2, NodeType DEF IInv, TypeOK, Writer
    <2>2. QED
      BY <1>2, <2>1 DEF WriterOK
  <1>6. ASSUME NEW q \in Processes
        PROVE  Timing(q)' /\ Held(q)' /\ Answer(q)'
    <2>1. Timing(q) /\ Held(q) /\ Answer(q) /\ NodeOf[q] \in Nodes
      BY NodeType DEF IInv
    <2>2. CASE q = p
      <3>1. ~Proven(q) /\ ~Proven(q)' /\ reply[q] = "none"
        BY <1>1, <1>2, <2>1, <2>2 DEF Proven, Answer, TypeOK
      <3>2. QED
        BY <1>2, <2>1, <2>2, <3>1 DEF Timing, Held, Answer
    <2>3. CASE q # p
      <3>1. Timing(q)'
        BY <1>2, <2>1, <2>3 DEF Timing, Proven
      <3>2. ASSUME NEW t, Own(q, t) PROVE rows'[NodeOf[q]] = rows[NodeOf[q]]
        <4>1. \A row \in rows[NodeOf[q]] : row \in rows'[NodeOf[q]]
          BY <1>2, <2>1, <2>3, <3>2 DEF Own
        <4>2. QED
          BY <1>2, <2>1, <4>1
      <3>3. Held(q)'
        BY <1>2, <2>1, <2>3, <3>2 DEF Held, Own, Proven
      <3>4. Answer(q)'
        BY <1>2, <2>1, <2>3, <3>2 DEF Answer, Own, Locked
      <3>5. QED
        BY <3>1, <3>3, <3>4
    <2>4. QED
      BY <2>2, <2>3
  <1>7. QED
    BY <1>3, <1>4, <1>5, <1>6 DEF IInv

\* The clocks run, within what the timeouts allow.
LEMMA TickPreserves ==
    ASSUME IInv, Timely, Tick
    PROVE  IInv'
  <1>1. TypeOK /\ now' = now + 1 /\ (\A p \in Processes : OnTime(p))
        /\ UNCHANGED <<rows, writers, fence, phase, http, reply, provenAt, due>>
    BY DEF IInv, Tick
  <1>2. TypeOK' /\ SoleWriters'
    BY <1>1, SMTT(30), SMTT(20) DEF TypeOK, IInv, SoleWriters
  <1>3. ASSUME NEW w \in writers' PROVE WriterOK(w)'
    <2>1. WriterOK(w) /\ w.at \in Nat
      BY <1>1 DEF IInv, TypeOK, Writer
    <2>2. w.at <= now'
      <3>1. now \in Nat /\ w.at <= now
        BY <1>1, <2>1 DEF TypeOK, WriterOK
      <3>2. QED
        BY <1>1, <2>1, <3>1
    <2>3. QED
      BY <1>1, <2>1, <2>2 DEF WriterOK
  <1>4. \A n \in Nodes : \A row \in rows[n] : row.expiresAt \in Nat
    BY <1>1, SMTT(30), SMTT(20) DEF TypeOK, Row
  <1>5. RowsOK'
    BY <1>1, <1>4, Durations, SMTT(30), SMTT(20) DEF IInv, RowsOK, TypeOK
  <1>6. FenceOK'
    BY <1>1, <1>4, SMTT(30), SMTT(20) DEF IInv, FenceOK, Expired, TypeOK
  <1>7. ASSUME NEW p \in Processes
        PROVE  Timing(p)' /\ Held(p)' /\ Answer(p)'
    <2>1. Timing(p) /\ Held(p) /\ Answer(p) /\ OnTime(p)
      BY <1>1 DEF IInv
    <2>2. now \in Nat /\ due[p] \in Nat /\ provenAt[p] \in Nat
      BY <1>1 DEF TypeOK
    <2>3. /\ now' = now + 1 /\ phase'[p] = phase[p] /\ due'[p] = due[p]
          /\ http'[p] = http[p] /\ provenAt'[p] = provenAt[p]
      BY <1>1
    <2>4. Proven(p)' => Proven(p)
      BY <2>2, <2>3, Durations DEF Proven
    <2>5. Held(p)' /\ Answer(p)'
      BY <1>1, <2>1, <2>4 DEF Held, Own, Answer, Locked
    <2>6. http[p] = "serving" => Proven(p)'
      <3>1. CASE http[p] = "serving" /\ phase[p] = "failed"
        BY <2>1, <2>2, <2>3, <3>1, Durations DEF OnTime, Proven
      <3>2. CASE http[p] = "serving" /\ phase[p] # "failed"
        BY <2>1, <2>3, <3>2 DEF Timing, Proven
      <3>3. QED
        BY <3>1, <3>2
    <2>7. Timing(p)'
      <3>1. provenAt[p] <= now + 1
        <4>1. provenAt[p] <= now
          BY <2>1 DEF Timing
        <4>2. QED
          BY <2>2, <4>1
      <3>2. phase[p] = "starting" =>
                /\ provenAt[p] = due[p] /\ due[p] <= now + 1
                /\ now + 1 <= due[p] + StartLimit
        <4>1. phase[p] = "starting" =>
                /\ provenAt[p] = due[p] /\ due[p] <= now
                /\ now < due[p] + StartLimit
          BY <2>1 DEF Timing, OnTime
        <4>2. QED
          BY <2>2, <4>1, Durations
      <3>3. phase[p] = "waiting" =>
                now + 1 <= due[p] /\ due[p] + StopTime < provenAt[p] + Lifetime
        <4>1. phase[p] = "waiting" =>
                now < due[p] /\ due[p] + StopTime < provenAt[p] + Lifetime
          BY <2>1 DEF Timing, OnTime
        <4>2. QED
          BY <2>2, <4>1, Durations
      <3>4. phase[p] = "renewing" =>
                /\ provenAt[p] <= due[p] /\ due[p] <= now + 1
                /\ now + 1 <= due[p] + OperationLimit
                /\ due[p] + OperationLimit <= provenAt[p] + Lifetime - StopMargin
        <4>1. phase[p] = "renewing" =>
                /\ provenAt[p] <= due[p] /\ due[p] <= now
                /\ now < due[p] + OperationLimit
                /\ due[p] + OperationLimit <= provenAt[p] + Lifetime - StopMargin
          BY <2>1 DEF Timing, OnTime
        <4>2. QED
          BY <2>2, <4>1, Durations
      <3>5. phase[p] = "failed" =>
                due[p] <= now + 1 /\ due[p] + StopTime < provenAt[p] + Lifetime
        <4>1. phase[p] = "failed" =>
                due[p] <= now /\ due[p] + StopTime < provenAt[p] + Lifetime
          BY <2>1 DEF Timing
        <4>2. QED
          BY <2>2, <4>1, Durations
      <3>6. QED
        BY <2>3, <2>6, <3>1, <3>2, <3>3, <3>4, <3>5 DEF Timing
    <2>8. QED
      BY <2>5, <2>7
  <1>8. QED
    BY <1>2, <1>3, <1>5, <1>6, <1>7 DEF IInv

----------------------------------------------------------------------------
\* Every reachable state satisfies the inductive invariant.
THEOREM IInvHolds == ASSUME Timely PROVE Spec => []IInv
  <1>1. Init => IInv
    <2>1. SUFFICES ASSUME Init PROVE IInv
      OBVIOUS
    <2>2. TypeOK
      BY <2>1 DEF Init, TypeOK
    <2>3. /\ SoleWriters /\ RowsOK /\ FenceOK
          /\ \A w \in writers : WriterOK(w)
      BY <2>1 DEF Init, SoleWriters, RowsOK, FenceOK
    <2>4. ASSUME NEW p \in Processes PROVE Timing(p) /\ Held(p) /\ Answer(p)
      <3>1. /\ phase[p] = "new" /\ http[p] = "starting" /\ reply[p] = "none"
            /\ provenAt[p] = 0 /\ now = 0
        BY <2>1 DEF Init
      <3>2. QED
        BY <3>1 DEF Timing, Proven, Held, Answer
    <2>5. QED
      BY <2>2, <2>3, <2>4 DEF IInv
  <1>2. IInv /\ [Next]_vars => IInv'
    <2>1. SUFFICES ASSUME IInv, [Next]_vars PROVE IInv'
      OBVIOUS
    <2>2. ASSUME NEW p \in Processes, Step(p) PROVE IInv'
      BY <2>1, <2>2, BeginUpsertPreserves, StartPreserves, StartedPreserves,
         EndPreserves, TimerFiresPreserves, RenewalAnsweredPreserves,
         RenewalFailsPreserves, ServePreserves,
         WithdrawPreserves, WithdrawFailsPreserves DEF Step
    <2>3. ASSUME NEW w \in writers, Commit(w) \/ Rollback(w) PROVE IInv'
      BY <2>1, <2>3, CommitPreserves, RollbackPreserves
    <2>4. CASE BeginOffline \/ EndOffline
      BY <2>1, <2>4, OfflinePreserves
    <2>5. CASE Tick
      BY <2>1, <2>5, TickPreserves
    <2>6. CASE UNCHANGED vars
      <3>1. UNCHANGED <<now, rows, writers, fence, phase, http, reply,
                        provenAt, due>>
        BY <2>6 DEF vars
      <3>2. TypeOK' /\ SoleWriters' /\ RowsOK' /\ FenceOK'
        BY <2>1, <3>1
        DEF IInv, TypeOK, SoleWriters, RowsOK, FenceOK, Expired
      <3>3. \A w \in writers' : WriterOK(w)'
        BY <2>1, <3>1 DEF IInv, WriterOK
      <3>4. ASSUME NEW p \in Processes
            PROVE  Timing(p)' /\ Held(p)' /\ Answer(p)'
        <4>1. Timing(p) /\ Held(p) /\ Answer(p)
          BY <2>1 DEF IInv
        <4>2. Timing(p)'
          BY <3>1, <4>1 DEF Timing, Proven
        <4>3. Held(p)' /\ Answer(p)'
          BY <3>1, <4>1 DEF Held, Proven, Own, Answer, Locked
        <4>4. QED
          BY <4>2, <4>3
      <3>5. QED
        BY <3>2, <3>3, <3>4 DEF IInv
    <2>7. QED
      BY <2>1, <2>2, <2>3, <2>4, <2>5, <2>6 DEF Next
  <1>3. QED
    BY <1>1, <1>2, PTL DEF Spec

\* Every reachable state has its types.
THEOREM TypeCorrect == ASSUME Timely PROVE Spec => []TypeOK
  <1>1. IInv => TypeOK
    BY DEF IInv
  <1>2. QED
    BY <1>1, IInvHolds, PTL

\* Whoever serves HTTP holds a live lease, for any number of processes and
\* nodes and any timing in which the first Upsert returns, a retry is made and
\* HTTP closes soon enough.
THEOREM ServesProven == ASSUME Timely PROVE Spec => []ServingProven
  <1>1. IInv => ServingProven
    <2>1. SUFFICES ASSUME IInv, NEW p \in Processes, http[p] = "serving"
                   PROVE  Live(p)
      BY DEF ServingProven
    <2>2. Proven(p)
      BY <2>1 DEF IInv, Timing
    <2>3. QED
      BY <2>1, <2>2, ProvenIsLive
  <1>2. QED
    BY <1>1, IInvHolds, PTL

\* An offline command that passed its check works while nobody serves.
THEOREM OfflineWorksAlone == ASSUME Timely PROVE Spec => []OfflineAlone
  <1>1. IInv => OfflineAlone
    <2>1. SUFFICES ASSUME IInv, fence, NEW p \in Processes, http[p] = "serving"
                   PROVE  FALSE
      BY DEF OfflineAlone
    <2>2. Proven(p)
      BY <2>1 DEF IInv, Timing
    <2>3. Live(p)
      BY <2>1, <2>2, ProvenIsLive
    <2>4. PICK row \in rows[NodeOf[p]] : now < row.expiresAt
      BY <2>3 DEF Live
    <2>5. row.expiresAt \in Nat /\ now \in Nat /\ row.expiresAt <= now
      BY <2>1, <2>4, Durations, NodeType, SMTT(30), SMTT(20)
      DEF IInv, TypeOK, Row, FenceOK, Expired
    <2>6. QED
      BY <2>4, <2>5
  <1>2. QED
    BY <1>1, IInvHolds, PTL

\* A renewing process is never refused by the store.
THEOREM NeverRefused == ASSUME Timely PROVE Spec => []RenewalNeverRefused
  <1>1. IInv => RenewalNeverRefused
    BY DEF IInv, Answer, RenewalNeverRefused
  <1>2. QED
    BY <1>1, IInvHolds, PTL

\* Only its own process touches a live lease.
THEOREM KeepsLiveLeases == ASSUME Timely PROVE Spec => LiveLeaseKept
  <1> DEFINE A == \A n \in Nodes : \A row \in rows[n] : ~Expired(row) =>
            \/ \E new \in rows'[n] :
                    new.lease = row.lease /\ new.expiresAt >= row.expiresAt
            \/ rows'[n] = {} /\ phase[row.lease] = "withdrawing"
  <1>1. IInv /\ [Next]_vars => A
    <2>1. SUFFICES ASSUME IInv, [Next]_vars, NEW n \in Nodes,
                          NEW row \in rows[n], ~Expired(row)
                   PROVE  \/ \E new \in rows'[n] :
                                /\ new.lease = row.lease
                                /\ new.expiresAt >= row.expiresAt
                          \/ rows'[n] = {} /\ phase[row.lease] = "withdrawing"
      OBVIOUS
    <2>2. TypeOK /\ row \in Row /\ row.expiresAt \in Nat /\ now \in Nat
      BY <2>1, SMTT(30), SMTT(20) DEF IInv, TypeOK, Row
    <2>3. CASE rows' = rows
      BY <2>1, <2>2, <2>3
    <2>4. ASSUME NEW p \in Processes, Withdraw(p)
          PROVE  \/ row \in rows'[n]
                 \/ rows'[n] = {} /\ phase[row.lease] = "withdrawing"
      <3>1. /\ phase[p] = "withdrawing"
            /\ rows'[n] = rows[n]
               \/ rows'[n] = {other \in rows[n] : other.lease # p}
        BY <2>1, <2>2, <2>4 DEF Withdraw, TypeOK
      <3>2. \A other \in rows[n] : other = row
        BY <2>1 DEF IInv, RowsOK
      <3>3. QED
        BY <2>1, <3>1, <3>2
    <2>5. ASSUME NEW w \in writers, Commit(w)
          PROVE  \E new \in rows'[n] :
                    /\ new.lease = row.lease /\ new.expiresAt >= row.expiresAt
      <3>1. /\ WriterOK(w) /\ w.at \in Nat /\ w.process \in Processes
            /\ NodeOf[w.process] \in Nodes
        BY <2>1, <2>2, Durations, NodeType DEF IInv, TypeOK, Writer
      <3>2. CASE NodeOf[w.process] # n
        <4>1. rows'[n] = rows[n]
          BY <2>2, <2>5, <3>2 DEF Commit, TypeOK
        <4>2. QED
          BY <2>1, <2>2, <4>1
      <3>3. CASE NodeOf[w.process] = n
        <4>1. rows'[n] = {[lease |-> w.process, expiresAt |-> w.at + Lifetime]}
          BY <2>2, <2>5, <3>1, <3>3 DEF Commit, TypeOK
        <4>2. row.lease = w.process /\ row.expiresAt <= w.at + Lifetime
          <5>1. ~(row.expiresAt <= w.at)
            BY <2>1, <2>2, <3>1 DEF WriterOK, Expired
          <5>2. QED
            BY <2>1, <3>1, <3>3, <5>1 DEF WriterOK
        <4>3. QED
          BY <4>1, <4>2
      <3>4. QED
        BY <3>2, <3>3
    <2>6. \/ rows' = rows
          \/ \E p \in Processes : Withdraw(p)
          \/ \E w \in writers : Commit(w)
      BY <2>1
      DEF Next, Step, vars, BeginUpsert, Start, Started, StartFails,
          TimerFires, RenewalAnswered, RenewalFails, Serve,
          StopServing, Close, WithdrawFails, Crash, Rollback, BeginOffline,
          EndOffline, Tick
    <2>7. QED
      BY <2>1, <2>2, <2>3, <2>4, <2>5, <2>6
  <1>2. IInv /\ [Next]_vars => [A]_vars
    BY <1>1
  <1>3. QED
    BY <1>2, IInvHolds, PTL DEF Spec, LiveLeaseKept
=============================================================================
