------------------------- MODULE MailDeliveryProofs -------------------------
(***************************************************************************)
(* The delivery row, the Job row and the transport's answers, for any      *)
(* number of nodes, sends and operator retries, with and without a fence.  *)
(*                                                                         *)
(* A run that is to write the delivery knows the row of some revision: it  *)
(* is the row itself or an older one.  Every send is numbered by the start *)
(* that counted it, so at most one run can still report on it.             *)
(***************************************************************************)
EXTENDS MailDelivery, TLAPS

\* A leaf that names no prover is tried with Zenon, then with SMT. SMT is listed
\* twice, here and at the leaves that need it: tlapm gives up on an encoding after
\* five seconds, and a second try starts afresh.
USE ZenonT(10), SMTT(30), SMTT(20), ZenonT(30)

RunRow == [pc : {"idle", "read", "read again", "start", "send", "complete", "finish"},
           attempt : Nat, last : BOOLEAN, seen : Delivery,
           completion : Completions, outcome : Outcomes]

Accepting(r) == r.pc = "complete" /\ r.completion = "accepted"

\* What run r knows of the delivery D and of the transport's answers T.
Knows(r, D, T) ==
  /\ r.pc \in {"start", "send", "complete"} =>
       /\ r.seen.revision <= D.revision
       /\ r.seen.revision = D.revision => r.seen = D
       /\ r.seen.attempts <= D.attempts
  /\ r.pc = "start" => r.seen.state \in {"queued", "sending"}
  /\ r.pc = "send" => r.seen.attempts > 0
  /\ Accepting(r) => r.seen.attempts > 0 /\ T[r.seen.attempts] = "accepted"
  /\ r.pc = "finish" /\ r.outcome = "succeeded" => D.state \in Settled

\* Run r may still report on the send that q reports on as well.
Clash(r, q) ==
  r.pc = "send" /\ r.seen.attempts = q.seen.attempts /\ (q.pc = "send" \/ Accepting(q))

\* The send of run r is the one the delivery D was accepted for.
Overtakes(r, D) == r.pc = "send" /\ D.state = "accepted" /\ r.seen.attempts = D.attempts

\* What the rows of the delivery and of its Job say of each other.
Story(D, J) ==
  /\ J.status \in {"succeeded", "canceled", "cancel_requested"} => D.state \in Settled
  /\ D.state = "canceled" => J.status = "canceled"

IInv ==
  /\ TypeOK
  /\ AcceptedIsLatest
  /\ delivery.state = "accepted" => delivery.attempts > 0
  /\ \A n \in Nodes : Knows(run[n], delivery, told) /\ ~Overtakes(run[n], delivery)
  /\ \A m, n \in Nodes : m # n => ~Clash(run[m], run[n])
  /\ Story(delivery, job)

\* The delivery changes only while it is outstanding, its revision moves
\* on and its count of sends never falls.
DeliveryStep(D, E) ==
  \/ E = D
  \/ D.state \notin Settled /\ E.revision = D.revision + 1 /\ E.attempts >= D.attempts

Returned(a, outcome) == [Idle EXCEPT !.pc = "finish", !.attempt = a, !.outcome = outcome]
Completing(a, seen, completion) ==
  [Idle EXCEPT !.pc = "complete", !.attempt = a, !.seen = seen, !.completion = completion]

Around == <<deadline, relevant, enabled, retries>>
AroundTypes ==
  /\ deadline \in {"before", "around", "past"}
  /\ relevant \in BOOLEAN /\ enabled \in [Nodes -> BOOLEAN]
  /\ retries \in 0 .. OperatorRetries
AnswerTypes == told \in [1 .. MailMaximumAttempts -> {"nothing", "accepted", "failed"}]

-----------------------------------------------------------------------------
(* The rows the actions write *)

\* The type invariant, with the row type named.
LEMMA Types ==
  TypeOK <=> /\ delivery \in Delivery /\ job \in Job /\ run \in [Nodes -> RunRow]
             /\ AnswerTypes /\ AroundTypes
BY DEF TypeOK, RunRow, AnswerTypes, AroundTypes

\* A new delivery, and the locals of a node that runs no attempt.
LEMMA IdleFacts ==
  /\ Created \in Delivery /\ Created.state = "queued"
  /\ Idle \in RunRow /\ Idle.pc = "idle"
<1>1. 0 \in 0 .. MailMaximumAttempts
  BY MailDeliveryAssumption
<1> QED
  BY <1>1 DEF Created, Idle, Delivery, RunRow, Outstanding, Completions, Outcomes

\* Moved writes the state and the revision and nothing else.
LEMMA MovedFacts ==
  ASSUME NEW d \in Delivery, NEW s \in Outstanding \cup Settled
  PROVE  /\ Moved(d, s) \in Delivery
         /\ Moved(d, s).state = s
         /\ Moved(d, s).attempts = d.attempts
         /\ Moved(d, s).revision = d.revision + 1
<1>1. d.revision + 1 \in Nat \ {0}
  BY SMTT(30), SMTT(20) DEF Delivery
<1> QED
  BY <1>1 DEF Moved, Delivery

\* Started counts one more send.
LEMMA StartedFacts ==
  ASSUME NEW d \in Delivery, d.attempts < MailMaximumAttempts
  PROVE  /\ Started(d) \in Delivery
         /\ Started(d).state = "sending"
         /\ Started(d).attempts = d.attempts + 1
         /\ Started(d).revision = d.revision + 1
<1>1. /\ Moved(d, "sending") \in Delivery
      /\ Moved(d, "sending").state = "sending"
      /\ Moved(d, "sending").attempts = d.attempts
      /\ Moved(d, "sending").revision = d.revision + 1
  BY MovedFacts DEF Outstanding
<1>2. d.attempts + 1 \in 0 .. MailMaximumAttempts
  BY MailDeliveryAssumption, SMTT(30), SMTT(20) DEF Delivery
<1> QED
  BY <1>1, <1>2 DEF Started, Delivery

\* The locals of a run that returned from the handler.
LEMMA ReturnedFacts ==
  ASSUME NEW a \in Nat, NEW o \in Outcomes
  PROVE  /\ Returned(a, o) \in RunRow
         /\ Returned(a, o).pc = "finish"
         /\ Returned(a, o).outcome = o
BY IdleFacts DEF Returned, Idle, RunRow

\* The locals of a run that is to call CompleteDelivery.
LEMMA CompletingFacts ==
  ASSUME NEW a \in Nat, NEW d \in Delivery, NEW c \in Completions
  PROVE  /\ Completing(a, d, c) \in RunRow
         /\ Completing(a, d, c).pc = "complete"
         /\ Completing(a, d, c).seen = d
         /\ Completing(a, d, c).completion = c
BY IdleFacts DEF Completing, Idle, RunRow

\* A completion is applied to an outstanding delivery only, and is the only
\* way to Accepted; all but retry and failed settle it.
LEMMA CompletionFacts ==
  ASSUME NEW c \in Completions, NEW d, NEW late, CanComplete(d, c, late)
  PROVE  /\ d.state \in Outstanding
         /\ CompletedState(c) \in Outstanding \cup Settled
         /\ CompletedState(c) # "canceled"
         /\ CompletedState(c) = "accepted" <=> c = "accepted"
         /\ c \notin {"retry", "failed"} => CompletedState(c) \in Settled
<1>1. CASE c = "accepted"
  BY <1>1 DEF CanComplete, CompletedState, Outstanding, Settled
<1>2. CASE c = "retry"
  BY <1>2 DEF CanComplete, CompletedState, Outstanding, Settled
<1>3. CASE c = "failed"
  BY <1>3 DEF CanComplete, CompletedState, Outstanding, Settled
<1>4. CASE c = "expired"
  BY <1>4 DEF CanComplete, CompletedState, Outstanding, Settled
<1>5. CASE c = "suppressed"
  BY <1>5 DEF CanComplete, CompletedState, Outstanding, Settled
<1> QED
  BY <1>1, <1>2, <1>3, <1>4, <1>5 DEF Completions

-----------------------------------------------------------------------------
(* What a step must show *)

\* Run n replaces its locals by u; the delivery and the answers move on.
LEMMA RunStep ==
  ASSUME IInv, NEW n \in Nodes, NEW u \in RunRow, run' = [run EXCEPT ![n] = u],
         delivery' \in Delivery, DeliveryStep(delivery, delivery'),
         job' \in Job, AroundTypes', AnswerTypes',
         \A k \in 1 .. MailMaximumAttempts :
           told'[k] # told[k] => run[n].pc = "send" /\ k = run[n].seen.attempts,
         AcceptedIsLatest', delivery'.state = "accepted" => delivery'.attempts > 0,
         Knows(u, delivery', told'), ~Overtakes(u, delivery'),
         \A m \in Nodes \ {n} :
           ~Clash(u, run[m]) /\ ~Clash(run[m], u) /\ ~Overtakes(run[m], delivery'),
         Story(delivery', job')
  PROVE  IInv'
<1>1. TypeOK
  BY DEF IInv
<1>2. run \in [Nodes -> RunRow] /\ delivery \in Delivery
  BY <1>1, Types
<1>3. run' \in [Nodes -> RunRow] /\ run'[n] = u /\ \A m \in Nodes \ {n} : run'[m] = run[m]
  BY <1>2
<1>4. TypeOK'
  BY <1>3 DEF TypeOK, RunRow, AnswerTypes, AroundTypes
<1>5. ASSUME NEW m \in Nodes \ {n}
      PROVE  Knows(run[m], delivery', told')
  <2>1. Knows(run[m], delivery, told) /\ ~Clash(run[n], run[m])
    BY DEF IInv
  <2>2. run[m] \in RunRow
    BY <1>2
  <2>3. /\ run[m].seen.revision \in Nat /\ delivery.revision \in Nat
        /\ run[m].seen.attempts \in 0 .. MailMaximumAttempts
        /\ delivery.attempts \in 0 .. MailMaximumAttempts
        /\ delivery'.attempts \in 0 .. MailMaximumAttempts
    BY <1>2, <2>2 DEF RunRow, Delivery
  <2>4. Accepting(run[m]) => told'[run[m].seen.attempts] = "accepted"
    BY <2>1, <2>3, MailDeliveryAssumption, SMTT(30), SMTT(20) DEF Knows, Clash
  <2>5. CASE delivery' = delivery
    BY <2>1, <2>4, <2>5 DEF Knows
  <2>6. CASE delivery.state \notin Settled /\ delivery'.revision = delivery.revision + 1
             /\ delivery'.attempts >= delivery.attempts
    BY <2>1, <2>3, <2>4, <2>6, MailDeliveryAssumption, SMTT(30), SMTT(20) DEF Knows
  <2> QED
    BY <2>5, <2>6 DEF DeliveryStep
<1>6. \A m \in Nodes : Knows(run'[m], delivery', told') /\ ~Overtakes(run'[m], delivery')
  BY <1>3, <1>5
<1>7. \A m, q \in Nodes : m # q => ~Clash(run'[m], run'[q])
  BY <1>3 DEF IInv
<1> QED
  BY <1>4, <1>6, <1>7 DEF IInv, AcceptedIsLatest

\* Run n moves on without a send: it neither starts one nor reports one.
LEMMA QuietStep ==
  ASSUME IInv, NEW n \in Nodes, NEW u \in RunRow, run' = [run EXCEPT ![n] = u],
         delivery' \in Delivery, DeliveryStep(delivery, delivery'),
         delivery'.state = "accepted" => delivery' = delivery,
         job' \in Job, Story(delivery', job'), Around' = Around, told' = told,
         u.pc # "send", ~Accepting(u), Knows(u, delivery', told')
  PROVE  IInv'
<1>1. TypeOK /\ AroundTypes /\ AnswerTypes
  BY Types DEF IInv
<1>2. AroundTypes' /\ AnswerTypes'
  BY <1>1 DEF AroundTypes, AnswerTypes, Around
<1>3. AcceptedIsLatest' /\ (delivery'.state = "accepted" => delivery'.attempts > 0)
  BY DEF IInv, AcceptedIsLatest
<1>4. \A m \in Nodes : ~Overtakes(run[m], delivery')
  BY DEF IInv, Overtakes
<1>5. ~Overtakes(u, delivery') /\ \A m \in Nodes : ~Clash(u, run[m]) /\ ~Clash(run[m], u)
  BY DEF Overtakes, Clash
<1> QED
  BY <1>2, <1>3, <1>4, <1>5, RunStep

\* No run moves: an operator, a sweep, the Job's recovery, the surroundings.
LEMMA RowStep ==
  ASSUME IInv, run' = run, told' = told,
         delivery' \in Delivery, DeliveryStep(delivery, delivery'),
         delivery'.state = "accepted" => delivery' = delivery,
         job' \in Job, Story(delivery', job'), AroundTypes'
  PROVE  IInv'
<1>1. TypeOK /\ run \in [Nodes -> RunRow]
  BY Types DEF IInv
<1>2. TypeOK'
  BY <1>1 DEF TypeOK, AroundTypes
<1>3. CASE Nodes = {}
  BY <1>2, <1>3 DEF IInv, AcceptedIsLatest
<1>4. ASSUME NEW n \in Nodes
      PROVE  IInv'
  <2>1. run[n] \in RunRow /\ run' = [run EXCEPT ![n] = run[n]]
    BY <1>1
  <2>2. AnswerTypes'
    BY <1>2 DEF TypeOK, AnswerTypes
  <2>3. AcceptedIsLatest' /\ (delivery'.state = "accepted" => delivery'.attempts > 0)
    BY DEF IInv, AcceptedIsLatest
  <2>4. \A m \in Nodes : ~Overtakes(run[m], delivery')
    BY DEF IInv, Overtakes
  <2>5. Knows(run[n], delivery', told')
    <3>1. Knows(run[n], delivery, told) /\ run[n] \in RunRow /\ delivery \in Delivery
      BY <1>1 DEF IInv, TypeOK
    <3>2. /\ run[n].seen.revision \in Nat /\ delivery.revision \in Nat
          /\ run[n].seen.attempts \in 0 .. MailMaximumAttempts
          /\ delivery.attempts \in 0 .. MailMaximumAttempts
          /\ delivery'.attempts \in 0 .. MailMaximumAttempts
      BY <3>1 DEF RunRow, Delivery
    <3> QED
      BY <3>1, <3>2, MailDeliveryAssumption, SMTT(30), SMTT(20) DEF Knows, DeliveryStep
  <2>6. \A m \in Nodes \ {n} : ~Clash(run[n], run[m]) /\ ~Clash(run[m], run[n])
    BY DEF IInv
  <2> QED
    BY <2>1, <2>2, <2>3, <2>4, <2>5, <2>6, RunStep
<1> QED
  BY <1>3, <1>4

-----------------------------------------------------------------------------
(* The actions *)

\* A run that returns changes neither row; it may report success once the
\* delivery is settled.
LEMMA ReturnKeeps ==
  ASSUME IInv, NEW n \in Nodes, NEW o \in Outcomes, Return(n, o),
         o = "succeeded" => delivery.state \in Settled,
         UNCHANGED <<delivery, job, told, Around>>
  PROVE  IInv'
<1>1. TypeOK /\ delivery \in Delivery /\ job \in Job /\ run[n].attempt \in Nat
  BY Types DEF IInv, RunRow
<1> DEFINE u == Returned(run[n].attempt, o)
<1>2. u \in RunRow /\ u.pc = "finish" /\ u.outcome = o
  BY <1>1, ReturnedFacts
<1>3. run' = [run EXCEPT ![n] = u]
  BY DEF Return, Returned
<1> HIDE DEF u
<1>4. Knows(u, delivery', told') /\ ~Accepting(u)
  BY <1>2 DEF Knows, Accepting
<1>5. Story(delivery', job')
  BY DEF IInv
<1> QED
  BY <1>1, <1>2, <1>3, <1>4, <1>5, QuietStep DEF DeliveryStep

\* A run that is to complete the row it has just read.
LEMMA CompleteKeeps ==
  ASSUME IInv, NEW n \in Nodes, NEW c \in Completions \ {"accepted"},
         Complete(n, delivery, c), UNCHANGED <<delivery, job, told, Around>>
  PROVE  IInv'
<1>1. TypeOK /\ delivery \in Delivery /\ job \in Job /\ run[n].attempt \in Nat
  BY Types DEF IInv, RunRow
<1> DEFINE u == Completing(run[n].attempt, delivery, c)
<1>2. u \in RunRow /\ u.pc = "complete" /\ u.seen = delivery /\ u.completion = c
  BY <1>1, CompletingFacts, SMTT(30), SMTT(20)
<1>3. run' = [run EXCEPT ![n] = u]
  BY DEF Complete, Completing
<1> HIDE DEF u
<1>4. delivery.revision \in Nat /\ delivery.attempts \in Int
  BY <1>1, SMTT(30), SMTT(20) DEF Delivery
<1>5. Knows(u, delivery', told') /\ ~Accepting(u)
  BY <1>2, <1>4 DEF Knows, Accepting
<1>6. Story(delivery', job')
  BY DEF IInv
<1> QED
  BY <1>1, <1>2, <1>3, <1>5, <1>6, QuietStep DEF DeliveryStep

\* The two reads of the handler.
LEMMA ReadsKeep ==
  ASSUME IInv, NEW n \in Nodes, Read(n) \/ ReadAgain(n)
  PROVE  IInv'
<1>1. UNCHANGED <<delivery, job, told, Around>>
  BY DEF Read, ReadAgain, Look, Around
<1>2. TypeOK /\ delivery \in Delivery /\ job \in Job /\ run \in [Nodes -> RunRow]
  BY Types DEF IInv
<1>3. delivery.revision \in Nat /\ delivery.attempts \in Int
  BY <1>2, SMTT(30), SMTT(20) DEF Delivery
<1>4. Story(delivery', job')
  BY <1>1 DEF IInv
<1>5. CASE Return(n, DependencyOutcome)
  BY <1>1, <1>5, ReturnKeeps DEF DependencyOutcome, Outcomes
<1>6. CASE delivery.state \in Settled /\ Return(n, "succeeded")
  BY <1>1, <1>6, ReturnKeeps DEF Outcomes
<1>7. CASE Return(n, "permanent")
  BY <1>1, <1>7, ReturnKeeps DEF Outcomes
<1>8. CASE \E c \in {"expired", "suppressed", "failed"} : Complete(n, delivery, c)
  BY <1>1, <1>8, CompleteKeeps DEF Completions
<1>9. CASE Goto(n, "read again")
  <2> DEFINE u == [run[n] EXCEPT !.pc = "read again"]
  <2>1. u \in RunRow /\ u.pc = "read again"
    BY <1>2 DEF RunRow
  <2>2. run' = [run EXCEPT ![n] = u]
    BY <1>9, <1>2 DEF Goto
  <2> HIDE DEF u
  <2>3. Knows(u, delivery', told') /\ ~Accepting(u)
    BY <2>1 DEF Knows, Accepting
  <2> QED
    BY <1>1, <1>2, <1>4, <2>1, <2>2, <2>3, QuietStep DEF DeliveryStep
<1>10. CASE delivery.state \in {"queued", "sending"}
            /\ run' = [run EXCEPT ![n].pc = "start", ![n].seen = delivery]
  <2> DEFINE u == [run[n] EXCEPT !.pc = "start", !.seen = delivery]
  <2>1. u \in RunRow /\ u.pc = "start" /\ u.seen = delivery
    BY <1>2 DEF RunRow
  <2>2. run' = [run EXCEPT ![n] = u]
    BY <1>10, <1>2
  <2> HIDE DEF u
  <2>3. Knows(u, delivery', told') /\ ~Accepting(u)
    BY <1>1, <1>3, <1>10, <2>1 DEF Knows, Accepting
  <2> QED
    BY <1>1, <1>2, <1>4, <2>1, <2>2, <2>3, QuietStep DEF DeliveryStep
<1> QED
  BY <1>5, <1>6, <1>7, <1>8, <1>9, <1>10 DEF Read, ReadAgain, Look

\* A start at the revision read: the fence may settle the delivery
\* instead, and the answer may be lost on the way back.
LEMMA StartKeeps ==
  ASSUME IInv, NEW n \in Nodes, StartDelivery(n)
  PROVE  IInv'
<1>1. UNCHANGED <<job, told, Around>> /\ run[n].pc = "start"
  BY DEF StartDelivery, Around
<1>2. /\ TypeOK /\ delivery \in Delivery /\ job \in Job /\ run \in [Nodes -> RunRow]
      /\ AroundTypes /\ AnswerTypes
  BY Types DEF IInv
<1>3. /\ delivery.revision \in Nat /\ delivery.attempts \in 0 .. MailMaximumAttempts
      /\ run[n] \in RunRow /\ run[n].attempt \in Nat
  BY <1>2 DEF Delivery, RunRow
<1>4. CASE Return(n, DependencyOutcome) /\ UNCHANGED delivery
  BY <1>1, <1>4, ReturnKeeps DEF DependencyOutcome, Outcomes
<1>5. ASSUME AtExpectedRevision(n)
      PROVE  delivery.state \in {"queued", "sending"} /\ delivery.state \notin Settled
  BY <1>1, <1>5 DEF IInv, Knows, AtExpectedRevision, Settled
<1>6. job.status \notin {"succeeded", "canceled", "cancel_requested"}
        \/ delivery.state \in Settled
  BY DEF IInv, Story
<1>7. CASE AtExpectedRevision(n) /\ delivery' = Moved(delivery, "suppressed")
           /\ \E o \in Outcomes : Return(n, o)
  <2>1. PICK o \in Outcomes : Return(n, o)
    BY <1>7
  <2>2. /\ delivery' \in Delivery /\ delivery'.state = "suppressed"
        /\ delivery'.attempts = delivery.attempts /\ delivery'.revision = delivery.revision + 1
    BY <1>2, <1>7, MovedFacts DEF Settled
  <2>3. DeliveryStep(delivery, delivery')
    BY <1>3, <1>5, <1>7, <2>2 DEF DeliveryStep
  <2> DEFINE u == Returned(run[n].attempt, o)
  <2>4. u \in RunRow /\ u.pc = "finish"
    BY <1>3, ReturnedFacts
  <2>5. run' = [run EXCEPT ![n] = u]
    BY <2>1 DEF Return, Returned
  <2> HIDE DEF u
  <2>6. Knows(u, delivery', told') /\ ~Accepting(u)
    BY <2>2, <2>4 DEF Knows, Accepting, Settled
  <2>7. Story(delivery', job')
    BY <1>1, <2>2 DEF Story, Settled
  <2> QED
    BY <1>1, <1>2, <2>2, <2>3, <2>4, <2>5, <2>6, <2>7, QuietStep
<1>8. CASE /\ AtExpectedRevision(n) /\ delivery.attempts < MailMaximumAttempts
           /\ delivery' = Started(delivery)
           /\ \/ run' = [run EXCEPT ![n].pc = "send", ![n].seen = Started(delivery)]
              \/ Return(n, DependencyOutcome)
  <2>1. /\ delivery' \in Delivery /\ delivery'.state = "sending"
        /\ delivery'.attempts = delivery.attempts + 1
        /\ delivery'.revision = delivery.revision + 1
    BY <1>2, <1>8, StartedFacts
  <2>2. DeliveryStep(delivery, delivery')
    BY <1>3, <1>5, <1>8, <2>1 DEF DeliveryStep
  <2>3. Story(delivery', job')
    BY <1>1, <1>5, <1>6, <1>8, <2>1 DEF Story
  <2>4. CASE Return(n, DependencyOutcome)
    <3> DEFINE u == Returned(run[n].attempt, "retryable")
    <3>1. u \in RunRow /\ u.pc = "finish" /\ u.outcome = "retryable"
      BY <1>3, ReturnedFacts DEF Outcomes
    <3>2. run' = [run EXCEPT ![n] = u]
      BY <2>4 DEF Return, Returned, DependencyOutcome
    <3> HIDE DEF u
    <3>3. Knows(u, delivery', told') /\ ~Accepting(u)
      BY <3>1 DEF Knows, Accepting
    <3> QED
      BY <1>1, <1>2, <2>1, <2>2, <2>3, <3>1, <3>2, <3>3, QuietStep
  <2>5. CASE run' = [run EXCEPT ![n].pc = "send", ![n].seen = Started(delivery)]
    <3> DEFINE u == [run[n] EXCEPT !.pc = "send", !.seen = delivery']
    <3>1. u \in RunRow /\ u.pc = "send" /\ u.seen = delivery'
      BY <1>3, <2>1 DEF RunRow
    <3>2. run' = [run EXCEPT ![n] = u]
      BY <1>2, <1>8, <2>5
    <3> HIDE DEF u
    <3>3. delivery'.revision \in Nat /\ delivery'.attempts \in Nat /\ delivery'.attempts > 0
      BY <1>3, <2>1, MailDeliveryAssumption
    <3>4. Knows(u, delivery', told') /\ ~Overtakes(u, delivery')
      BY <2>1, <3>1, <3>3 DEF Knows, Accepting, Overtakes
    <3>5. ASSUME NEW m \in Nodes \ {n}
          PROVE  ~Clash(u, run[m]) /\ ~Clash(run[m], u) /\ ~Overtakes(run[m], delivery')
      <4>1. Knows(run[m], delivery, told)
        BY DEF IInv
      <4>2. run[m].seen.attempts \in 0 .. MailMaximumAttempts
        BY <1>2 DEF RunRow, Delivery
      <4>3. run[m].pc \in {"send", "complete"} => run[m].seen.attempts # u.seen.attempts
        BY <1>3, <2>1, <3>1, <4>1, <4>2, MailDeliveryAssumption, SMTT(30), SMTT(20) DEF Knows
      <4> QED
        BY <2>1, <4>3 DEF Clash, Overtakes, Accepting
    <3>6. AcceptedIsLatest' /\ AroundTypes' /\ AnswerTypes'
      BY <1>1, <1>2, <2>1 DEF AcceptedIsLatest, AroundTypes, AnswerTypes, Around
    <3> QED
      BY <1>1, <1>2, <2>1, <2>2, <2>3, <3>1, <3>2, <3>4, <3>5, <3>6, RunStep
  <2> QED
    BY <1>8, <2>4, <2>5
<1> QED
  <2>1. StartDelivery(n) =>
          \/ Return(n, DependencyOutcome) /\ UNCHANGED delivery
          \/ AtExpectedRevision(n) /\ delivery' = Moved(delivery, "suppressed")
               /\ \E o \in Outcomes : Return(n, o)
          \/ AtExpectedRevision(n) /\ delivery.attempts < MailMaximumAttempts
               /\ delivery' = Started(delivery)
               /\ \/ run' = [run EXCEPT ![n].pc = "send", ![n].seen = Started(delivery)]
                  \/ Return(n, DependencyOutcome)
    BY DEF StartDelivery, CanStart, DependencyOutcome, Outcomes
  <2> QED
    BY <1>4, <1>7, <1>8, <2>1

\* A send that is reported accepted is the only one of its number, and no
\* other run can still report on it.
LEMMA SendKeeps ==
  ASSUME IInv, NEW n \in Nodes, Send(n)
  PROVE  IInv'
<1>1. UNCHANGED <<delivery, job, Around>> /\ run[n].pc = "send"
  BY DEF Send, Around
<1>2. /\ TypeOK /\ delivery \in Delivery /\ job \in Job /\ run \in [Nodes -> RunRow]
      /\ AroundTypes /\ AnswerTypes
  BY Types DEF IInv
<1> DEFINE k == run[n].seen.attempts
<1>3. /\ run[n].attempt \in Nat /\ run[n].seen \in Delivery /\ k \in 1 .. MailMaximumAttempts
      /\ Knows(run[n], delivery, told) /\ ~Overtakes(run[n], delivery)
      /\ \A m \in Nodes \ {n} : ~Clash(run[n], run[m]) /\ ~Clash(run[m], run[n])
  <2>1. run[n].attempt \in Nat /\ run[n].seen \in Delivery /\ k \in 0 .. MailMaximumAttempts
    BY <1>2 DEF RunRow, Delivery
  <2>2. k > 0
    BY <1>1 DEF IInv, Knows
  <2> QED
    BY <2>1, <2>2 DEF IInv
<1>4. PICK a \in {"nothing", "accepted", "failed"}, c \in Completions :
        /\ Complete(n, run[n].seen, c) /\ (c = "accepted" => a = "accepted")
        /\ told' = told \/ told' = [told EXCEPT ![k] = a]
        /\ c = "accepted" => told' = [told EXCEPT ![k] = a]
  BY DEF Send, Completions
<1> DEFINE u == Completing(run[n].attempt, run[n].seen, c)
<1>5. u \in RunRow /\ u.pc = "complete" /\ u.seen = run[n].seen /\ u.completion = c
  BY <1>3, CompletingFacts, SMTT(30), SMTT(20)
<1>6. run' = [run EXCEPT ![n] = u]
  BY <1>4 DEF Complete, Completing
<1> HIDE DEF u
<1>7. AnswerTypes' /\ \A i \in 1 .. MailMaximumAttempts : told'[i] # told[i] => i = k
  BY <1>2, <1>3, <1>4 DEF AnswerTypes
<1>8. c = "accepted" => told'[k] = "accepted"
  BY <1>2, <1>3, <1>4 DEF AnswerTypes
<1> HIDE DEF k
<1>9. Knows(u, delivery', told')
  <2>1. k > 0 /\ run[n].seen.attempts = k
    BY <1>3 DEF k
  <2> QED
    BY <1>1, <1>3, <1>5, <1>8, <2>1 DEF Knows, Accepting
<1>10. ~Overtakes(u, delivery') /\ \A m \in Nodes \ {n} : ~Clash(u, run[m]) /\ ~Clash(run[m], u)
  BY <1>1, <1>3, <1>5 DEF Overtakes, Clash
<1>11. AcceptedIsLatest' /\ (delivery'.state = "accepted" => delivery'.attempts > 0)
  <2>1. AcceptedIsLatest /\ (delivery.state = "accepted" => delivery.attempts > 0)
    BY DEF IInv
  <2>2. delivery.state = "accepted" => delivery.attempts # k
    BY <1>1, <1>3 DEF Overtakes, k
  <2>3. delivery.attempts \in 0 .. MailMaximumAttempts
    BY <1>2 DEF Delivery
  <2> QED
    BY <1>1, <1>7, <2>1, <2>2, <2>3 DEF AcceptedIsLatest
<1>12. \A m \in Nodes : ~Overtakes(run[m], delivery')
  BY <1>1 DEF IInv
<1>13. Story(delivery', job') /\ AroundTypes' /\ DeliveryStep(delivery, delivery')
  BY <1>1, <1>2 DEF IInv, AroundTypes, Around, DeliveryStep
<1> QED
  BY <1>1, <1>2, <1>5, <1>6, <1>7, <1>9, <1>10, <1>11, <1>12, <1>13, RunStep DEF k

\* A completion at the revision started: the row is the one the run sent,
\* so Accepted is written for its own send.
LEMMA CompletionKeeps ==
  ASSUME IInv, NEW n \in Nodes, CompleteDelivery(n)
  PROVE  IInv'
<1>1. UNCHANGED <<job, told, Around>> /\ run[n].pc = "complete"
  BY DEF CompleteDelivery, Around
<1>2. /\ TypeOK /\ delivery \in Delivery /\ job \in Job /\ run \in [Nodes -> RunRow]
      /\ AroundTypes /\ AnswerTypes
  BY Types DEF IInv
<1>3. /\ delivery.revision \in Nat /\ delivery.attempts \in Int
      /\ run[n].attempt \in Nat /\ run[n].completion \in Completions
  <2>1. run[n] \in RunRow
    BY <1>2
  <2>2. delivery.attempts \in Int
    BY <1>2, MailDeliveryAssumption, SMTT(30), SMTT(20) DEF Delivery
  <2> QED
    BY <1>2, <2>1, <2>2 DEF Delivery, RunRow
<1>4. CASE Return(n, DependencyOutcome) /\ UNCHANGED delivery
  BY <1>1, <1>4, ReturnKeeps DEF DependencyOutcome, Outcomes
<1> DEFINE c == run[n].completion
           s == CompletedState(c)
<1>5. ASSUME AtExpectedRevision(n), NEW late, CanComplete(delivery, c, late),
             delivery' = Moved(delivery, s), NEW o \in Outcomes, Return(n, o),
             o = "succeeded" => c \notin {"retry", "failed"}
      PROVE  IInv'
  <2>1. /\ delivery.state \in Outstanding /\ s \in Outstanding \cup Settled
        /\ s # "canceled" /\ (s = "accepted" <=> c = "accepted")
        /\ c \notin {"retry", "failed"} => s \in Settled
    BY <1>3, <1>5, CompletionFacts
  <2>2. delivery.state \notin Settled
    BY <2>1 DEF Outstanding, Settled
  <2>3. /\ delivery' \in Delivery /\ delivery'.state = s
        /\ delivery'.attempts = delivery.attempts /\ delivery'.revision = delivery.revision + 1
    BY <1>2, <1>5, <2>1, MovedFacts
  <2>4. run[n].seen = delivery
    BY <1>1, <1>5 DEF IInv, Knows, AtExpectedRevision
  <2> HIDE DEF s
  <2>5. DeliveryStep(delivery, delivery')
    BY <1>3, <2>2, <2>3 DEF DeliveryStep
  <2> DEFINE u == Returned(run[n].attempt, o)
  <2>6. u \in RunRow /\ u.pc = "finish" /\ u.outcome = o
    BY <1>3, ReturnedFacts
  <2>7. run' = [run EXCEPT ![n] = u]
    BY <1>5 DEF Return, Returned
  <2> HIDE DEF u
  <2>8. Knows(u, delivery', told') /\ ~Overtakes(u, delivery')
    BY <1>5, <2>1, <2>3, <2>6 DEF Knows, Accepting, Overtakes
  <2>9. \A m \in Nodes \ {n} : ~Clash(u, run[m]) /\ ~Clash(run[m], u)
    BY <2>6 DEF Clash, Accepting
  <2>10. s = "accepted" => Accepting(run[n])
    BY <1>1, <2>1 DEF Accepting
  <2>11. AcceptedIsLatest' /\ (delivery'.state = "accepted" => delivery'.attempts > 0)
    <3>1. Knows(run[n], delivery, told)
      BY DEF IInv
    <3> QED
      BY <1>1, <2>3, <2>4, <2>10, <3>1 DEF Knows, AcceptedIsLatest
  <2>12. \A m \in Nodes \ {n} : ~Overtakes(run[m], delivery')
    <3>1. \A m \in Nodes \ {n} : ~Clash(run[m], run[n])
      BY DEF IInv
    <3> QED
      BY <2>3, <2>4, <2>10, <3>1 DEF Clash, Overtakes
  <2>13. Story(delivery', job')
    BY <1>1, <2>1, <2>2, <2>3 DEF IInv, Story
  <2>14. AroundTypes' /\ AnswerTypes'
    BY <1>1, <1>2 DEF AroundTypes, AnswerTypes, Around
  <2> QED
    BY <1>1, <1>2, <2>3, <2>5, <2>6, <2>7, <2>8, <2>9, <2>11, <2>12, <2>13, <2>14, RunStep
<1>6. CompleteDelivery(n) =>
        \/ Return(n, DependencyOutcome) /\ UNCHANGED delivery
        \/ \E late \in PastDeadline, o \in Outcomes :
             /\ AtExpectedRevision(n) /\ CanComplete(delivery, c, late)
             /\ delivery' = Moved(delivery, s) /\ Return(n, o)
             /\ o = "succeeded" => c \notin {"retry", "failed"}
  BY DEF CompleteDelivery, DependencyOutcome, Outcomes
<1> HIDE DEF c, s
<1> QED
  BY <1>4, <1>5, <1>6

\* A Job that ends as canceled was asked to, and is asked to only when the
\* delivery is settled.
LEMMA JobKeeps ==
  ASSUME IInv, Recover \/ (\E n \in Nodes : Claim(n) \/ Finish(n) \/ Lose(n))
  PROVE  IInv'
<1>1. /\ TypeOK /\ delivery \in Delivery /\ job \in Job /\ run \in [Nodes -> RunRow]
      /\ AroundTypes /\ Story(delivery, job)
  BY Types DEF IInv
<1>2. UNCHANGED <<delivery, told, Around>>
  BY DEF Recover, Claim, Finish, Lose, Around
<1>3. AroundTypes' /\ delivery' \in Delivery /\ DeliveryStep(delivery, delivery')
  BY <1>1, <1>2 DEF AroundTypes, Around, DeliveryStep
<1>4. CASE Recover
  <2>1. job' = [job EXCEPT !.status = RecoveredStatus(job)] /\ job.status \in Claimed /\ run' = run
    BY <1>4 DEF Recover
  <2>2. /\ RecoveredStatus(job) \in {"canceled", "failed", "queued"}
        /\ RecoveredStatus(job) = "canceled" => job.status = "cancel_requested"
    BY DEF RecoveredStatus
  <2>3. job' \in Job /\ job'.status = RecoveredStatus(job)
    BY <1>1, <2>1, <2>2 DEF Job, Ended
  <2>4. Story(delivery', job')
    BY <1>1, <1>2, <2>1, <2>2, <2>3 DEF Story, Claimed
  <2> QED
    BY <1>2, <1>3, <2>1, <2>3, <2>4, RowStep
<1>5. ASSUME NEW n \in Nodes, Claim(n) PROVE IInv'
  <2> DEFINE u == [Idle EXCEPT !.pc = "read", !.attempt = job.attempts + 1,
                               !.last = job.attempts + 1 >= job.maximum]
  <2>1. run' = [run EXCEPT ![n] = u] /\ job.status = "queued"
        /\ job' = [job EXCEPT !.status = "running", !.attempts = @ + 1]
    BY <1>5 DEF Claim
  <2>2. u \in RunRow /\ u.pc = "read"
    <3>1. job.attempts + 1 \in Nat /\ (job.attempts + 1 >= job.maximum) \in BOOLEAN
      BY <1>1, SMTT(30), SMTT(20) DEF Job
    <3> QED
      BY <3>1, IdleFacts DEF Idle, RunRow
  <2> HIDE DEF u
  <2>3. job' \in Job /\ job'.status = "running"
    <3>1. job.attempts + 1 \in Nat
      BY <1>1, SMTT(30), SMTT(20) DEF Job
    <3>2. job' = [job EXCEPT !.status = "running", !.attempts = job.attempts + 1]
      BY <2>1
    <3> QED
      BY <1>1, <3>1, <3>2 DEF Job, Claimed
  <2>4. Story(delivery', job')
    BY <1>1, <1>2, <2>1, <2>3 DEF Story
  <2>5. Knows(u, delivery', told') /\ ~Accepting(u)
    BY <2>2 DEF Knows, Accepting
  <2> QED
    BY <1>2, <1>3, <2>1, <2>2, <2>3, <2>4, <2>5, QuietStep
<1>6. ASSUME NEW n \in Nodes, Finish(n) \/ Lose(n) PROVE IInv'
  <2>1. run' = [run EXCEPT ![n] = Idle]
    BY <1>6 DEF Finish, Lose
  <2>2. job' \in Job /\ Story(delivery', job')
    <3>1. CASE job' = job
      BY <1>1, <1>2, <3>1
    <3>2. CASE /\ run[n].pc = "finish" /\ job.status \in Claimed
               /\ \E o \in Outcomes : /\ job' = [job EXCEPT !.status = FinishedStatus(job, o)]
                                      /\ o = "succeeded" => run[n].outcome = "succeeded"
      <4>1. PICK o \in Outcomes : /\ job' = [job EXCEPT !.status = FinishedStatus(job, o)]
                                  /\ o = "succeeded" => run[n].outcome = "succeeded"
        BY <3>2
      <4>2. /\ FinishedStatus(job, o) \in {"queued", "succeeded", "failed", "canceled"}
            /\ FinishedStatus(job, o) = "succeeded" => o = "succeeded"
            /\ FinishedStatus(job, o) = "canceled" => job.status = "cancel_requested"
        BY DEF FinishedStatus
      <4>3. job' \in Job /\ job'.status = FinishedStatus(job, o)
        BY <1>1, <4>1, <4>2 DEF Job, Ended
      <4>4. run[n].outcome = "succeeded" => delivery.state \in Settled
        BY <3>2 DEF IInv, Knows
      <4> QED
        BY <1>1, <1>2, <3>2, <4>1, <4>2, <4>3, <4>4 DEF Story, Claimed
    <3>3. run[n].outcome \in Outcomes
      BY <1>1 DEF RunRow
    <3> QED
      BY <1>6, <3>1, <3>2, <3>3 DEF Finish, Lose, Holds, Outcomes
  <2>3. Knows(Idle, delivery', told') /\ ~Accepting(Idle) /\ Idle \in RunRow /\ Idle.pc = "idle"
    BY IdleFacts DEF Knows, Accepting
  <2> QED
    BY <1>2, <1>3, <2>1, <2>2, <2>3, QuietStep
<1> QED
  BY <1>4, <1>5, <1>6

\* The operator's controls and the two sweeps: each writes both rows in one
\* transaction.
LEMMA ControlsKeep ==
  ASSUME IInv, CancelDelivery \/ RetryDelivery \/ SuppressExpired \/ SuppressOutstanding
  PROVE  IInv'
<1>1. /\ TypeOK /\ delivery \in Delivery /\ job \in Job /\ run \in [Nodes -> RunRow]
      /\ AroundTypes /\ Story(delivery, job)
  BY Types DEF IInv
<1>2. delivery.attempts \in Int
  BY <1>1, MailDeliveryAssumption, SMTT(30), SMTT(20) DEF Delivery
<1>3. run' = run /\ told' = told
  BY DEF CancelDelivery, RetryDelivery, SuppressExpired, SuppressOutstanding, Suppressed
<1>4. RequestCancellation(job) \in Job
  BY <1>1 DEF RequestCancellation, Job, Claimed, Ended
<1>5. CASE CancelDelivery \/ SuppressExpired \/ SuppressOutstanding
  <2>1. PICK s \in {"canceled", "suppressed"} :
          /\ delivery' = Moved(delivery, s) /\ job' = RequestCancellation(job)
          /\ delivery.state \in Outstanding /\ Around' = Around
          /\ s = "canceled" => job.status = "queued"
    BY <1>5 DEF CancelDelivery, SuppressExpired, SuppressOutstanding, Suppressed, Around,
                CanCancel, Outstanding
  <2>2. /\ delivery' \in Delivery /\ delivery'.state = s /\ s \in Settled
        /\ delivery'.attempts = delivery.attempts /\ delivery'.revision = delivery.revision + 1
    BY <1>1, <2>1, MovedFacts DEF Settled
  <2>3. DeliveryStep(delivery, delivery')
    BY <1>2, <2>1, <2>2 DEF DeliveryStep, Outstanding, Settled
  <2>4. s = "canceled" => job'.status = "canceled"
    BY <1>1, <2>1 DEF RequestCancellation, Job
  <2>5. Story(delivery', job')
    BY <2>2, <2>4 DEF Story
  <2>6. AroundTypes'
    BY <1>1, <2>1 DEF AroundTypes, Around
  <2>7. delivery'.state # "accepted"
    BY <2>2
  <2> QED
    BY <1>3, <1>4, <2>1, <2>2, <2>3, <2>5, <2>6, <2>7, RowStep
<1>6. CASE RetryDelivery
  <2>1. /\ delivery' = Moved(delivery, "queued") /\ delivery.state \in Outstanding
        /\ job' = [job EXCEPT !.status = "queued", !.maximum = job.attempts + 1]
        /\ retries < OperatorRetries /\ retries' = retries + 1
        /\ UNCHANGED <<deadline, relevant, enabled>>
    BY <1>6 DEF RetryDelivery, CanOperatorRetry
  <2>2. /\ delivery' \in Delivery /\ delivery'.state = "queued"
        /\ delivery'.attempts = delivery.attempts /\ delivery'.revision = delivery.revision + 1
    BY <1>1, <2>1, MovedFacts DEF Outstanding
  <2>3. DeliveryStep(delivery, delivery')
    BY <1>2, <2>1, <2>2 DEF DeliveryStep, Outstanding, Settled
  <2>4. job' \in Job /\ job'.status = "queued"
    <3>1. job.attempts + 1 \in Nat \ {0}
      BY <1>1, SMTT(30), SMTT(20) DEF Job
    <3> QED
      BY <1>1, <2>1, <3>1 DEF Job
  <2>5. Story(delivery', job')
    BY <2>2, <2>4 DEF Story
  <2>6. AroundTypes'
    BY <1>1, <2>1, MailDeliveryAssumption, SMTT(30), SMTT(20) DEF AroundTypes
  <2> QED
    BY <1>3, <2>2, <2>3, <2>4, <2>5, <2>6, RowStep
<1> QED
  BY <1>5, <1>6

\* Every step keeps the invariant.
LEMMA NextKeeps == IInv /\ [Next]_vars => IInv'
<1> SUFFICES ASSUME IInv, [Next]_vars PROVE IInv'
  OBVIOUS
<1>1. delivery \in Delivery /\ job \in Job /\ AroundTypes /\ Story(delivery, job)
  BY Types DEF IInv
<1>2. ASSUME UNCHANGED <<delivery, job, run, told>>, AroundTypes' PROVE IInv'
  BY <1>1, <1>2, RowStep DEF DeliveryStep
<1>3. CASE UNCHANGED vars \/ PassTime \/ BecomeObsolete \/ \E n \in Nodes : Disable(n)
  <2>1. AroundTypes'
    BY <1>1, <1>3 DEF AroundTypes, vars, PassTime, BecomeObsolete, Disable
  <2> QED
    BY <1>2, <1>3, <2>1 DEF vars, PassTime, BecomeObsolete, Disable
<1>4. CASE Recover \/ \E n \in Nodes : Claim(n) \/ Finish(n) \/ Lose(n)
  BY <1>4, JobKeeps
<1>5. CASE CancelDelivery \/ RetryDelivery \/ SuppressExpired \/ SuppressOutstanding
  BY <1>5, ControlsKeep
<1>6. CASE \E n \in Nodes : \/ Read(n) \/ ReadAgain(n) \/ StartDelivery(n)
                            \/ Send(n) \/ CompleteDelivery(n)
  BY <1>6, ReadsKeep, StartKeeps, SendKeeps, CompletionKeeps
<1> QED
  BY <1>3, <1>4, <1>5, <1>6 DEF Next, Handler

\* The new delivery, its queued Job and the idle nodes satisfy it.
LEMMA InitKeeps == Init => IInv
<1> SUFFICES ASSUME Init PROVE IInv
  OBVIOUS
<1>1. /\ delivery = Created /\ \A n \in Nodes : run[n] = Idle
      /\ job.status = "queued" /\ job \in Job
  BY MailDeliveryAssumption DEF Init, Job
<1>2. TypeOK
  BY <1>1, IdleFacts, MailDeliveryAssumption, Types, SMTT(30), SMTT(20) DEF Init, AnswerTypes, AroundTypes
<1>3. Story(delivery, job) /\ delivery.state # "accepted"
  BY <1>1, IdleFacts DEF Story
<1>4. \A n \in Nodes : Knows(run[n], delivery, told) /\ ~Overtakes(run[n], delivery)
  BY <1>1, IdleFacts DEF Knows, Overtakes, Accepting
<1>5. \A m, n \in Nodes : ~Clash(run[m], run[n])
  BY <1>1, IdleFacts DEF Clash
<1> QED
  BY <1>2, <1>3, <1>4, <1>5 DEF IInv, AcceptedIsLatest

-----------------------------------------------------------------------------
(* The theorems *)

\* In every reachable state the rows are typed, a run that is to write the
\* delivery holds its row of some revision, and no two runs can report on
\* one send.
THEOREM IInvHolds == Spec => []IInv
BY InitKeeps, NextKeeps, PTL DEF Spec

\* Accepted stands for the latest send the row counts, however many nodes
\* send and however their leases lapse (CompleteDelivery at the revision
\* that StartDelivery wrote).
THEOREM AcceptedForLatest == Spec => []AcceptedIsLatest
<1>1. IInv => AcceptedIsLatest
  BY DEF IInv
<1> QED
  BY <1>1, IInvHolds, PTL

\* Job and delivery tell one story: a Job that succeeded or was canceled
\* leaves nothing outstanding, and a canceled delivery has a canceled Job.
THEOREM OneStory == Spec => []JobAnswersDelivery
<1>1. IInv => JobAnswersDelivery
  BY DEF IInv, Story, JobAnswersDelivery
<1> QED
  BY <1>1, IInvHolds, PTL

\* A settled delivery is never written again: not by an attempt that read
\* it before it was settled, a sweep, or an operator.
THEOREM SettledIsFinal == Spec => [][delivery.state \in Settled => delivery' = delivery]_vars
<1> DEFINE Final == delivery.state \in Settled => delivery' = delivery
<1>1. IInv /\ [Next]_vars => [Final]_vars
  <2> SUFFICES ASSUME IInv, Next, delivery.state \in Settled, delivery' # delivery
               PROVE  FALSE
    BY DEF Final
  <2>1. delivery.state \notin Outstanding \cup {"queued", "sending"}
    BY DEF Settled, Outstanding
  <2>2. ~CancelDelivery /\ ~RetryDelivery /\ ~SuppressExpired /\ ~SuppressOutstanding
    BY <2>1 DEF CancelDelivery, RetryDelivery, SuppressExpired, SuppressOutstanding,
                Suppressed, CanCancel, CanOperatorRetry
  <2>3. ASSUME NEW n \in Nodes, StartDelivery(n) PROVE FALSE
    <3>1. AtExpectedRevision(n) /\ run[n].pc = "start"
      BY <2>3 DEF StartDelivery
    <3> QED
      BY <2>1, <3>1 DEF IInv, Knows, AtExpectedRevision
  <2>4. ASSUME NEW n \in Nodes, CompleteDelivery(n) PROVE FALSE
    <3>1. PICK late : CanComplete(delivery, run[n].completion, late)
      BY <2>4 DEF CompleteDelivery
    <3>2. run[n].completion \in Completions
      BY Types DEF IInv, RunRow
    <3> QED
      BY <2>1, <3>1, <3>2, CompletionFacts
  <2> QED
    BY <2>2, <2>3, <2>4 DEF Next, Handler, Claim, Read, ReadAgain, Look, Send, Finish, Lose,
       Disable, Recover, PassTime, BecomeObsolete
<1> QED
  BY <1>1, IInvHolds, PTL DEF Spec

=============================================================================
