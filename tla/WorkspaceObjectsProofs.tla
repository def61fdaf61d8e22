----------------------- MODULE WorkspaceObjectsProofs -----------------------
(***************************************************************************)
(* Proofs about WorkspaceObjects: for every number of uploads, files,      *)
(* executions of the purge and failures, and for every duration, what a    *)
(* file or the sealed Submission refers to is in storage, claims are       *)
(* exclusive, and a reader finds what it looked up.                        *)
(***************************************************************************)
EXTENDS WorkspaceObjects, TLAPS

\* A leaf that names no prover is tried with Zenon, then with SMT. SMT is listed
\* twice, here and at the leaves that need it: tlapm gives up on an encoding after
\* five seconds, and a second try starts afresh.
USE ZenonT(10), SMTT(30), SMTT(20), ZenonT(30)

\* The rows of exam_attempt_workspace_objects.
Rows == [state : States, ready : BOOLEAN, timer : Nat, token : Tokens \cup {NoToken}, group : Keys \cup {NoKey}]

\* The part of the types the argument needs.
Shape ==
  /\ row \in [Objects -> Rows]
  /\ entry \in [Slots -> Objects \cup {NoObject}]
  /\ command \in [Keys -> [used : BOOLEAN, slot : Slots, seen : Objects \cup {NoObject}]]
  /\ request \in [Objects -> [pc : {"idle", "reserve", "write", "ready", "apply", "mark", "done"},
                              key : Keys \cup {NoKey}, timer : Nat]]
  /\ cleaner \in [Tokens -> [pc : {"idle", "work", "complete", "release"}, left : SUBSET Objects,
                             current : Objects \cup {NoObject}]]

\* A request on its way has a key.
Keyed == \A o \in Objects : Running(o) => request[o].key \in Keys

\* A file's object is current, and no other file's.
EntriesCurrent == \A s \in Slots : entry[s] # NoObject => row[entry[s]].state = "current"
EntriesApart == \A s, u \in Slots : entry[s] = entry[u] /\ entry[s] # NoObject => s = u

\* Nothing of the manifest is ever retired.
ManifestCurrent == manifest \subseteq Objects /\ (~sealed => manifest = {}) /\ \A o \in manifest : row[o].state = "current"

\* The content is there of an object in use or ready for it, and of one its
\* request has written and not yet recorded.
ContentStored ==
  \A o \in Objects :
    (row[o].state = "current" \/ (row[o].state = "staged" /\ (row[o].ready \/ request[o].pc = "ready"))) => o \in stored

\* What an execution may still remove has left the staged and current states for good.
ClaimsBehind == \A t \in Tokens : \A o \in cleaner[t].left : row[o].state \in {"reclaimable", "claimed", "gone"}

\* A request that has not reserved has no row.
Unreserved == \A o \in Objects : request[o].pc \in {"idle", "reserve"} => row[o].state = "none" /\ ~row[o].ready

\* The inductive invariant.
IInv == Shape /\ Keyed /\ EntriesCurrent /\ EntriesApart /\ ManifestCurrent /\ ContentStored /\ ClaimsBehind /\ Unreserved
-----------------------------------------------------------------------------
(* The parts of the invariant that follow from how rows and requests move. *)

\* A step that leaves the states of rows, the files, the manifest and the
\* storage alone, and moves one request onwards.
LEMMA RequestMoves ==
  ASSUME IInv, NEW o \in Objects, NEW q,
         q \in [pc : {"reserve", "write", "apply", "mark", "done"}, key : Keys \cup {NoKey}, timer : Nat],
         q.pc # "done" => q.key \in Keys,
         q.pc = "reserve" => request[o].pc = "idle",
         request' = [request EXCEPT ![o] = q],
         Shape', UNCHANGED <<row, entry, sealed, manifest, stored, cleaner>>
  PROVE  IInv'
<1> USE DEF IInv
<1>1. request'[o] = q /\ \A p \in Objects : p # o => request'[p] = request[p]
  BY SMTT(30), SMTT(20) DEF Shape
<1>2. Keyed'
  BY <1>1 DEF Keyed, Running
<1>3. EntriesCurrent' /\ EntriesApart' /\ ManifestCurrent' /\ ClaimsBehind'
  BY DEF EntriesCurrent, EntriesApart, ManifestCurrent, ClaimsBehind
<1>4. ContentStored'
  BY <1>1 DEF ContentStored
<1>5. Unreserved'
  BY <1>1 DEF Unreserved
<1> QED BY <1>2, <1>3, <1>4, <1>5

\* While files and manifest stay and no current object leaves its state, they
\* refer to current objects.
LEMMA CurrentStays ==
  ASSUME IInv, UNCHANGED <<entry, sealed, manifest>>,
         \A p \in Objects : row[p].state = "current" => row'[p].state = "current"
  PROVE  EntriesCurrent' /\ EntriesApart' /\ ManifestCurrent'
<1>1. EntriesCurrent'
  <2> SUFFICES ASSUME NEW s \in Slots, entry[s] # NoObject PROVE row'[entry[s]].state = "current"
    BY DEF EntriesCurrent
  <2>1. entry[s] \in Objects /\ row[entry[s]].state = "current"
    BY DEF IInv, Shape, EntriesCurrent
  <2> QED BY <2>1
<1>2. EntriesApart'
  BY DEF IInv, EntriesApart
<1>3. ManifestCurrent'
  <2>1. \A p \in manifest : p \in Objects /\ row[p].state = "current"
    BY DEF IInv, ManifestCurrent
  <2> QED BY <2>1 DEF IInv, ManifestCurrent
<1> QED BY <1>1, <1>2, <1>3

Behind == {"reclaimable", "claimed", "gone"}

\* What a purge has claimed stays behind while every execution only shortens
\* its list.
LEMMA ClaimsStay ==
  ASSUME IInv, \A t \in Tokens : cleaner'[t].left \subseteq cleaner[t].left,
         \A p \in Objects : row[p].state \in Behind => row'[p].state \in Behind
  PROVE  ClaimsBehind'
<1> SUFFICES ASSUME NEW t \in Tokens, NEW p \in cleaner'[t].left PROVE row'[p].state \in Behind
  BY DEF ClaimsBehind, Behind
<1>1. p \in cleaner[t].left /\ p \in Objects
  BY DEF IInv, Shape
<1> QED BY <1>1 DEF IInv, ClaimsBehind, Behind

\* An admitted Workspace satisfies the invariant.
LEMMA InitInv == Init => IInv
<1> SUFFICES ASSUME Init PROVE IInv
  OBVIOUS
<1>1. (CHOOSE s \in Slots : TRUE) \in Slots
  BY ObjectsAssumption
<1>2. Shape
  BY <1>1 DEF Init, Shape, Rows, NoRow, NoCommand, Idle, States
<1>3. Keyed /\ EntriesCurrent /\ EntriesApart /\ ManifestCurrent
  BY DEF Init, Keyed, Running, EntriesCurrent, EntriesApart, ManifestCurrent
<1>4. ContentStored /\ ClaimsBehind /\ Unreserved
  BY DEF Init, ContentStored, ClaimsBehind, Unreserved, NoRow, Idle
<1> QED BY <1>2, <1>3, <1>4 DEF IInv

\* A request that ends, wherever it is, leaves the invariant.
LEMMA FinishInv ==
  ASSUME IInv, NEW o \in Objects, Finish(o), UNCHANGED <<row, entry, sealed, manifest, command, stored, cleaner>>
  PROVE  IInv'
<1> DEFINE q == [pc |-> "done", key |-> NoKey, timer |-> 0]
<1>1. q \in [pc : {"reserve", "write", "apply", "mark", "done"}, key : Keys \cup {NoKey}, timer : Nat] /\ q.pc = "done"
  OBVIOUS
<1>2. request' = [request EXCEPT ![o] = q]
  BY DEF Finish
<1>3. Shape'
  BY <1>1, <1>2 DEF IInv, Shape
<1> HIDE DEF q
<1> QED BY <1>1, <1>2, <1>3, RequestMoves

\* A request that goes on to its mutation or gives its object back.
LEMMA GotoInv ==
  ASSUME IInv, NEW o \in Objects, NEW pc \in {"apply", "mark"}, Running(o), Goto(o, pc),
         UNCHANGED <<row, entry, sealed, manifest, command, stored, cleaner>>
  PROVE  IInv'
<1> DEFINE q == [request[o] EXCEPT !.pc = pc]
<1>1. q \in [pc : {"reserve", "write", "apply", "mark", "done"}, key : Keys \cup {NoKey}, timer : Nat]
      /\ q.pc = pc /\ q.key \in Keys
  BY SMTT(30), SMTT(20) DEF IInv, Shape, Keyed
<1>2. request' = [request EXCEPT ![o] = q]
  BY DEF Goto
<1>3. Shape'
  BY <1>1, <1>2 DEF IInv, Shape
<1> HIDE DEF q
<1> QED BY <1>1, <1>2, <1>3, RequestMoves

\* The arrival of a request under a key.
LEMMA BeginInv ==
  ASSUME IInv, NEW o \in Objects, NEW k \in Keys, Begin(o, k)
  PROVE  IInv'
<1> DEFINE q == [pc |-> "reserve", key |-> k, timer |-> Request]
<1>1. q \in [pc : {"reserve", "write", "apply", "mark", "done"}, key : Keys \cup {NoKey}, timer : Nat]
      /\ q.pc = "reserve" /\ q.key \in Keys
  BY ObjectsAssumption
<1>2. request' = [request EXCEPT ![o] = q] /\ request[o].pc = "idle"
      /\ UNCHANGED <<row, entry, sealed, manifest, stored, cleaner>>
  BY DEF Begin
<1>3. command' \in [Keys -> [used : BOOLEAN, slot : Slots, seen : Objects \cup {NoObject}]]
  <2>1. CASE UNCHANGED command
    BY <2>1 DEF IInv, Shape
  <2>2. CASE \E s \in Slots : command' = [command EXCEPT ![k] = [used |-> TRUE, slot |-> s, seen |-> entry[s]]]
    <3>1. PICK s \in Slots : command' = [command EXCEPT ![k] = [used |-> TRUE, slot |-> s, seen |-> entry[s]]]
      BY <2>2
    <3>2. entry[s] \in Objects \cup {NoObject}
      BY DEF IInv, Shape
    <3> QED BY <3>1, <3>2 DEF IInv, Shape
  <2> QED BY <2>1, <2>2 DEF Begin
<1>4. Shape'
  BY <1>1, <1>2, <1>3 DEF IInv, Shape
<1> HIDE DEF q
<1> QED BY <1>1, <1>2, <1>4, RequestMoves

\* The lemmas below are about steps that change rows.  Each states what the
\* step does to every row, then what follows.
LEMMA ReserveInv ==
  ASSUME IInv, NEW o \in Objects, Reserve(o)
  PROVE  IInv'
<1>1. CASE sealed
  BY <1>1, FinishInv DEF Reserve
<1>2. CASE ~sealed
  <2>1. row[o].state = "none" /\ ~row[o].ready /\ request[o].key \in Keys
    BY DEF IInv, Reserve, Unreserved, Keyed, Running
  <2>2. Stage + Window \in Nat
    BY ObjectsAssumption
  <2>3. /\ row' = [row EXCEPT ![o] = [row[o] EXCEPT !.state = "staged", !.timer = Stage + Window]]
        /\ request' = [request EXCEPT ![o] = [request[o] EXCEPT !.pc = "write"]]
        /\ UNCHANGED <<stored, entry, sealed, manifest, command, cleaner>>
    BY <1>2 DEF Reserve, Goto
  <2>r. /\ [row[o] EXCEPT !.state = "staged", !.timer = Stage + Window] \in Rows
        /\ [row[o] EXCEPT !.state = "staged", !.timer = Stage + Window].state = "staged"
        /\ [row[o] EXCEPT !.state = "staged", !.timer = Stage + Window].ready = row[o].ready
    <3>1. row[o] \in Rows /\ "staged" \in States
      BY DEF IInv, Shape, States
    <3> QED BY <2>2, <3>1 DEF Rows
  <2>4. Shape'
    BY <2>3, <2>r, SMTT(30), SMTT(20) DEF IInv, Shape
  <2>5. /\ row'[o].state = "staged" /\ ~row'[o].ready
        /\ request'[o].pc = "write" /\ request'[o].key = request[o].key
        /\ \A p \in Objects : p # o => row'[p] = row[p] /\ request'[p] = request[p]
    BY <2>1, <2>3, <2>r, SMTT(30), SMTT(20) DEF IInv, Shape
  <2>6. Keyed' /\ Unreserved'
    BY <2>1, <2>5 DEF IInv, Keyed, Running, Unreserved
  <2>7. EntriesCurrent' /\ EntriesApart' /\ ManifestCurrent'
    BY <2>1, <2>3, <2>5, CurrentStays
  <2>8. ContentStored'
    BY <2>3, <2>5 DEF IInv, ContentStored
  <2>9. ClaimsBehind'
    BY <2>1, <2>3, <2>5, ClaimsStay DEF Behind
  <2> QED BY <2>4, <2>6, <2>7, <2>8, <2>9 DEF IInv
<1> QED BY <1>1, <1>2

\* Staging: a request is ready only with its content in storage.
LEMMA WriteInv ==
  ASSUME IInv, NEW o \in Objects, Write(o)
  PROVE  IInv'
<1>1. PICK pc \in {"ready", "mark"} :
        /\ request' = [request EXCEPT ![o] = [request[o] EXCEPT !.pc = pc]]
        /\ pc = "ready" => o \in stored'
        /\ stored \subseteq stored'
        /\ UNCHANGED <<row, entry, sealed, manifest, command, cleaner>>
  BY DEF Write, Goto
<1>2. Shape'
  BY <1>1, SMTT(30), SMTT(20) DEF IInv, Shape
<1>3. /\ request'[o].pc = pc /\ request'[o].key = request[o].key
      /\ \A p \in Objects : p # o => request'[p] = request[p]
  BY <1>1, SMTT(30), SMTT(20) DEF IInv, Shape
<1>4. request[o].pc = "write"
  BY DEF Write
<1>5. Keyed' /\ Unreserved'
  BY <1>1, <1>3, <1>4 DEF IInv, Keyed, Running, Unreserved
<1>6. EntriesCurrent' /\ EntriesApart' /\ ManifestCurrent' /\ ClaimsBehind'
  BY <1>1 DEF IInv, EntriesCurrent, EntriesApart, ManifestCurrent, ClaimsBehind
<1>7. ContentStored'
  BY <1>1, <1>3, <1>4 DEF IInv, ContentStored
<1> QED BY <1>2, <1>5, <1>6, <1>7 DEF IInv

\* Recording the content as ready.
LEMMA ReadyInv ==
  ASSUME IInv, NEW o \in Objects, Ready(o)
  PROVE  IInv'
<1>1. CASE Goto(o, "mark") /\ UNCHANGED row
  BY <1>1, GotoInv DEF Ready, Running
<1>2. CASE ~sealed /\ Unexpired(o) /\ row' = [row EXCEPT ![o].ready = TRUE] /\ Goto(o, "apply")
  <2>1. row[o].state = "staged" /\ request[o].pc = "ready" /\ o \in stored /\ request[o].key \in Keys
    BY <1>2 DEF IInv, Ready, Unexpired, ContentStored, Keyed, Running
  <2>2. /\ row' = [row EXCEPT ![o] = [row[o] EXCEPT !.ready = TRUE]]
        /\ request' = [request EXCEPT ![o] = [request[o] EXCEPT !.pc = "apply"]]
        /\ UNCHANGED <<stored, entry, sealed, manifest, command, cleaner>>
    BY <1>2 DEF Ready, Goto
  <2>r. [row[o] EXCEPT !.ready = TRUE] \in Rows /\ [row[o] EXCEPT !.ready = TRUE].state = row[o].state
    <3>1. row[o] \in Rows
      BY DEF IInv, Shape
    <3> QED BY <3>1 DEF Rows
  <2>3. Shape'
    BY <2>2, <2>r, ZenonT(30) DEF IInv, Shape
  <2>4. /\ row'[o].state = "staged"
        /\ request'[o].pc = "apply" /\ request'[o].key = request[o].key
        /\ \A p \in Objects : p # o => row'[p] = row[p] /\ request'[p] = request[p]
    BY <2>1, <2>2, <2>r DEF IInv, Shape
  <2>5. Keyed' /\ Unreserved'
    BY <2>1, <2>4 DEF IInv, Keyed, Running, Unreserved
  <2>6. EntriesCurrent' /\ EntriesApart' /\ ManifestCurrent'
    BY <2>1, <2>2, <2>4, CurrentStays
  <2>7. ContentStored'
    BY <2>1, <2>2, <2>4 DEF IInv, ContentStored
  <2>8. ClaimsBehind'
    BY <2>1, <2>2, <2>4, ClaimsStay DEF Behind
  <2> QED BY <2>3, <2>5, <2>6, <2>7, <2>8 DEF IInv
<1> QED BY <1>1, <1>2 DEF Ready

\* Retire moves the objects it is given, and only those.
LEMMA RetireRows ==
  ASSUME Shape, NEW old, NEW g \in Keys \cup {NoKey}
  PROVE  /\ Retire(row, old, g) \in [Objects -> Rows]
         /\ \A p \in Objects : p \in old => Retire(row, old, g)[p].state = "reclaimable"
         /\ \A p \in Objects : p \notin old => Retire(row, old, g)[p] = row[p]
<1>1. Window \in Nat
  BY ObjectsAssumption
<1>2. "reclaimable" \in States /\ \A p \in Objects : row[p] \in Rows
  BY DEF Shape, States
<1>3. \A p \in Objects : /\ [row[p] EXCEPT !.state = "reclaimable", !.timer = Window, !.group = g] \in Rows
                         /\ [row[p] EXCEPT !.state = "reclaimable", !.timer = Window, !.group = g].state = "reclaimable"
  BY <1>1, <1>2 DEF Rows
<1> QED BY <1>2, <1>3 DEF Retire

\* The mutation: the staged object becomes current and the replaced one is
\* retired, which no other file refers to.
LEMMA ApplyInv ==
  ASSUME IInv, NEW o \in Objects, Apply(o)
  PROVE  IInv'
<1>1. CASE Goto(o, "mark") /\ UNCHANGED <<row, entry, outcome>>
  BY <1>1, GotoInv DEF Apply, Running
<1>2. CASE CanApply(o) /\ ~(Goto(o, "mark") /\ UNCHANGED <<row, entry, outcome>>)
  <2> DEFINE k == request[o].key
             c == command[k]
             old == {c.seen} \ {NoObject}
             R == Retire(row, old, NoKey)
  <2>1. /\ row' = [R EXCEPT ![o].state = "current", ![o].timer = 0]
        /\ entry' = [entry EXCEPT ![c.slot] = o]
        /\ request' = [request EXCEPT ![o] = [pc |-> "done", key |-> NoKey, timer |-> 0]]
        /\ UNCHANGED <<stored, sealed, manifest, command, cleaner>>
    BY <1>2 DEF Apply, Finish
  <2>2. request[o].pc = "apply" /\ k \in Keys
    BY DEF Apply, IInv, Keyed, Running
  <2>3. c.slot \in Slots /\ c.seen \in Objects \cup {NoObject}
    BY <2>2 DEF IInv, Shape
  <2>4. ~sealed /\ entry[c.slot] = c.seen /\ row[o].state = "staged" /\ row[o].ready
    BY <1>2 DEF CanApply, Consumable, Unexpired
  <2>5. o \in stored /\ manifest = {} /\ \A s \in Slots : entry[s] # o
    <3>1. \A s \in Slots : entry[s] # o
      BY <2>4, ObjectsAssumption DEF IInv, EntriesCurrent
    <3> QED BY <2>4, <3>1 DEF IInv, ContentStored, ManifestCurrent
  <2>6. /\ R \in [Objects -> Rows]
        /\ \A p \in Objects : p \in old => R[p].state = "reclaimable"
        /\ \A p \in Objects : p \notin old => R[p] = row[p]
    BY RetireRows, SMTT(30), SMTT(20) DEF IInv
  <2> HIDE DEF R
  <2>7. /\ [R[o] EXCEPT !.state = "current", !.timer = 0]
             \in Rows
        /\ [R[o] EXCEPT !.state = "current", !.timer = 0].state = "current"
        /\ row' = [R EXCEPT ![o] = [R[o] EXCEPT !.state = "current", !.timer = 0]]
    <3>1. R[o] \in Rows /\ "current" \in States
      BY <2>6 DEF States
    <3> QED BY <2>1, <3>1 DEF Rows
  <2>8. /\ row' \in [Objects -> Rows]
        /\ row'[o].state = "current"
        /\ \A p \in Objects : p # o /\ p \in old => row'[p].state = "reclaimable"
        /\ \A p \in Objects : p # o /\ p \notin old => row'[p] = row[p]
    BY <2>6, <2>7
  <2>9. /\ request'[o].pc = "done" /\ \A p \in Objects : p # o => request'[p] = request[p]
        /\ request' \in [Objects -> [pc : {"idle", "reserve", "write", "ready", "apply", "mark", "done"},
                              key : Keys \cup {NoKey}, timer : Nat]]
    BY <2>1 DEF IInv, Shape
  <2>10. /\ entry'[c.slot] = o /\ \A s \in Slots : s # c.slot => entry'[s] = entry[s]
         /\ entry' \in [Slots -> Objects \cup {NoObject}]
    BY <2>1, <2>3 DEF IInv, Shape
  <2>11. Shape'
    BY <2>1, <2>8, <2>9, <2>10 DEF IInv, Shape
  <2>12. Keyed' /\ Unreserved'
    <3>1. \A p \in Objects : p \in old => row[p].state = "current"
      BY <2>3, <2>4 DEF IInv, EntriesCurrent
    <3> QED BY <2>8, <2>9, <3>1, SMTT(30), SMTT(20) DEF IInv, Keyed, Running, Unreserved
  <2>13. EntriesApart'
    BY <2>5, <2>10 DEF IInv, EntriesApart
  <2>14. EntriesCurrent'
    <3> SUFFICES ASSUME NEW s \in Slots, s # c.slot, entry[s] # NoObject PROVE row'[entry[s]].state = "current"
      BY <2>8, <2>10 DEF EntriesCurrent
    <3>1. entry[s] \in Objects /\ entry[s] # o /\ row[entry[s]].state = "current"
      BY <2>5 DEF IInv, Shape, EntriesCurrent
    <3>2. entry[s] \notin old
      BY <2>3, <2>4 DEF IInv, EntriesApart
    <3> QED BY <2>8, <3>1, <3>2
  <2>15. ManifestCurrent'
    BY <2>1, <2>5 DEF ManifestCurrent
  <2>16. ContentStored'
    BY <2>1, <2>5, <2>8, <2>9, SMTT(30), SMTT(20) DEF IInv, ContentStored
  <2>17. ClaimsBehind'
    BY <2>1, <2>4, <2>8, ClaimsStay DEF Behind
  <2> QED BY <2>11, <2>12, <2>13, <2>14, <2>15, <2>16, <2>17 DEF IInv
<1> QED BY <1>1, <1>2 DEF Apply

\* Giving a staged object back.
LEMMA MarkInv ==
  ASSUME IInv, NEW o \in Objects, Mark(o)
  PROVE  IInv'
<1>1. CASE UNCHANGED row
  BY <1>1, FinishInv DEF Mark
<1>2. CASE ~UNCHANGED row
  <2>1. /\ row' = [row EXCEPT ![o] = [row[o] EXCEPT !.state = "reclaimable", !.timer = Window]]
        /\ row[o].state = "staged"
        /\ request' = [request EXCEPT ![o] = [pc |-> "done", key |-> NoKey, timer |-> 0]]
        /\ UNCHANGED <<stored, entry, sealed, manifest, command, cleaner>>
    <3>1. row \in [Objects -> Rows]
      BY DEF IInv, Shape
    <3>2. row[o].state = "staged" /\ ~Referenced(o)
      BY <1>2, <3>1 DEF Mark
    <3> QED BY <3>2 DEF Mark, Finish
  <2>2. Window \in Nat
    BY ObjectsAssumption
  <2>3. row[o] \in Rows /\ "reclaimable" \in States
    BY DEF IInv, Shape, States
  <2>4. /\ [row[o] EXCEPT !.state = "reclaimable", !.timer = Window] \in Rows
        /\ [row[o] EXCEPT !.state = "reclaimable", !.timer = Window].state = "reclaimable"
    BY <2>2, <2>3 DEF Rows
  <2>5. Shape'
    BY <2>1, <2>4 DEF IInv, Shape
  <2>6. /\ row'[o].state = "reclaimable" /\ request'[o].pc = "done"
        /\ \A p \in Objects : p # o => row'[p] = row[p] /\ request'[p] = request[p]
    BY <2>1, <2>4 DEF IInv, Shape
  <2>7. Keyed' /\ Unreserved'
    BY <2>6 DEF IInv, Keyed, Running, Unreserved
  <2>8. EntriesCurrent' /\ EntriesApart' /\ ManifestCurrent'
    BY <2>1, <2>6, CurrentStays
  <2>9. ContentStored'
    BY <2>1, <2>6 DEF IInv, ContentStored
  <2>10. ClaimsBehind'
    BY <2>1, <2>6, ClaimsStay DEF Behind
  <2> QED BY <2>5, <2>7, <2>8, <2>9, <2>10 DEF IInv
<1> QED BY <1>1, <1>2

\* Retiring what no file keeps, before the Submission is sealed.
LEMMA RetireInv ==
  ASSUME IInv, ~sealed, NEW old, NEW g \in Keys \cup {NoKey},
         \A p \in old : p \in Objects /\ row[p].state = "current",
         row' = Retire(row, old, g),
         entry' \in [Slots -> Objects \cup {NoObject}],
         \A s \in Slots : entry'[s] # NoObject => entry'[s] = entry[s] /\ entry[s] \notin old,
         command' \in [Keys -> [used : BOOLEAN, slot : Slots, seen : Objects \cup {NoObject}]],
         UNCHANGED <<stored, sealed, manifest, request, cleaner>>
  PROVE  IInv'
<1>1. /\ row' \in [Objects -> Rows]
      /\ \A p \in Objects : p \in old => row'[p].state = "reclaimable"
      /\ \A p \in Objects : p \notin old => row'[p] = row[p]
  BY RetireRows, SMTT(30), SMTT(20) DEF IInv
<1>2. Shape'
  BY <1>1 DEF IInv, Shape
<1>3. Keyed' /\ Unreserved'
  BY <1>1 DEF IInv, Keyed, Running, Unreserved
<1>4. EntriesApart' /\ ManifestCurrent'
  BY DEF IInv, EntriesApart, ManifestCurrent
<1>5. EntriesCurrent'
  <2> SUFFICES ASSUME NEW s \in Slots, entry'[s] # NoObject PROVE row'[entry'[s]].state = "current"
    BY DEF EntriesCurrent
  <2>1. entry'[s] \in Objects /\ entry'[s] = entry[s] /\ entry[s] \notin old
    OBVIOUS
  <2>2. row[entry[s]].state = "current"
    BY <2>1 DEF IInv, EntriesCurrent
  <2> QED BY <1>1, <2>1, <2>2, SMTT(30), SMTT(20)
<1>6. ContentStored'
  BY <1>1 DEF IInv, ContentStored
<1>7. ClaimsBehind'
  <2>1. \A p \in Objects : row[p].state \in Behind => row'[p].state \in Behind
    BY <1>1 DEF Behind
  <2> QED BY <2>1, ClaimsStay
<1> QED BY <1>2, <1>3, <1>4, <1>5, <1>6, <1>7 DEF IInv

\* Deleting a file retires the object of that file only.
LEMMA DeleteFileInv ==
  ASSUME IInv, NEW k \in Keys, NEW s \in Slots, DeleteFile(k, s)
  PROVE  IInv'
<1>1. entry[s] \in Objects /\ row[entry[s]].state = "current"
  BY DEF IInv, Shape, EntriesCurrent, DeleteFile
<1>2. /\ entry' \in [Slots -> Objects \cup {NoObject}]
      /\ entry'[s] = NoObject /\ \A u \in Slots : u # s => entry'[u] = entry[u]
  BY DEF IInv, Shape, DeleteFile
<1>3. \A u \in Slots : entry'[u] # NoObject => entry'[u] = entry[u] /\ entry[u] \notin {entry[s]}
  BY <1>2 DEF IInv, EntriesApart
<1>4. command' \in [Keys -> [used : BOOLEAN, slot : Slots, seen : Objects \cup {NoObject}]]
  BY <1>1 DEF IInv, Shape, DeleteFile
<1>5. /\ ~sealed /\ row' = Retire(row, {entry[s]}, NoKey)
      /\ UNCHANGED <<stored, sealed, manifest, request, cleaner>>
  BY DEF DeleteFile
<1>6. \A p \in {entry[s]} : p \in Objects /\ row[p].state = "current"
  BY <1>1
<1> QED BY <1>2, <1>3, <1>4, <1>5, <1>6, RetireInv

\* Deleting the directory retires the objects of all its files.
LEMMA DeleteSubtreeInv ==
  ASSUME IInv, NEW k \in Keys, DeleteSubtree(k)
  PROVE  IInv'
<1> DEFINE old == {entry[s] : s \in Slots} \ {NoObject}
<1>1. \A p \in old : p \in Objects /\ row[p].state = "current"
  BY SMTT(30), SMTT(20) DEF IInv, Shape, EntriesCurrent
<1>2. entry' \in [Slots -> Objects \cup {NoObject}] /\ \A s \in Slots : entry'[s] = NoObject
  BY DEF DeleteSubtree
<1>3. command' = [command EXCEPT ![k] = [command[k] EXCEPT !.used = TRUE]]
  BY DEF DeleteSubtree
<1>4. command' \in [Keys -> [used : BOOLEAN, slot : Slots, seen : Objects \cup {NoObject}]]
  <2>1. [command[k] EXCEPT !.used = TRUE] \in [used : BOOLEAN, slot : Slots, seen : Objects \cup {NoObject}]
    <3>1. command[k] \in [used : BOOLEAN, slot : Slots, seen : Objects \cup {NoObject}]
      BY DEF IInv, Shape
    <3> QED BY <3>1
  <2> QED BY <1>3, <2>1 DEF IInv, Shape
<1>5. ~sealed /\ row' = Retire(row, old, k) /\ UNCHANGED <<stored, sealed, manifest, request, cleaner>>
  BY DEF DeleteSubtree
<1> HIDE DEF old
<1> QED BY <1>1, <1>2, <1>4, <1>5, RetireInv

\* Sealing: the manifest takes current objects, and none is retired after it.
LEMMA SealInv ==
  ASSUME IInv, Seal
  PROVE  IInv'
<1>1. UNCHANGED <<row, stored, entry, command, request, cleaner>> /\ sealed' /\ manifest' = {entry[s] : s \in Slots} \ {NoObject}
  BY DEF Seal
<1>2. Shape' /\ Keyed' /\ EntriesCurrent' /\ EntriesApart' /\ ContentStored' /\ ClaimsBehind' /\ Unreserved'
  BY <1>1 DEF IInv, Shape, Keyed, Running, EntriesCurrent, EntriesApart, ContentStored, ClaimsBehind, Unreserved
<1>3. ManifestCurrent'
  BY <1>1, SMTT(30), SMTT(20) DEF IInv, Shape, EntriesCurrent, ManifestCurrent
<1> QED BY <1>2, <1>3 DEF IInv

-----------------------------------------------------------------------------
(* The purge and the clock *)

Cleaners == [pc : {"idle", "work", "complete", "release"}, left : SUBSET Objects, current : Objects \cup {NoObject}]

\* A step of an execution: it takes on nothing new, removes only what was
\* before it, and moves only rows that were claimed.
LEMMA CleanerMoves ==
  ASSUME IInv, NEW t \in Tokens, NEW q \in Cleaners,
         q.left \subseteq cleaner[t].left,
         cleaner' = [cleaner EXCEPT ![t] = q],
         \A p \in stored : p \in stored' \/ p \in cleaner[t].left,
         row' \in [Objects -> Rows],
         \A p \in Objects : \/ row'[p].state = row[p].state /\ row'[p].ready = row[p].ready
                            \/ row[p].state \in Behind /\ row'[p].state \in Behind,
         UNCHANGED <<entry, sealed, manifest, command, request>>
  PROVE  IInv'
<1>1. cleaner'[t] = q /\ \A u \in Tokens : u # t => cleaner'[u] = cleaner[u]
  BY DEF IInv, Shape
<1>2. Shape'
  BY DEF IInv, Shape, Cleaners
<1>3. Keyed' /\ Unreserved'
  BY DEF IInv, Keyed, Running, Unreserved, Behind
<1>4. EntriesCurrent' /\ EntriesApart' /\ ManifestCurrent'
  <2>1. \A p \in Objects : row[p].state = "current" => row'[p].state = "current"
    BY DEF Behind
  <2> QED BY <2>1, CurrentStays
<1>5. ClaimsBehind'
  <2>1. \A p \in Objects : row[p].state \in Behind => row'[p].state \in Behind
    OBVIOUS
  <2>2. \A u \in Tokens : cleaner'[u].left \subseteq cleaner[u].left
    BY <1>1
  <2> QED BY <2>1, <2>2, ClaimsStay
<1>6. ContentStored'
  <2>1. \A p \in cleaner[t].left : row[p].state \in Behind
    BY DEF IInv, ClaimsBehind, Behind
  <2> QED BY <2>1 DEF IInv, ContentStored, Behind
<1> QED BY <1>2, <1>3, <1>4, <1>5, <1>6 DEF IInv

\* The same for the steps that leave the rows alone.
LEMMA CleanerWorks ==
  ASSUME IInv, NEW t \in Tokens, NEW q \in Cleaners,
         q.left \subseteq cleaner[t].left,
         cleaner' = [cleaner EXCEPT ![t] = q],
         \A p \in stored : p \in stored' \/ p \in cleaner[t].left,
         UNCHANGED <<row, entry, sealed, manifest, command, request>>
  PROVE  IInv'
<1>1. row' \in [Objects -> Rows]
  BY DEF IInv, Shape
<1> QED BY <1>1, CleanerMoves

\* A claim takes staged, reclaimable and claimed objects, never one in use.
LEMMA ClaimInv ==
  ASSUME IInv, NEW t \in Tokens, Claim(t)
  PROVE  IInv'
<1>1. PICK S \in SUBSET Claimable :
        /\ row' = [o \in Objects |-> IF o \in S THEN [row[o] EXCEPT !.state = "claimed", !.timer = ClaimLease, !.token = t] ELSE row[o]]
        /\ cleaner' = [cleaner EXCEPT ![t] = [pc |-> "work", left |-> S, current |-> NoObject]]
        /\ UNCHANGED <<stored, entry, sealed, manifest, command, request>>
  BY DEF Claim
<1>2. \A o \in S : o \in Objects /\ row[o].state \in {"staged", "reclaimable", "claimed"}
                  /\ \A s \in Slots : entry[s] # o
  BY DEF Claimable, Due, Referenced
<1>3. "claimed" \in States /\ ClaimLease \in Nat /\ \A o \in Objects : row[o] \in Rows
  BY ObjectsAssumption DEF IInv, Shape, States
<1>4. \A o \in Objects : /\ [row[o] EXCEPT !.state = "claimed", !.timer = ClaimLease, !.token = t] \in Rows
                         /\ [row[o] EXCEPT !.state = "claimed", !.timer = ClaimLease, !.token = t].state = "claimed"
  BY <1>3 DEF Rows
<1>5. /\ row' \in [Objects -> Rows]
      /\ \A o \in Objects : o \in S => row'[o].state = "claimed"
      /\ \A o \in Objects : o \notin S => row'[o] = row[o]
  BY <1>1, <1>3, <1>4
<1>6. cleaner'[t].left = S /\ \A u \in Tokens : u # t => cleaner'[u] = cleaner[u]
  BY <1>1 DEF IInv, Shape
<1>7. Shape'
  <2>1. [pc |-> "work", left |-> S, current |-> NoObject] \in Cleaners
    BY <1>2 DEF Cleaners
  <2> QED BY <1>1, <1>5, <2>1 DEF IInv, Shape, Cleaners
<1>8. Keyed' /\ Unreserved'
  BY <1>1, <1>2, <1>5 DEF IInv, Keyed, Running, Unreserved
<1>9. EntriesCurrent' /\ EntriesApart' /\ ManifestCurrent'
  <2>1. \A p \in Objects : row[p].state = "current" => row'[p].state = "current"
    BY <1>2, <1>5
  <2> QED BY <1>1, <2>1, CurrentStays
<1>10. ContentStored'
  BY <1>1, <1>5 DEF IInv, ContentStored
<1>11. ClaimsBehind'
  <2> SUFFICES ASSUME NEW u \in Tokens, NEW p \in cleaner'[u].left PROVE row'[p].state \in Behind
    BY DEF ClaimsBehind, Behind
  <2>1. CASE p \in S
    BY <1>2, <1>5, <2>1 DEF Behind
  <2>2. CASE p \notin S
    <3>1. p \in cleaner[u].left /\ p \in Objects
      BY <1>6, <2>2 DEF IInv, Shape
    <3> QED BY <1>5, <2>2, <3>1 DEF IInv, ClaimsBehind, Behind
  <2> QED BY <2>1, <2>2
<1> QED BY <1>7, <1>8, <1>9, <1>10, <1>11 DEF IInv

\* The removal of a claimed object from storage.
LEMMA RemoveInv ==
  ASSUME IInv, NEW t \in Tokens, Remove(t)
  PROVE  IInv'
<1>1. PICK o \in cleaner[t].left :
        /\ stored' = stored \ {o}
        /\ cleaner' = [cleaner EXCEPT ![t] = [pc |-> "complete", left |-> cleaner[t].left \ {o}, current |-> o]]
        /\ UNCHANGED <<row, entry, sealed, manifest, command, request>>
  BY DEF Remove
<1> DEFINE q == [pc |-> "complete", left |-> cleaner[t].left \ {o}, current |-> o]
<1>2. q \in Cleaners /\ q.left \subseteq cleaner[t].left
  BY DEF IInv, Shape, Cleaners
<1> HIDE DEF q
<1>3. cleaner' = [cleaner EXCEPT ![t] = q]
  BY <1>1 DEF q
<1> QED BY <1>1, <1>2, <1>3, CleanerWorks

\* The deletion of its row, or the conflict.
LEMMA CompleteInv ==
  ASSUME IInv, NEW t \in Tokens, Complete(t)
  PROVE  IInv'
<1> DEFINE o == cleaner[t].current
           pc == IF Completed(t, o) \/ row[o].state = "gone" THEN "work" ELSE "release"
           q == [cleaner[t] EXCEPT !.current = NoObject, !.pc = pc]
<1>1. /\ row' = [row EXCEPT ![o] = IF Completed(t, o) THEN [NoRow EXCEPT !.state = "gone"] ELSE row[o]]
      /\ cleaner' = [cleaner EXCEPT ![t] = q]
      /\ UNCHANGED <<stored, entry, sealed, manifest, command, request>>
  BY DEF Complete
<1>2. q \in Cleaners /\ q.left = cleaner[t].left
  <2>1. cleaner[t] \in Cleaners /\ pc \in {"work", "release"}
    BY DEF IInv, Shape, Cleaners
  <2> HIDE DEF pc
  <2> QED BY <2>1 DEF Cleaners
<1>3. [NoRow EXCEPT !.state = "gone"] \in Rows /\ [NoRow EXCEPT !.state = "gone"].state = "gone"
  BY DEF NoRow, Rows, States
<1>4. /\ row' \in [Objects -> Rows]
      /\ \A p \in Objects : row'[p] = row[p] \/ (row[p].state = "claimed" /\ row'[p].state = "gone")
  <2>1. row \in [Objects -> Rows]
    BY DEF IInv, Shape
  <2>2. Completed(t, o) => row[o].state = "claimed"
    BY DEF Completed
  <2> HIDE DEF o
  <2> QED BY <1>1, <1>3, <2>1, <2>2
<1> HIDE DEF q, o
<1> QED BY <1>1, <1>2, <1>4, CleanerMoves DEF Behind

\* A failure with or without its effect on storage.
LEMMA FailInv ==
  ASSUME IInv, NEW t \in Tokens, Fail(t)
  PROVE  IInv'
<1>0. UNCHANGED <<row, entry, sealed, manifest, command, request>>
  BY DEF Fail
<1>1. CASE \E o \in cleaner[t].left :
             /\ stored' \in {stored, stored \ {o}}
             /\ cleaner' = [cleaner EXCEPT ![t] = [pc |-> "release", left |-> cleaner[t].left \ {o}, current |-> NoObject]]
  <2>1. PICK o \in cleaner[t].left :
             /\ stored' \in {stored, stored \ {o}}
             /\ cleaner' = [cleaner EXCEPT ![t] = [pc |-> "release", left |-> cleaner[t].left \ {o}, current |-> NoObject]]
    BY <1>1
  <2> DEFINE q == [pc |-> "release", left |-> cleaner[t].left \ {o}, current |-> NoObject]
  <2>2. q \in Cleaners /\ q.left \subseteq cleaner[t].left
    BY DEF IInv, Shape, Cleaners
  <2> HIDE DEF q
  <2>3. cleaner' = [cleaner EXCEPT ![t] = q]
    BY <2>1 DEF q
  <2> QED BY <1>0, <2>1, <2>2, <2>3, CleanerWorks
<1>2. CASE cleaner' = [cleaner EXCEPT ![t].pc = "release", ![t].current = NoObject] /\ UNCHANGED stored
  <2> DEFINE q == [cleaner[t] EXCEPT !.pc = "release", !.current = NoObject]
  <2>1. q \in Cleaners /\ q.left = cleaner[t].left
    <3>1. cleaner[t] \in Cleaners
      BY DEF IInv, Shape, Cleaners
    <3> QED BY <3>1 DEF Cleaners
  <2>2. cleaner' = [cleaner EXCEPT ![t] = q]
    BY <1>2
  <2> HIDE DEF q
  <2> QED BY <1>0, <1>2, <2>1, <2>2, CleanerWorks
<1> QED BY <1>1, <1>2 DEF Fail

\* The end of an execution.
LEMMA IdleInv ==
  ASSUME IInv, NEW t \in Tokens, cleaner' = [cleaner EXCEPT ![t] = Idle],
         UNCHANGED <<row, stored, entry, sealed, manifest, command, request>>
  PROVE  IInv'
<1>1. Idle \in Cleaners /\ Idle.left \subseteq cleaner[t].left
  BY DEF Idle, Cleaners
<1> QED BY <1>1, CleanerWorks

\* Giving claims back.
LEMMA ReleaseInv ==
  ASSUME IInv, NEW t \in Tokens, Release(t)
  PROVE  IInv'
<1>1. PICK o \in cleaner[t].left :
        \/ /\ Releases(t, o)
           /\ row' = [row EXCEPT ![o].state = "reclaimable", ![o].timer = 0, ![o].token = NoToken]
           /\ cleaner' = [cleaner EXCEPT ![t].left = @ \ {o}]
        \/ ~Releases(t, o) /\ cleaner' = [cleaner EXCEPT ![t] = Idle] /\ UNCHANGED row
  BY DEF Release
<1>2. UNCHANGED <<stored, entry, sealed, manifest, command, request>>
  BY DEF Release
<1>3. CASE ~Releases(t, o)
  BY <1>1, <1>2, <1>3, IdleInv
<1>4. CASE Releases(t, o)
  <2> DEFINE q == [cleaner[t] EXCEPT !.left = @ \ {o}]
             r == [row[o] EXCEPT !.state = "reclaimable", !.timer = 0, !.token = NoToken]
  <2>1. row[o].state = "claimed" /\ o \in Objects
    BY <1>4 DEF Releases, IInv, Shape
  <2>2. cleaner' = [cleaner EXCEPT ![t] = q] /\ row' = [row EXCEPT ![o] = r]
    BY <1>1, <1>4
  <2>3. q \in Cleaners /\ q.left \subseteq cleaner[t].left
    <3>1. cleaner[t] \in Cleaners
      BY DEF IInv, Shape, Cleaners
    <3> QED BY <3>1 DEF Cleaners
  <2>4. r \in Rows /\ r.state = "reclaimable"
    <3>1. row[o] \in Rows /\ "reclaimable" \in States
      BY <2>1 DEF IInv, Shape, States
    <3> QED BY <3>1 DEF Rows
  <2> HIDE DEF q, r
  <2>5. /\ row' \in [Objects -> Rows]
        /\ \A p \in Objects : row'[p] = row[p] \/ (row[p].state = "claimed" /\ row'[p].state = "reclaimable")
    <3>1. row \in [Objects -> Rows]
      BY DEF IInv, Shape
    <3> QED BY <2>1, <2>2, <2>4, <3>1
  <2> QED BY <1>2, <2>2, <2>3, <2>5, CleanerMoves DEF Behind
<1> QED BY <1>3, <1>4

\* Time moves timers only.
LEMMA ElapseInv ==
  ASSUME IInv, Elapse
  PROVE  IInv'
<1>0. \A n \in Nat : Down(n) \in Nat
  BY DEF Down
<1>1. /\ row' = [o \in Objects |-> [row[o] EXCEPT !.timer = Down(row[o].timer)]]
      /\ request' = [o \in Objects |-> [request[o] EXCEPT !.timer = Down(request[o].timer)]]
      /\ UNCHANGED <<stored, entry, sealed, manifest, command, cleaner>>
  BY DEF Elapse
<1>2. \A o \in Objects : LET r == [row[o] EXCEPT !.timer = Down(row[o].timer)]
                         IN r \in Rows /\ r.state = row[o].state /\ r.ready = row[o].ready
  <2> SUFFICES ASSUME NEW o \in Objects
               PROVE  LET r == [row[o] EXCEPT !.timer = Down(row[o].timer)]
                      IN r \in Rows /\ r.state = row[o].state /\ r.ready = row[o].ready
    OBVIOUS
  <2>1. row[o] \in Rows
    BY DEF IInv, Shape
  <2>2. Down(row[o].timer) \in Nat
    BY <1>0, <2>1 DEF Rows
  <2> QED BY <2>1, <2>2 DEF Rows
<1>3. /\ row' \in [Objects -> Rows]
      /\ \A o \in Objects : row'[o].state = row[o].state /\ row'[o].ready = row[o].ready
  BY <1>1, <1>2
<1> DEFINE Asked == [pc : {"idle", "reserve", "write", "ready", "apply", "mark", "done"}, key : Keys \cup {NoKey}, timer : Nat]
<1>4. \A o \in Objects : LET q == [request[o] EXCEPT !.timer = Down(request[o].timer)]
                         IN q \in Asked /\ q.pc = request[o].pc /\ q.key = request[o].key
  <2> SUFFICES ASSUME NEW o \in Objects
               PROVE  LET q == [request[o] EXCEPT !.timer = Down(request[o].timer)]
                      IN q \in Asked /\ q.pc = request[o].pc /\ q.key = request[o].key
    OBVIOUS
  <2>1. request[o] \in Asked
    BY DEF IInv, Shape
  <2>2. Down(request[o].timer) \in Nat
    BY <1>0, <2>1
  <2> QED BY <2>1, <2>2
<1>5. /\ request' \in [Objects -> Asked]
      /\ \A o \in Objects : request'[o].pc = request[o].pc /\ request'[o].key = request[o].key
  <2> HIDE DEF Asked
  <2> QED BY <1>1, <1>4
<1>6. Shape'
  BY <1>1, <1>3, <1>5 DEF IInv, Shape
<1>7. Keyed' /\ Unreserved'
  BY <1>3, <1>5 DEF IInv, Keyed, Running, Unreserved
<1>8. EntriesCurrent' /\ EntriesApart' /\ ManifestCurrent'
  BY <1>1, <1>3, CurrentStays
<1>9. ContentStored'
  BY <1>1, <1>3, <1>5 DEF IInv, ContentStored
<1>10. ClaimsBehind'
  BY <1>1, <1>3, ClaimsStay
<1> QED BY <1>6, <1>7, <1>8, <1>9, <1>10 DEF IInv

\* Steps of readers, of the outcome cleanup and stutters.
LEMMA OthersInv ==
  ASSUME IInv, UNCHANGED <<row, stored, entry, sealed, manifest, command, request, cleaner>>
  PROVE  IInv'
BY DEF IInv, Shape, Keyed, Running, EntriesCurrent, EntriesApart, ManifestCurrent, ContentStored, ClaimsBehind, Unreserved

\* Every step keeps the invariant.
LEMMA NextInv == IInv /\ [Next]_vars => IInv'
<1> SUFFICES ASSUME IInv, [Next]_vars PROVE IInv'
  OBVIOUS
<1>1. ASSUME NEW o \in Objects, NEW k \in Keys, Begin(o, k) PROVE IInv'
  BY <1>1, BeginInv
<1>2. ASSUME NEW o \in Objects, RequestStep(o) PROVE IInv'
  BY <1>2, ReserveInv, WriteInv, ReadyInv, ApplyInv, MarkInv DEF RequestStep
<1>3. ASSUME NEW o \in Objects, Lose(o) PROVE IInv'
  BY <1>3, FinishInv DEF Lose
<1>4. ASSUME NEW k \in Keys, NEW s \in Slots, DeleteFile(k, s) PROVE IInv'
  BY <1>4, DeleteFileInv
<1>5. ASSUME NEW k \in Keys, DeleteSubtree(k) PROVE IInv'
  BY <1>5, DeleteSubtreeInv
<1>6. ASSUME NEW k \in Keys, DeleteExpired(k) PROVE IInv'
  BY <1>6, OthersInv DEF DeleteExpired
<1>7. ASSUME NEW s \in Readable, Resolve(s) PROVE IInv'
  BY <1>7, OthersInv DEF Resolve
<1>8. ASSUME NEW t \in Tokens, Claim(t) PROVE IInv'
  BY <1>8, ClaimInv
<1>9. ASSUME NEW t \in Tokens, End(t) \/ Crash(t) PROVE IInv'
  BY <1>9, IdleInv DEF End, Crash
<1>10. ASSUME NEW t \in Tokens, CleanerStep(t) PROVE IInv'
  BY <1>9, <1>10, RemoveInv, CompleteInv, ReleaseInv DEF CleanerStep
<1>11. ASSUME NEW t \in Tokens, Fail(t) PROVE IInv'
  BY <1>11, FailInv
<1>12. CASE Seal
  BY <1>12, SealInv
<1>13. CASE Tick \/ Overrun
  BY <1>13, ElapseInv DEF Tick, Overrun
<1>14. CASE UNCHANGED vars
  BY <1>14, OthersInv DEF vars
<1> QED BY <1>1, <1>2, <1>3, <1>4, <1>5, <1>6, <1>7, <1>8, <1>9, <1>10, <1>11, <1>12, <1>13, <1>14 DEF Next

\* Whatever a file of the Workspace or the sealed Submission refers to has its
\* content in storage, for every number of uploads, executions and failures and
\* whatever the reservations', windows' and claims' durations are.
THEOREM ContentInUseIsStored == Spec => []ReferencedIsStored
<1>1. IInv => ReferencedIsStored
  <2> SUFFICES ASSUME IInv, NEW o \in Objects, (\E s \in Slots : entry[s] = o) \/ o \in manifest PROVE o \in stored
    BY DEF ReferencedIsStored
  <2>1. row[o].state = "current"
    BY ObjectsAssumption DEF IInv, EntriesCurrent, ManifestCurrent
  <2> QED BY <2>1 DEF IInv, ContentStored
<1> QED BY <1>1, InitInv, NextInv, PTL DEF Spec
-----------------------------------------------------------------------------
(* Claims *)

\* A step of the requests, the mutations or the clock changes no claim token.
LEMMA TokensKept ==
  ASSUME IInv, NEW p \in Objects,
         \/ \E o \in Objects : RequestStep(o)
         \/ \E k \in Keys : (\E s \in Slots : DeleteFile(k, s)) \/ DeleteSubtree(k)
         \/ Elapse
  PROVE  row'[p].token = row[p].token
<1>0. row \in [Objects -> Rows] /\ row[p] \in Rows
  BY DEF IInv, Shape
<1>1. \A old, g : Retire(row, old, g)[p].token = row[p].token
  <2> SUFFICES ASSUME NEW old, NEW g PROVE Retire(row, old, g)[p].token = row[p].token
    OBVIOUS
  <2>1. [row[p] EXCEPT !.state = "reclaimable", !.timer = Window, !.group = g].token = row[p].token
    BY <1>0 DEF Rows
  <2> QED BY <2>1 DEF Retire
<1>2. ASSUME NEW o \in Objects, Reserve(o) \/ Ready(o) \/ Write(o) PROVE row'[p].token = row[p].token
  <2>1. /\ [row[p] EXCEPT !.state = "staged", !.timer = Stage + Window].token = row[p].token
        /\ [row[p] EXCEPT !.ready = TRUE].token = row[p].token
    BY <1>0 DEF Rows
  <2>2. \/ UNCHANGED row
        \/ row' = [row EXCEPT ![o] = [row[o] EXCEPT !.state = "staged", !.timer = Stage + Window]]
        \/ row' = [row EXCEPT ![o] = [row[o] EXCEPT !.ready = TRUE]]
    BY <1>2 DEF Reserve, Ready, Write
  <2> QED BY <1>0, <2>1, <2>2
<1>3. ASSUME NEW o \in Objects, Mark(o) PROVE row'[p].token = row[p].token
  <2>1. [row[p] EXCEPT !.state = "reclaimable", !.timer = Window].token = row[p].token
    BY <1>0 DEF Rows
  <2>2. UNCHANGED row \/ row' = [row EXCEPT ![o] = [row[o] EXCEPT !.state = "reclaimable", !.timer = Window]]
    BY <1>0, <1>3 DEF Mark
  <2> QED BY <1>0, <2>1, <2>2
<1>4. ASSUME NEW o \in Objects, Apply(o) PROVE row'[p].token = row[p].token
  <2>1. CASE UNCHANGED row
    BY <2>1
  <2>2. CASE ~UNCHANGED row
    <3> DEFINE old == {command[request[o].key].seen} \ {NoObject}
               R == Retire(row, old, NoKey)
    <3>1. row' = [R EXCEPT ![o].state = "current", ![o].timer = 0]
      BY <1>4, <2>2 DEF Apply
    <3>2. R \in [Objects -> Rows] /\ R[p].token = row[p].token
      BY <1>1, RetireRows DEF IInv
    <3> HIDE DEF R
    <3>3. [R[p] EXCEPT !.state = "current", !.timer = 0].token = R[p].token
      BY <3>2 DEF Rows
    <3>4. row' = [R EXCEPT ![o] = [R[o] EXCEPT !.state = "current", !.timer = 0]]
      BY <3>1
    <3> QED BY <3>2, <3>3, <3>4
  <2> QED BY <2>1, <2>2
<1>5. ASSUME NEW k \in Keys, (\E s \in Slots : DeleteFile(k, s)) \/ DeleteSubtree(k) PROVE row'[p].token = row[p].token
  <2>1. \E old, g : row' = Retire(row, old, g)
    <3>1. CASE \E s \in Slots : DeleteFile(k, s)
      BY <3>1 DEF DeleteFile
    <3>2. CASE DeleteSubtree(k)
      BY <3>2 DEF DeleteSubtree
    <3> QED BY <1>5, <3>1, <3>2
  <2> QED BY <1>1, <2>1
<1>6. CASE Elapse
  <2>1. [row[p] EXCEPT !.timer = Down(row[p].timer)].token = row[p].token
    BY <1>0 DEF Rows
  <2> QED BY <1>6, <2>1 DEF Elapse
<1> QED BY <1>2, <1>3, <1>4, <1>5, <1>6 DEF RequestStep

\* What a step may do to the claim of execution t on object o.
Exclusive(t, o) ==
  row[o].token = t /\ row'[o].token # t => \/ row[o].timer = 0
                                           \/ cleaner[t].pc \in {"complete", "release"} /\ cleaner'[t] # cleaner[t]

\* A claim takes over only claims that have run out.
LEMMA ClaimExclusive ==
  ASSUME IInv, NEW u \in Tokens, Claim(u), NEW t \in Tokens, NEW o \in Objects
  PROVE  Exclusive(t, o)
<1>1. PICK S \in SUBSET Claimable :
        row' = [x \in Objects |-> IF x \in S THEN [row[x] EXCEPT !.state = "claimed", !.timer = ClaimLease, !.token = u] ELSE row[x]]
  BY DEF Claim
<1>2. CASE o \in S
  <2>1. row[o].timer = 0
    BY <1>2 DEF Claimable, Due
  <2> QED BY <2>1 DEF Exclusive
<1>3. CASE o \notin S
  BY <1>1, <1>3 DEF Exclusive
<1> QED BY <1>2, <1>3

\* A completion deletes only rows of its own claim.
LEMMA CompleteExclusive ==
  ASSUME IInv, NEW u \in Tokens, Complete(u), NEW t \in Tokens, NEW o \in Objects
  PROVE  Exclusive(t, o)
<1>1. row \in [Objects -> Rows] /\ cleaner \in [Tokens -> Cleaners]
  BY DEF IInv, Shape, Cleaners
<1>2. CASE row'[o] = row[o]
  BY <1>2 DEF Exclusive
<1>3. CASE row'[o] # row[o]
  <2>1. o = cleaner[u].current /\ Completed(u, o)
    BY <1>1, <1>3 DEF Complete
  <2>2. row[o].token = u /\ cleaner[u].pc = "complete"
    BY <2>1 DEF Completed, Complete
  <2>3. cleaner'[u].pc # "complete"
    BY <1>1 DEF Complete, Cleaners
  <2> QED BY <2>2, <2>3 DEF Exclusive
<1> QED BY <1>2, <1>3

\* A release gives back only rows of its own claim.
LEMMA ReleaseExclusive ==
  ASSUME IInv, NEW u \in Tokens, Release(u), NEW t \in Tokens, NEW o \in Objects
  PROVE  Exclusive(t, o)
<1>1. row \in [Objects -> Rows] /\ cleaner \in [Tokens -> Cleaners]
  BY DEF IInv, Shape, Cleaners
<1>2. CASE row'[o] = row[o]
  BY <1>2 DEF Exclusive
<1>3. CASE row'[o] # row[o]
  <2>1. o \in cleaner[u].left /\ Releases(u, o) /\ cleaner' = [cleaner EXCEPT ![u].left = @ \ {o}]
    BY <1>1, <1>3 DEF Release
  <2>2. row[o].token = u /\ cleaner[u].pc = "release"
    BY <2>1 DEF Releases, Release
  <2>3. cleaner'[u].left = cleaner[u].left \ {o}
    BY <1>1, <2>1 DEF Cleaners
  <2>4. cleaner'[u] # cleaner[u]
    BY <2>1, <2>3
  <2> QED BY <2>2, <2>4 DEF Exclusive
<1> QED BY <1>2, <1>3

\* No execution of the purge loses a claim that has not run out to another
\* one's completion or release: a row's token changes only when the claim is
\* over or by the hand of its holder, for every number of executions.
THEOREM ClaimsAreExclusive == Spec => ClaimIsExclusive
<1> DEFINE A == \A t \in Tokens, o \in Objects :
                  row[o].token = t /\ row'[o].token # t => \/ row[o].timer = 0
                                                           \/ cleaner[t].pc \in {"complete", "release"} /\ cleaner'[t] # cleaner[t]
<1>1. ASSUME IInv, [Next]_vars PROVE [A]_vars
  <2> SUFFICES ASSUME Next, NEW t \in Tokens, NEW o \in Objects PROVE Exclusive(t, o)
    BY <1>1 DEF Exclusive
  <2>1. CASE \E p \in Objects : RequestStep(p)
    BY <1>1, <2>1, TokensKept DEF Exclusive
  <2>2. CASE \E k \in Keys : (\E s \in Slots : DeleteFile(k, s)) \/ DeleteSubtree(k)
    BY <1>1, <2>2, TokensKept DEF Exclusive
  <2>3. CASE Tick \/ Overrun
    BY <1>1, <2>3, TokensKept DEF Exclusive, Tick, Overrun
  <2>4. ASSUME NEW u \in Tokens, Claim(u) PROVE Exclusive(t, o)
    BY <1>1, <2>4, ClaimExclusive
  <2>5. ASSUME NEW u \in Tokens, Complete(u) PROVE Exclusive(t, o)
    BY <1>1, <2>5, CompleteExclusive
  <2>6. ASSUME NEW u \in Tokens, Release(u) PROVE Exclusive(t, o)
    BY <1>1, <2>6, ReleaseExclusive
  <2>7. CASE UNCHANGED row
    BY <2>7 DEF Exclusive
  <2>8. ASSUME NEW u \in Tokens, Remove(u) \/ End(u) \/ Fail(u) \/ Crash(u) PROVE UNCHANGED row
    BY <2>8 DEF Remove, End, Fail, Crash
  <2>9. ASSUME NEW p \in Objects, (\E k \in Keys : Begin(p, k)) \/ Lose(p) PROVE UNCHANGED row
    BY <2>9 DEF Begin, Lose
  <2>10. Seal \/ (\E k \in Keys : DeleteExpired(k)) \/ (\E s \in Readable : Resolve(s)) => UNCHANGED row
    BY DEF Seal, DeleteExpired, Resolve
  <2> QED BY <2>1, <2>2, <2>3, <2>4, <2>5, <2>6, <2>7, <2>8, <2>9, <2>10 DEF Next, CleanerStep
<1>2. ClaimIsExclusive <=> [][A]_vars
  BY DEF ClaimIsExclusive
<1> HIDE DEF A
<1> QED BY <1>1, <1>2, InitInv, NextInv, PTL DEF Spec
-----------------------------------------------------------------------------
(* Readers.  A second invariant, on top of the first: what a reader was    *)
(* given is in use or waits at least as long as the reader does, and what  *)
(* an execution of the purge may still remove waits no longer.             *)

\* A step other than the clock's may move a row so: reserved or consumed or
\* given back while staged, retired, claimed when due, completed or released.
Moves(p) ==
  \/ row'[p].state = row[p].state /\ row'[p].timer = row[p].timer
  \/ row[p].state \in {"none", "staged"}
  \/ row[p].state = "current" /\ row'[p].state = "reclaimable" /\ row'[p].timer = Window
  \/ row[p].state \in {"reclaimable", "claimed"} /\ row[p].timer = 0 /\ row'[p].state = "claimed"
  \/ row[p].state = "claimed" /\ row'[p].state = "gone"
  \/ row[p].state = "claimed" /\ row'[p].state = "reclaimable" /\ row'[p].timer = 0

\* The requests reserve, consume and give back staged rows.
LEMMA RequestMovesRows ==
  ASSUME IInv, NEW o \in Objects, Reserve(o) \/ Write(o) \/ Ready(o) \/ Mark(o), NEW p \in Objects
  PROVE  Moves(p)
<1>1. row \in [Objects -> Rows] /\ row[p] \in Rows
  BY DEF IInv, Shape
<1>2. CASE Reserve(o)
  <2>1. row[o].state = "none"
    BY <1>2 DEF Reserve, IInv, Unreserved
  <2>2. p # o => row'[p] = row[p]
    BY <1>1, <1>2 DEF Reserve
  <2> QED BY <2>1, <2>2 DEF Moves
<1>3. CASE Write(o)
  BY <1>3 DEF Write, Moves
<1>4. CASE Ready(o)
  <2>1. row' = [row EXCEPT ![o] = [row[o] EXCEPT !.ready = TRUE]] \/ row' = row
    BY <1>4 DEF Ready
  <2>2. [row[p] EXCEPT !.ready = TRUE].state = row[p].state /\ [row[p] EXCEPT !.ready = TRUE].timer = row[p].timer
    BY <1>1 DEF Rows
  <2> QED BY <1>1, <2>1, <2>2 DEF Moves
<1>5. CASE Mark(o)
  <2>1. row' = row \/ (row[o].state = "staged" /\ \A q \in Objects : q # o => row'[q] = row[q])
    BY <1>1, <1>5 DEF Mark
  <2> QED BY <2>1 DEF Moves
<1> QED BY <1>2, <1>3, <1>4, <1>5

\* What is retired waits the window.
LEMMA RetiredRows ==
  ASSUME IInv, NEW old, NEW g \in Keys \cup {NoKey}, NEW p \in Objects, p \in old => row[p].state = "current",
         row'[p] = Retire(row, old, g)[p]
  PROVE  Moves(p)
<1>1. row[p] \in Rows /\ Window \in Nat
  BY ObjectsAssumption DEF IInv, Shape
<1> DEFINE r == [row[p] EXCEPT !.state = "reclaimable", !.timer = Window, !.group = g]
<1>2. r.state = "reclaimable" /\ r.timer = Window
  BY <1>1 DEF Rows
<1>3. row'[p] = IF p \in old THEN r ELSE row[p]
  BY DEF Retire
<1> HIDE DEF r
<1> QED BY <1>2, <1>3 DEF Moves

\* The mutation consumes a staged row and retires the one it replaces.
LEMMA ApplyMovesRows ==
  ASSUME IInv, NEW o \in Objects, Apply(o), NEW p \in Objects
  PROVE  Moves(p)
<1>1. CASE row' = row
  BY <1>1 DEF Moves
<1>2. CASE row' # row
  <2> DEFINE c == command[request[o].key]
             old == {c.seen} \ {NoObject}
             R == Retire(row, old, NoKey)
  <2>1. CanApply(o) /\ row' = [R EXCEPT ![o].state = "current", ![o].timer = 0]
    BY <1>2 DEF Apply
  <2>2. row[o].state = "staged" /\ entry[c.slot] = c.seen
    BY <2>1 DEF CanApply, Consumable, Unexpired
  <2>3. request[o].key \in Keys /\ c.slot \in Slots
    BY DEF IInv, Keyed, Running, Shape, Apply
  <2>4. \A q \in old : row[q].state = "current"
    BY <2>2, <2>3 DEF IInv, EntriesCurrent
  <2>5. CASE p = o
    BY <2>2, <2>5 DEF Moves
  <2>6. CASE p # o
    <3>1. R \in [Objects -> Rows]
      BY RetireRows DEF IInv
    <3> HIDE DEF R
    <3>2. row'[p] = R[p]
      BY <2>1, <2>6, <3>1
    <3>3. row'[p] = Retire(row, old, NoKey)[p]
      BY <3>2 DEF R
    <3> HIDE DEF old
    <3> QED BY <2>4, <3>3, RetiredRows
  <2> QED BY <2>5, <2>6
<1> QED BY <1>1, <1>2

\* Deletions retire the objects of files.
LEMMA DeletionMovesRows ==
  ASSUME IInv, NEW k \in Keys, (\E s \in Slots : DeleteFile(k, s)) \/ DeleteSubtree(k), NEW p \in Objects
  PROVE  Moves(p)
<1>1. ASSUME NEW s \in Slots, DeleteFile(k, s) PROVE Moves(p)
  <2>1. row[entry[s]].state = "current" /\ row' = Retire(row, {entry[s]}, NoKey)
    BY <1>1 DEF DeleteFile, IInv, EntriesCurrent
  <2> QED BY <2>1, RetiredRows
<1>2. CASE DeleteSubtree(k)
  <2> DEFINE old == {entry[s] : s \in Slots} \ {NoObject}
  <2>1. \A q \in old : row[q].state = "current"
    BY DEF IInv, EntriesCurrent
  <2>2. row' = Retire(row, old, k)
    BY <1>2 DEF DeleteSubtree
  <2> HIDE DEF old
  <2> QED BY <2>1, <2>2, RetiredRows
<1> QED BY <1>1, <1>2

\* The purge claims what is due, and completes or releases what is claimed.
LEMMA PurgeMovesRows ==
  ASSUME IInv, NEW t \in Tokens, Claim(t) \/ Complete(t) \/ Release(t), NEW p \in Objects
  PROVE  Moves(p)
<1>1. row \in [Objects -> Rows] /\ row[p] \in Rows /\ \A o \in cleaner[t].left : o \in Objects
  BY DEF IInv, Shape
<1>2. CASE Claim(t)
  <2>1. PICK S \in SUBSET Claimable :
          row' = [o \in Objects |-> IF o \in S THEN [row[o] EXCEPT !.state = "claimed", !.timer = ClaimLease, !.token = t] ELSE row[o]]
    BY <1>2 DEF Claim
  <2>2. p \in S => row[p].timer = 0 /\ row[p].state \in {"staged", "reclaimable", "claimed"}
    BY DEF Claimable, Due
  <2>3. [row[p] EXCEPT !.state = "claimed", !.timer = ClaimLease, !.token = t].state = "claimed"
    BY <1>1 DEF Rows
  <2> QED BY <2>1, <2>2, <2>3 DEF Moves
<1>3. CASE Complete(t)
  <2> DEFINE o == cleaner[t].current
  <2>1. row' = [row EXCEPT ![o] = IF Completed(t, o) THEN [NoRow EXCEPT !.state = "gone"] ELSE row[o]]
    BY <1>3 DEF Complete
  <2>2. Completed(t, o) => row[o].state = "claimed"
    BY DEF Completed
  <2>3. [NoRow EXCEPT !.state = "gone"].state = "gone"
    BY DEF NoRow
  <2> HIDE DEF o
  <2> QED BY <1>1, <2>1, <2>2, <2>3 DEF Moves
<1>4. CASE Release(t)
  <2>1. PICK o \in cleaner[t].left :
          \/ Releases(t, o) /\ row' = [row EXCEPT ![o].state = "reclaimable", ![o].timer = 0, ![o].token = NoToken]
          \/ UNCHANGED row
    BY <1>4 DEF Release
  <2>2. Releases(t, o) => row[o].state = "claimed"
    BY DEF Releases
  <2> DEFINE r == [row[o] EXCEPT !.state = "reclaimable", !.timer = 0, !.token = NoToken]
  <2>3. r.state = "reclaimable" /\ r.timer = 0
    BY <1>1 DEF Rows
  <2>4. row' = row \/ (Releases(t, o) /\ row' = [row EXCEPT ![o] = r])
    BY <2>1
  <2> HIDE DEF r
  <2> QED BY <1>1, <2>2, <2>3, <2>4 DEF Moves
<1> QED BY <1>2, <1>3, <1>4

\* Every step but the clock's moves rows only so.
LEMMA RowsMove ==
  ASSUME IInv, Next, ~Elapse, NEW p \in Objects
  PROVE  Moves(p)
<1>1. ASSUME NEW o \in Objects, RequestStep(o) PROVE Moves(p)
  BY <1>1, RequestMovesRows, ApplyMovesRows DEF RequestStep
<1>2. ASSUME NEW k \in Keys, (\E s \in Slots : DeleteFile(k, s)) \/ DeleteSubtree(k) PROVE Moves(p)
  BY <1>2, DeletionMovesRows
<1>3. ASSUME NEW t \in Tokens, Claim(t) \/ Complete(t) \/ Release(t) PROVE Moves(p)
  BY <1>3, PurgeMovesRows
<1>4. CASE UNCHANGED row
  BY <1>4 DEF Moves
<1>5. ASSUME NEW t \in Tokens, Remove(t) \/ End(t) \/ Fail(t) \/ Crash(t) PROVE UNCHANGED row
  BY <1>5 DEF Remove, End, Fail, Crash
<1>6. ASSUME NEW o \in Objects, (\E k \in Keys : Begin(o, k)) \/ Lose(o) PROVE UNCHANGED row
  BY <1>6 DEF Begin, Lose
<1>7. Seal \/ (\E k \in Keys : DeleteExpired(k)) \/ (\E s \in Readable : Resolve(s)) => UNCHANGED row
  BY DEF Seal, DeleteExpired, Resolve
<1> QED BY <1>1, <1>2, <1>3, <1>4, <1>5, <1>6, <1>7 DEF Next, CleanerStep, Tick, Overrun

\* An execution takes on only what it claims in the same step.
LEMMA LeftOnlyClaimed ==
  ASSUME IInv, Next, NEW t \in Tokens, NEW p \in cleaner'[t].left
  PROVE  p \in cleaner[t].left \/ (p \in Objects /\ row'[p].state = "claimed")
<1>1. cleaner \in [Tokens -> Cleaners] /\ row \in [Objects -> Rows]
  BY DEF IInv, Shape, Cleaners
<1>2. CASE UNCHANGED cleaner
  BY <1>2
<1>3. ASSUME NEW u \in Tokens, Claim(u)
      PROVE  p \in cleaner[t].left \/ (p \in Objects /\ row'[p].state = "claimed")
  <2>1. PICK S \in SUBSET Claimable :
        /\ row' = [o \in Objects |-> IF o \in S THEN [row[o] EXCEPT !.state = "claimed", !.timer = ClaimLease, !.token = u] ELSE row[o]]
        /\ cleaner' = [cleaner EXCEPT ![u] = [pc |-> "work", left |-> S, current |-> NoObject]]
    BY <1>3 DEF Claim
  <2>2. S \subseteq Objects
    BY DEF Claimable
  <2>3. CASE u = t
    <3>1. p \in S
      BY <1>1, <2>1, <2>3
    <3>2. p \in Objects /\ row[p] \in Rows
      BY <1>1, <2>2, <3>1
    <3>3. [row[p] EXCEPT !.state = "claimed", !.timer = ClaimLease, !.token = u].state = "claimed"
      BY <3>2 DEF Rows
    <3> QED BY <2>1, <3>1, <3>2, <3>3
  <2>4. CASE u # t
    BY <1>1, <2>1, <2>4
  <2> QED BY <2>3, <2>4
<1>4. ASSUME NEW u \in Tokens, NEW q \in Cleaners, q.left \subseteq cleaner[u].left, cleaner' = [cleaner EXCEPT ![u] = q]
      PROVE  p \in cleaner[t].left
  BY <1>1, <1>4
<1>5. ASSUME NEW u \in Tokens, CleanerStep(u) \/ Fail(u) \/ Crash(u)
      PROVE  \E q \in Cleaners : q.left \subseteq cleaner[u].left /\ cleaner' = [cleaner EXCEPT ![u] = q]
  <2>1. cleaner[u] \in Cleaners
    BY <1>1
  <2>2. CASE cleaner' = [cleaner EXCEPT ![u] = Idle]
    <3>1. Idle \in Cleaners /\ Idle.left \subseteq cleaner[u].left
      BY DEF Idle, Cleaners
    <3> QED BY <2>2, <3>1
  <2>3. ASSUME NEW pc \in {"complete", "release"}, NEW o \in cleaner[u].left, NEW c \in {o, NoObject},
               cleaner' = [cleaner EXCEPT ![u] = [pc |-> pc, left |-> cleaner[u].left \ {o}, current |-> c]]
        PROVE  \E q \in Cleaners : q.left \subseteq cleaner[u].left /\ cleaner' = [cleaner EXCEPT ![u] = q]
    <3> DEFINE q == [pc |-> pc, left |-> cleaner[u].left \ {o}, current |-> c]
    <3>1. q \in Cleaners /\ q.left \subseteq cleaner[u].left
      BY <2>1 DEF Cleaners
    <3> QED BY <2>3, <3>1
  <2>4. ASSUME NEW pc \in {"work", "release"}, cleaner' = [cleaner EXCEPT ![u] = [cleaner[u] EXCEPT !.pc = pc, !.current = NoObject]]
        PROVE  \E q \in Cleaners : q.left \subseteq cleaner[u].left /\ cleaner' = [cleaner EXCEPT ![u] = q]
    <3> DEFINE q == [cleaner[u] EXCEPT !.pc = pc, !.current = NoObject]
    <3>1. q \in Cleaners /\ q.left \subseteq cleaner[u].left
      BY <2>1 DEF Cleaners
    <3> QED BY <2>4, <3>1
  <2>5. ASSUME NEW o \in cleaner[u].left, cleaner' = [cleaner EXCEPT ![u] = [cleaner[u] EXCEPT !.left = cleaner[u].left \ {o}]]
        PROVE  \E q \in Cleaners : q.left \subseteq cleaner[u].left /\ cleaner' = [cleaner EXCEPT ![u] = q]
    <3> DEFINE q == [cleaner[u] EXCEPT !.left = cleaner[u].left \ {o}]
    <3>1. q \in Cleaners /\ q.left \subseteq cleaner[u].left
      BY <2>1 DEF Cleaners
    <3> QED BY <2>5, <3>1
  <2>6. CASE Remove(u)
    <3>1. PICK o \in cleaner[u].left : cleaner' = [cleaner EXCEPT ![u] = [pc |-> "complete", left |-> cleaner[u].left \ {o}, current |-> o]]
      BY <2>6 DEF Remove
    <3> QED BY <2>3, <3>1
  <2>7. CASE Complete(u)
    <3> DEFINE pc == IF Completed(u, cleaner[u].current) \/ row[cleaner[u].current].state = "gone" THEN "work" ELSE "release"
    <3>1. cleaner' = [cleaner EXCEPT ![u] = [cleaner[u] EXCEPT !.pc = pc, !.current = NoObject]]
      BY <2>1, <2>7 DEF Complete, Cleaners
    <3>2. pc \in {"work", "release"}
      OBVIOUS
    <3> HIDE DEF pc
    <3> QED BY <2>4, <3>1, <3>2
  <2>8. CASE Release(u)
    <3>1. CASE cleaner' = [cleaner EXCEPT ![u] = Idle]
      BY <2>2, <3>1
    <3>2. CASE \E o \in cleaner[u].left : cleaner' = [cleaner EXCEPT ![u] = [cleaner[u] EXCEPT !.left = cleaner[u].left \ {o}]]
      BY <2>5, <3>2
    <3> QED BY <2>8, <3>1, <3>2 DEF Release
  <2>9. CASE Fail(u)
    <3>1. CASE \E o \in cleaner[u].left :
                 cleaner' = [cleaner EXCEPT ![u] = [pc |-> "release", left |-> cleaner[u].left \ {o}, current |-> NoObject]]
      BY <2>3, <3>1
    <3>2. CASE cleaner' = [cleaner EXCEPT ![u] = [cleaner[u] EXCEPT !.pc = "release", !.current = NoObject]]
      BY <2>4, <3>2
    <3> QED BY <2>9, <3>1, <3>2 DEF Fail
  <2> QED BY <1>5, <2>2, <2>6, <2>7, <2>8, <2>9 DEF CleanerStep, End, Crash
<1>6. ASSUME NEW o \in Objects, (\E k \in Keys : Begin(o, k)) \/ RequestStep(o) \/ Lose(o) PROVE UNCHANGED cleaner
  BY <1>6 DEF Begin, RequestStep, Lose, Reserve, Write, Ready, Apply, Mark
<1>7. ASSUME NEW k \in Keys, (\E s \in Slots : DeleteFile(k, s)) \/ DeleteSubtree(k) \/ DeleteExpired(k) PROVE UNCHANGED cleaner
  BY <1>7 DEF DeleteFile, DeleteSubtree, DeleteExpired
<1>8. Seal \/ Tick \/ Overrun \/ (\E s \in Readable : Resolve(s)) => UNCHANGED cleaner
  BY DEF Seal, Tick, Overrun, Elapse, Resolve
<1> QED BY <1>2, <1>3, <1>4, <1>5, <1>6, <1>7, <1>8 DEF Next

\* Only what an execution has claimed leaves storage.
LEMMA OnlyClaimedRemoved ==
  ASSUME Next, NEW p \in stored, \A t \in Tokens : p \notin cleaner[t].left
  PROVE  p \in stored'
<1>1. ASSUME NEW t \in Tokens, Claim(t) \/ CleanerStep(t) \/ Fail(t) \/ Crash(t) PROVE p \in stored'
  BY <1>1 DEF CleanerStep, Claim, Remove, Complete, Release, End, Fail, Crash
<1>2. ASSUME NEW o \in Objects, (\E k \in Keys : Begin(o, k)) \/ RequestStep(o) \/ Lose(o) PROVE p \in stored'
  BY <1>2 DEF Begin, RequestStep, Lose, Reserve, Write, Ready, Apply, Mark
<1>3. ASSUME NEW k \in Keys, (\E s \in Slots : DeleteFile(k, s)) \/ DeleteSubtree(k) \/ DeleteExpired(k) PROVE p \in stored'
  BY <1>3 DEF DeleteFile, DeleteSubtree, DeleteExpired
<1>4. Seal \/ Tick \/ Overrun \/ (\E s \in Readable : Resolve(s)) => p \in stored'
  BY DEF Seal, Tick, Overrun, Elapse, Resolve
<1> QED BY <1>1, <1>2, <1>3, <1>4 DEF Next

\* What an execution may still remove has waited its time.
LeftDue == \A t \in Tokens : \A o \in cleaner[t].left : row[o].state = "reclaimable" => row[o].timer = 0

\* What a reader was given is stored, and in use or kept for as long as it reads.
Kept(o, n, content, rows) ==
  /\ o \in Objects /\ o \in content
  /\ rows[o].state = "current" \/ (rows[o].state = "reclaimable" /\ n <= rows[o].timer)

ReaderServed ==
  /\ reader.timer \in 0..Reading
  /\ reader.timer > 0 => Kept(reader.obj, reader.timer, stored, row)

\* The clock shortens the wait of a row and of its reader alike.
LEMMA ElapseServes ==
  ASSUME IInv, LeftDue, ReaderServed, Elapse
  PROVE  LeftDue' /\ ReaderServed'
<1>1. /\ row' = [o \in Objects |-> [row[o] EXCEPT !.timer = Down(row[o].timer)]]
      /\ reader' = IF reader.timer > 1 THEN [reader EXCEPT !.timer = reader.timer - 1] ELSE NoReader
      /\ UNCHANGED <<stored, cleaner>>
  BY DEF Elapse
<1>2. \A o \in Objects : row'[o].state = row[o].state /\ row[o].timer \in Nat /\ row'[o].timer = Down(row[o].timer)
  <2> SUFFICES ASSUME NEW o \in Objects
               PROVE  row'[o].state = row[o].state /\ row[o].timer \in Nat /\ row'[o].timer = Down(row[o].timer)
    OBVIOUS
  <2>1. row[o] \in Rows
    BY DEF IInv, Shape
  <2> QED BY <1>1, <2>1 DEF Rows
<1>3. LeftDue'
  <2> SUFFICES ASSUME NEW t \in Tokens, NEW o \in cleaner[t].left, row'[o].state = "reclaimable" PROVE row'[o].timer = 0
    BY <1>1 DEF LeftDue
  <2>1. o \in Objects
    BY DEF IInv, Shape
  <2> QED BY <1>2, <2>1, SMTT(30), SMTT(20) DEF LeftDue, Down
<1>4. ReaderServed'
  <2>1. CASE reader.timer > 1
    <3>1. reader'.obj = reader.obj /\ reader'.timer = reader.timer - 1
      BY <1>1, <2>1
    <3>2. Kept(reader.obj, reader.timer, stored, row) /\ reader.timer \in 0..Reading
      BY <2>1 DEF ReaderServed
    <3>3. Kept(reader.obj, reader.timer - 1, stored', row')
      BY <1>1, <1>2, <2>1, <3>2, ObjectsAssumption, SMTT(30), SMTT(20) DEF Kept, Down
    <3>4. reader.timer - 1 \in 0..Reading
      BY <2>1, <3>2, ObjectsAssumption
    <3> QED BY <3>1, <3>3, <3>4 DEF ReaderServed
  <2>2. CASE ~(reader.timer > 1)
    BY <1>1, <2>2, ObjectsAssumption, SMTT(30), SMTT(20) DEF NoReader, ReaderServed
  <2> QED BY <2>1, <2>2
<1> QED BY <1>3, <1>4

\* Every other step leaves what a reader was given in storage.
LEMMA StepServes ==
  ASSUME IInv, LeftDue, ReaderServed, Next, ~Elapse, Reading <= Window
  PROVE  LeftDue' /\ ReaderServed'
<1>1. LeftDue'
  <2> SUFFICES ASSUME NEW t \in Tokens, NEW p \in cleaner'[t].left, row'[p].state = "reclaimable" PROVE row'[p].timer = 0
    BY DEF LeftDue
  <2>1. p \in cleaner[t].left
    BY LeftOnlyClaimed
  <2>2. p \in Objects /\ row[p].state \in {"reclaimable", "claimed", "gone"} /\ (row[p].state = "reclaimable" => row[p].timer = 0)
    BY <2>1 DEF IInv, Shape, ClaimsBehind, LeftDue
  <2>3. Moves(p)
    BY <2>2, RowsMove
  <2> QED BY <2>2, <2>3 DEF Moves
<1>2. CASE UNCHANGED reader
  <2>1. CASE reader.timer > 0
    <3> DEFINE o == reader.obj
               n == reader.timer
    <3>1. Kept(o, n, stored, row) /\ n \in 0..Reading /\ n > 0
      BY <2>1 DEF ReaderServed
    <3> HIDE DEF o, n
    <3>2. \A t \in Tokens : o \notin cleaner[t].left
      <4> SUFFICES ASSUME NEW t \in Tokens, o \in cleaner[t].left PROVE FALSE
        OBVIOUS
      <4>1. row[o].state # "current" /\ (row[o].state = "reclaimable" => row[o].timer = 0)
        BY DEF IInv, ClaimsBehind, LeftDue
      <4> QED BY <3>1, <4>1, ObjectsAssumption DEF Kept
    <3>3. o \in stored'
      BY <3>1, <3>2, OnlyClaimedRemoved DEF Kept
    <3>4. o \in Objects /\ Moves(o)
      BY <3>1, RowsMove DEF Kept
    <3>5. row'[o].state = "current" \/ (row'[o].state = "reclaimable" /\ n <= row'[o].timer)
      BY <3>1, <3>4, ObjectsAssumption DEF Kept, Moves
    <3>6. Kept(o, n, stored', row')
      BY <3>3, <3>4, <3>5 DEF Kept
    <3>7. reader'.timer = n /\ reader'.obj = o
      BY <1>2 DEF o, n
    <3> QED BY <1>1, <3>1, <3>6, <3>7 DEF ReaderServed
  <2>2. CASE ~(reader.timer > 0)
    <3>1. reader' = reader
      BY <1>2
    <3>2. ~(reader'.timer > 0) /\ reader'.timer \in 0..Reading
      BY <2>2, <3>1 DEF ReaderServed
    <3> QED BY <1>1, <3>2 DEF ReaderServed
  <2> QED BY <2>1, <2>2
<1>3. ASSUME NEW s \in Slots, Resolve(s) PROVE ReaderServed'
  <2>1. entry[s] \in Objects /\ row[entry[s]].state = "current"
    BY <1>3 DEF Resolve, IInv, Shape, EntriesCurrent
  <2>2. entry[s] \in stored
    BY <2>1 DEF IInv, ContentStored
  <2>3. reader' = [obj |-> entry[s], timer |-> Reading] /\ UNCHANGED <<row, stored>>
    BY <1>3 DEF Resolve
  <2>4. Kept(entry[s], Reading, stored', row')
    BY <2>1, <2>2, <2>3 DEF Kept
  <2>5. reader'.obj = entry[s] /\ reader'.timer = Reading /\ Reading \in 0..Reading
    BY <2>3, ObjectsAssumption
  <2> QED BY <2>4, <2>5 DEF ReaderServed
<1>4. (\E s \in Readable : Resolve(s)) \/ UNCHANGED reader
  <2>1. ASSUME NEW t \in Tokens, Claim(t) \/ CleanerStep(t) \/ Fail(t) \/ Crash(t) PROVE UNCHANGED reader
    BY <2>1 DEF CleanerStep, Claim, Remove, Complete, Release, End, Fail, Crash
  <2>2. ASSUME NEW o \in Objects, (\E k \in Keys : Begin(o, k)) \/ RequestStep(o) \/ Lose(o) PROVE UNCHANGED reader
    BY <2>2 DEF Begin, RequestStep, Lose, Reserve, Write, Ready, Apply, Mark
  <2>3. ASSUME NEW k \in Keys, (\E s \in Slots : DeleteFile(k, s)) \/ DeleteSubtree(k) \/ DeleteExpired(k) PROVE UNCHANGED reader
    BY <2>3 DEF DeleteFile, DeleteSubtree, DeleteExpired
  <2>4. Seal => UNCHANGED reader
    BY DEF Seal
  <2> QED BY <2>1, <2>2, <2>3, <2>4 DEF Next, Tick, Overrun
<1> QED BY <1>1, <1>2, <1>3, <1>4, ObjectsAssumption

\* A reader that looked a file up finds the content it was given, whatever is
\* replaced, deleted and purged meanwhile, if no reader takes longer between
\* the lookup and the opening than the reclaim window (a day in
\* server/model, against the duration of one HTTP request): a retired
\* object waits the whole window, and no execution of the purge holds one
\* that still waits.
THEOREM ReadersFindContent == ASSUME Reading <= Window PROVE Spec => []ReadFindsContent
<1> DEFINE Served == IInv /\ LeftDue /\ ReaderServed
<1>1. Init => Served
  <2>1. Init => LeftDue /\ ReaderServed
    BY ObjectsAssumption, SMTT(30), SMTT(20) DEF Init, LeftDue, ReaderServed, NoReader, Idle
  <2> QED BY <2>1, InitInv
<1>2. Served /\ [Next]_vars => Served'
  <2> SUFFICES ASSUME Served, [Next]_vars PROVE Served'
    OBVIOUS
  <2>1. CASE Next /\ Elapse
    BY <2>1, ElapseServes, NextInv
  <2>2. CASE Next /\ ~Elapse
    BY <2>2, StepServes, NextInv
  <2>3. CASE UNCHANGED vars
    <3>1. LeftDue' /\ ReaderServed'
      BY <2>3 DEF vars, LeftDue, ReaderServed, Kept
    <3> QED BY <2>3, <3>1, NextInv
  <2> QED BY <2>1, <2>2, <2>3
<1>3. Served => ReadFindsContent
  BY DEF ReaderServed, Kept, ReadFindsContent
<1> HIDE DEF Served
<1> QED BY <1>1, <1>2, <1>3, PTL DEF Spec
=============================================================================
