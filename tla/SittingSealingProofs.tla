------------------------ MODULE SittingSealingProofs ------------------------
(***************************************************************************)
(* The reservation, the checkpoint and the cursor of a sealing Job, for    *)
(* any number of workers, Attempts and continuations, any budget, page     *)
(* size and number of attempts, and any number of lost runs.               *)
(*                                                                         *)
(* A row of the Job changes only under the run that owns it, so what that  *)
(* run has in memory is what the row holds; a run that lost its Job keeps  *)
(* a page and a cursor that stay true because a sealed Attempt stays       *)
(* sealed.                                                                 *)
(***************************************************************************)
EXTENDS SittingSealing, FiniteSetTheorems, TLAPS

\* A leaf that names no prover is tried with Zenon, then with SMT. SMT is listed
\* twice, here and at the leaves that need it: tlapm gives up on an encoding after
\* five seconds, and a second try starts afresh.
USE ZenonT(10), SMTT(30), SMTT(20), ZenonT(30)

RunRow == [job : Nat, number : Nat, pc : PCs, after : Nat, processed : Nat,
           left : Int, page : SUBSET Attempts, full : BOOLEAN]

Types ==
  /\ entries \in [Chain -> Queue!Entry]
  /\ sealed \in SUBSET Attempts
  /\ reserved \in [Chain -> Nat]
  /\ saved \in [Chain -> Nat \X Nat]
  /\ run \in [Workers -> RunRow]
  /\ \A j \in Chain : entries[j].state = "absent" => entries[j].runs = 0

\* Two runs never have the same claim token.
Tokens ==
  \A v, w \in Workers :
     (/\ run[v].pc # "idle" /\ run[w].pc # "idle"
      /\ run[v].job = run[w].job /\ run[v].number = run[w].number) => v = w

\* Run r owns its Job, in the entries E.
OwnedIn(r, E) == E[r.job].state = "held" /\ E[r.job].runs = r.number

\* What the row of the Job shows as reserved to the run that owns it.
Expected(r) ==
  CASE r.pc = "check" -> Budget - r.left
    [] r.pc \in {"seal", "checkpoint"} -> r.processed + 1
    [] OTHER -> r.processed

\* The page leaves out only Attempts that are sealed (they are in S) or come
\* after it, and its first is sealed when it is to be checkpointed.
PageStands(r, S) ==
  /\ \A p \in r.page, a \in Attempts : a < p /\ a \notin r.page => a \in S
  /\ r.pc = "checkpoint" => First(r.page, 1) \subseteq S

\* What a run has in memory agrees with the entries E, the sealed Attempts S,
\* the reservations R and the checkpoints V.
Agrees(r, E, S, R, V) ==
  r.pc # "idle" =>
    /\ r.job \in Chain /\ r.number <= E[r.job].runs
    /\ r.pc # "invalid"
    /\ r.pc = "check" => Budget - r.left - r.processed \in {0, 1}
    /\ OwnedIn(r, E) => /\ V[r.job] = <<r.after, r.processed>>
                        /\ R[r.job] = Expected(r)
    /\ \A a \in Attempts : a <= r.after => a \in S
    /\ r.pc \in {"next", "seal", "checkpoint"} => PageStands(r, S)

IInv ==
  /\ Types
  /\ Tokens
  /\ ReservationAgrees
  /\ CursorBehindSealed
  /\ \A w \in Workers : Agrees(run[w], entries, sealed, reserved, saved)

----------------------------------------------------------------------------
(* Rows of a run *)

Moved(r, pc) == [r EXCEPT !.pc = pc]
Burnt(r, after) == [r EXCEPT !.after = after, !.processed = r.processed + 1, !.pc = "list"]
Paged(r, page, full) == [r EXCEPT !.page = page, !.full = full, !.pc = "next"]
Advanced(r, a, pc) ==
  [r EXCEPT !.after = a, !.processed = r.processed + 1, !.left = r.left - 1,
            !.page = r.page \ {a}, !.pc = pc]

\* A step inside the run moves its program counter alone.
LEMMA MovedFacts ==
  ASSUME NEW r \in RunRow, NEW pc \in PCs
  PROVE  LET u == Moved(r, pc) IN
         /\ u \in RunRow /\ u.pc = pc /\ u.job = r.job /\ u.number = r.number
         /\ u.after = r.after /\ u.processed = r.processed /\ u.left = r.left
         /\ u.page = r.page
  BY DEF Moved, RunRow

\* Burning a unit counts it and keeps the cursor it is given.
LEMMA BurntFacts ==
  ASSUME NEW r \in RunRow, NEW after \in Nat
  PROVE  LET u == Burnt(r, after) IN
         /\ u \in RunRow /\ u.pc = "list" /\ u.job = r.job /\ u.number = r.number
         /\ u.after = after /\ u.processed = r.processed + 1
<1>1. r.processed + 1 \in Nat /\ "list" \in PCs
  BY SMTT(30), SMTT(20) DEF RunRow, PCs
<1> DEFINE k == r.processed + 1
<1> HIDE DEF k
<1>2. k \in Nat /\ "list" \in PCs
  BY <1>1 DEF k
<1>3. [r EXCEPT !.after = after, !.processed = k, !.pc = "list"] = Burnt(r, after)
  BY DEF Burnt, k
<1>4. LET u == [r EXCEPT !.after = after, !.processed = k, !.pc = "list"] IN
         /\ u \in RunRow /\ u.pc = "list" /\ u.job = r.job /\ u.number = r.number
         /\ u.after = after /\ u.processed = k
  BY <1>2 DEF RunRow
<1>5. QED
  BY <1>3, <1>4 DEF k

\* A listed page replaces the old one.
LEMMA PagedFacts ==
  ASSUME NEW r \in RunRow, NEW page \in SUBSET Attempts, NEW full \in BOOLEAN
  PROVE  LET u == Paged(r, page, full) IN
         /\ u \in RunRow /\ u.pc = "next" /\ u.job = r.job /\ u.number = r.number
         /\ u.after = r.after /\ u.processed = r.processed /\ u.page = page
<1>1. "next" \in PCs
  BY DEF PCs
<1>2. QED
  BY <1>1 DEF Paged, RunRow

\* A checkpoint counts a unit and takes its Attempt off the page.
LEMMA AdvancedFacts ==
  ASSUME NEW r \in RunRow, NEW a \in Nat, NEW pc \in PCs
  PROVE  /\ Advanced(r, a, pc) \in RunRow /\ Advanced(r, a, pc).pc = pc
         /\ Advanced(r, a, pc).job = r.job /\ Advanced(r, a, pc).number = r.number
         /\ Advanced(r, a, pc).after = a
         /\ Advanced(r, a, pc).processed = r.processed + 1
         /\ Advanced(r, a, pc).page = r.page \ {a}
<1> DEFINE k == r.processed + 1
           l == r.left - 1
           rest == r.page \ {a}
<1>1. k \in Nat /\ l \in Int /\ rest \in SUBSET Attempts
  BY SMTT(30), SMTT(20) DEF RunRow
<1>2. Advanced(r, a, pc) =
        [r EXCEPT !.after = a, !.processed = k, !.left = l, !.page = rest, !.pc = pc]
  BY DEF Advanced
<1> HIDE DEF k, l, rest
<1>3. LET u == [r EXCEPT !.after = a, !.processed = k, !.left = l, !.page = rest, !.pc = pc] IN
         /\ u \in RunRow /\ u.pc = pc /\ u.job = r.job /\ u.number = r.number
         /\ u.after = a /\ u.processed = k /\ u.page = rest
  BY <1>1 DEF RunRow
<1>4. QED
  BY <1>2, <1>3 DEF k, rest

\* An idle worker has the empty run.
LEMMA NoRunFacts == NoRun \in RunRow /\ NoRun.pc = "idle"
  BY SittingSealingAssumption DEF NoRun, RunRow, PCs

----------------------------------------------------------------------------
(* Pages *)

\* The first member of a set of Attempts is its least.
LEMMA FirstIsLeast ==
  ASSUME NEW S \in SUBSET Attempts, NEW a \in First(S, 1)
  PROVE  a \in S /\ \A b \in S : ~(b < a)
<1> DEFINE T == {b \in S : b < a}
<1>1. a \in S /\ Cardinality(T) < 1
  BY DEF First
<1>2. IsFiniteSet(T)
  <2>1. T \in SUBSET Attempts
    OBVIOUS
  <2>2. QED
    BY <2>1, FS_Subset, SittingSealingAssumption
<1> HIDE DEF T
<1>3. Cardinality(T) = 0
  BY <1>1, <1>2, FS_CardinalityType
<1>4. T = {}
  BY <1>2, <1>3, FS_EmptySet
<1>5. QED
  BY <1>1, <1>4 DEF T

\* The first n members of a set leave out only members after them.
LEMMA FirstIsInitial ==
  ASSUME NEW S \in SUBSET Attempts, NEW n \in Nat, NEW a \in First(S, n),
         NEW b \in S, b < a
  PROVE  b \in First(S, n)
<1> DEFINE T == {c \in S : c < a}
           U == {c \in S : c < b}
<1>1. a \in S /\ Cardinality(T) < n /\ S \subseteq Nat
  BY SittingSealingAssumption DEF First
<1>2. U \in SUBSET T /\ T \in SUBSET Attempts
  <2>1. a \in Nat /\ b \in Nat /\ \A c \in S : c \in Nat
    BY <1>1
  <2>2. \A c \in S : c < b => c < a
    BY <2>1
  <2>3. QED
    BY <2>2
<1> HIDE DEF T, U
<1>3. IsFiniteSet(T)
  BY <1>2, FS_Subset, SittingSealingAssumption
<1>4. Cardinality(U) <= Cardinality(T) /\ IsFiniteSet(U)
  BY <1>2, <1>3, FS_Subset
<1>5. Cardinality(U) \in Nat /\ Cardinality(T) \in Nat
  BY <1>3, <1>4, FS_CardinalityType
<1>6. Cardinality(U) < n
  BY <1>1, <1>4, <1>5
<1>7. QED
  BY <1>6 DEF U, First

----------------------------------------------------------------------------
(* A step changes the run of one worker and, of the Job's row, no more     *)
(* than that run may.                                                      *)

\* What a step of worker w does to the row of Job j.
Touches(w, j) ==
  \/ entries'[j] = entries[j] /\ reserved'[j] = reserved[j] /\ saved'[j] = saved[j]
  \/ /\ entries'[j].state # "held" /\ entries'[j].runs = entries[j].runs
     /\ reserved'[j] = reserved[j] /\ saved'[j] = saved[j]
  \/ /\ entries'[j].runs = entries[j].runs + 1
     /\ reserved'[j] = reserved[j] /\ saved'[j] = saved[j]
  \/ /\ entries'[j] = entries[j]
     /\ run[w].pc # "idle" /\ run[w].job = j /\ Owns(w)

\* The claim token of row r is the one the run had, or a new one.
Tokened(w, r) ==
  r.pc # "idle" =>
    \/ run[w].pc # "idle" /\ r.job = run[w].job /\ r.number = run[w].number
    \/ r.job \in Chain /\ r.number = entries[r.job].runs + 1

\* A run that did not take the step agrees with the tables as before.
LEMMA OthersAgree ==
  ASSUME IInv, NEW w \in Workers, NEW v \in Workers, v # w,
         entries' \in [Chain -> Queue!Entry],
         sealed \subseteq sealed',
         \A j \in Chain : Touches(w, j)
  PROVE  Agrees(run[v], entries', sealed', reserved', saved')
<1> DEFINE r == run[v]
<1>1. CASE r.pc = "idle"
  BY <1>1 DEF Agrees
<1>2. CASE r.pc # "idle"
  <2>1. Agrees(r, entries, sealed, reserved, saved) /\ r \in RunRow
    BY DEF IInv, Types
  <2>2. r.job \in Chain /\ r.number <= entries[r.job].runs /\ r.number \in Nat
    BY <1>2, <2>1 DEF Agrees, RunRow
  <2>3. entries[r.job].runs \in Nat /\ entries'[r.job].runs \in Nat
    BY <2>2 DEF IInv, Types, Queue!Entry
  <2>4. ~(run[w].pc # "idle" /\ run[w].job = r.job /\ Owns(w) /\ OwnedIn(r, entries))
    BY <1>2 DEF IInv, Tokens, Owns, OwnedIn
  <2>5. Touches(w, r.job)
    BY <2>2
  <2>6. r.number <= entries'[r.job].runs
    BY <2>2, <2>3, <2>5, SMTT(30), SMTT(20) DEF Touches
  <2>7. OwnedIn(r, entries') => /\ OwnedIn(r, entries)
                                /\ saved'[r.job] = saved[r.job]
                                /\ reserved'[r.job] = reserved[r.job]
    BY <2>2, <2>3, <2>4, <2>5, SMTT(30), SMTT(20) DEF Touches, OwnedIn
  <2> HIDE DEF r
  <2>8. PageStands(r, sealed) => PageStands(r, sealed')
    BY DEF PageStands
  <2>9. Agrees(r, entries', sealed', reserved', saved')
    BY <1>2, <2>1, <2>6, <2>7, <2>8 DEF Agrees
  <2>10. QED
    BY <2>9 DEF r
<1>3. QED
  BY <1>1, <1>2

\* A step keeps the invariant when it touches no row it does not own and its
\* own run agrees with what it leaves behind.
LEMMA RunStep ==
  ASSUME IInv, NEW w \in Workers, NEW r \in RunRow,
         run' = [run EXCEPT ![w] = r],
         entries' \in [Chain -> Queue!Entry],
         \A j \in Chain : entries'[j].state = "absent" => entries'[j].runs = 0,
         sealed' \in SUBSET Attempts, sealed \subseteq sealed',
         reserved' \in [Chain -> Nat], saved' \in [Chain -> Nat \X Nat],
         \A j \in Chain : Touches(w, j),
         Tokened(w, r),
         Agrees(r, entries', sealed', reserved', saved'),
         ReservationAgrees', CursorBehindSealed'
  PROVE  IInv'
<1>1. run \in [Workers -> RunRow]
  BY DEF IInv, Types
<1>2. run' \in [Workers -> RunRow] /\ run'[w] = r /\ \A v \in Workers \ {w} : run'[v] = run[v]
  BY <1>1
<1>3. Types'
  BY <1>2 DEF Types
<1>4. \A v \in Workers : Agrees(run'[v], entries', sealed', reserved', saved')
  BY <1>2, OthersAgree
<1>5. Tokens'
  <2>1. ASSUME NEW v \in Workers, v # w, run[v].pc # "idle", r.pc # "idle", run[v].job = r.job,
               run[v].number = r.number
        PROVE  FALSE
    <3>1. Agrees(run[v], entries, sealed, reserved, saved) /\ run[v] \in RunRow
      BY <1>1 DEF IInv
    <3>2. run[v].job \in Chain /\ run[v].number <= entries[run[v].job].runs /\ run[v].number \in Nat
      BY <2>1, <3>1 DEF Agrees, RunRow
    <3>3. entries[run[v].job].runs \in Nat
      BY <3>2 DEF IInv, Types, Queue!Entry
    <3>4. CASE run[w].pc # "idle" /\ r.job = run[w].job /\ r.number = run[w].number
      BY <2>1, <3>4 DEF IInv, Tokens
    <3>5. CASE r.number = entries[r.job].runs + 1
      BY <2>1, <3>2, <3>3, <3>5
    <3>6. QED
      BY <2>1, <3>4, <3>5 DEF Tokened
  <2>2. QED
    BY <1>2, <2>1 DEF IInv, Tokens
<1>6. QED
  BY <1>3, <1>4, <1>5 DEF IInv

\* A step that changes nothing but its own run.
LEMMA QuietStep ==
  ASSUME IInv, NEW w \in Workers, NEW u \in RunRow,
         run' = [run EXCEPT ![w] = u],
         UNCHANGED <<entries, sealed, reserved, saved>>,
         Tokened(w, u),
         Agrees(u, entries, sealed, reserved, saved)
  PROVE  IInv'
<1>1. \A j \in Chain : Touches(w, j)
  BY DEF Touches
<1>2. ReservationAgrees' /\ CursorBehindSealed'
  BY DEF IInv, ReservationAgrees, CursorBehindSealed
<1>3. Agrees(u, entries', sealed', reserved', saved')
  OBVIOUS
<1>4. Types
  BY DEF IInv
<1>5. QED
  BY <1>1, <1>2, <1>3, <1>4, RunStep DEF Types

\* A step after which Job j is not held, its run number the same.
LEMMA DropStep ==
  ASSUME IInv, NEW w \in Workers, NEW u \in RunRow,
         run' = [run EXCEPT ![w] = u],
         NEW j \in Chain, NEW e \in Queue!Entry,
         e.state \notin {"held", "absent"}, e.runs = entries[j].runs,
         entries' = [entries EXCEPT ![j] = e],
         UNCHANGED <<sealed, reserved, saved>>,
         Tokened(w, u),
         Agrees(u, entries, sealed, reserved, saved)
  PROVE  IInv'
<1>1. Types
  BY DEF IInv
<1>2. /\ entries' \in [Chain -> Queue!Entry]
      /\ \A i \in Chain : entries'[i] = IF i = j THEN e ELSE entries[i]
  BY <1>1 DEF Types
<1>3. \A i \in Chain : Touches(w, i)
  BY <1>2 DEF Touches
<1>4. ReservationAgrees' /\ CursorBehindSealed'
  BY DEF IInv, ReservationAgrees, CursorBehindSealed
<1>5. \A i \in Chain : entries'[i].state = "absent" => entries'[i].runs = 0
  BY <1>1, <1>2 DEF Types
<1>6. Agrees(u, entries', sealed', reserved', saved')
  <2>1. u.pc # "idle" => /\ entries'[u.job].runs = entries[u.job].runs
                         /\ OwnedIn(u, entries') => OwnedIn(u, entries)
    BY <1>2 DEF Agrees, OwnedIn
  <2>2. QED
    BY <2>1 DEF Agrees
<1>7. QED
  BY <1>1, <1>2, <1>3, <1>4, <1>5, <1>6, RunStep DEF Types

\* Returning or settling a Job leaves it unheld under its run number.
LEMMA SetStateFacts ==
  ASSUME IInv, NEW j \in Chain, NEW st \in {"waiting", "succeeded", "failed", "canceled"},
         Queue!SetState(j, st)
  PROVE  \E e \in Queue!Entry : /\ e.state = st /\ e.runs = entries[j].runs
                                /\ entries' = [entries EXCEPT ![j] = e]
<1> DEFINE e == [entries[j] EXCEPT !.state = st]
<1>1. entries[j] \in Queue!Entry
  BY DEF IInv, Types
<1>2. st \in Queue!States
  BY DEF Queue!States, Queue!Pending, Queue!Ended, Queue!Held
<1>3. e \in Queue!Entry /\ e.state = st /\ e.runs = entries[j].runs
  BY <1>1, <1>2 DEF Queue!Entry
<1>4. entries' = [entries EXCEPT ![j] = e]
  BY DEF Queue!SetState
<1>5. QED
  BY <1>3, <1>4

\* A failed run gives the Job back or ends it.
LEMMA FailsFacts ==
  ASSUME IInv, NEW j \in Chain, Fails(j)
  PROVE  \E e \in Queue!Entry : /\ e.state \in {"waiting", "failed"} /\ e.runs = entries[j].runs
                                /\ entries' = [entries EXCEPT ![j] = e]
<1>1. Queue!SetState(j, "waiting") \/ Queue!SetState(j, "failed")
  BY DEF Fails, Queue!Return, Queue!Settle
<1>2. QED
  BY <1>1, SetStateFacts

\* A worker without a run agrees with everything.
LEMMA NoRunAgrees ==
  ASSUME NEW w \in Workers
  PROVE  Agrees(NoRun, entries, sealed, reserved, saved) /\ Tokened(w, NoRun)
  BY NoRunFacts DEF Agrees, Tokened

----------------------------------------------------------------------------
(* The steps of a run *)

\* A run that is under way.
LEMMA RunFacts ==
  ASSUME IInv, NEW w \in Workers, run[w].pc # "idle"
  PROVE  /\ run[w] \in RunRow /\ run[w].job \in Chain
         /\ run[w].after \in Nat /\ run[w].processed \in Nat /\ run[w].left \in Int
         /\ run[w].page \in SUBSET Attempts
         /\ Agrees(run[w], entries, sealed, reserved, saved)
         /\ Owns(w) <=> OwnedIn(run[w], entries)
         /\ reserved[run[w].job] \in Nat /\ saved[run[w].job] \in Nat \X Nat
         /\ entries[run[w].job] \in Queue!Entry
<1>1. run[w] \in RunRow /\ Agrees(run[w], entries, sealed, reserved, saved)
  BY DEF IInv, Types
<1>2. run[w].job \in Chain
  BY <1>1 DEF Agrees
<1>3. QED
  BY <1>1, <1>2 DEF IInv, Types, RunRow, Owns, OwnedIn

\* Moving on inside a run keeps its token.
LEMMA MoveStep ==
  ASSUME IInv, NEW w \in Workers, run[w].pc # "idle", NEW pc \in PCs, Goto(w, pc),
         UNCHANGED <<entries, sealed, reserved, saved>>,
         pc \notin {"idle", "invalid", "check", "next", "seal", "checkpoint"},
         OwnedIn(run[w], entries) => Expected(run[w]) = run[w].processed
  PROVE  IInv'
<1> DEFINE r == run[w]
           u == Moved(r, pc)
<1>1. r \in RunRow /\ Agrees(r, entries, sealed, reserved, saved) /\ r.pc # "idle"
  BY RunFacts
<1>2. /\ u \in RunRow /\ u.pc = pc /\ u.job = r.job /\ u.number = r.number
      /\ u.after = r.after /\ u.processed = r.processed
  BY <1>1, MovedFacts
<1>3. run' = [run EXCEPT ![w] = u]
  BY DEF Goto, Moved
<1> HIDE DEF u
<1>4. Tokened(w, u)
  BY <1>1, <1>2 DEF Tokened
<1>5. Agrees(u, entries, sealed, reserved, saved)
  <2>1. OwnedIn(u, entries) <=> OwnedIn(r, entries)
    BY <1>2 DEF OwnedIn
  <2>2. Expected(u) = u.processed
    BY <1>2 DEF Expected
  <2> HIDE DEF r
  <2>3. OwnedIn(r, entries) => Expected(r) = r.processed
    BY DEF r
  <2>4. QED
    BY <1>1, <1>2, <2>1, <2>2, <2>3 DEF Agrees
<1>6. QED
  BY <1>2, <1>3, <1>4, <1>5, QuietStep

\* Ending a run leaves the worker idle.
LEMMA EndStep ==
  ASSUME IInv, NEW w \in Workers, run' = [run EXCEPT ![w] = NoRun],
         UNCHANGED <<sealed, reserved, saved>>,
         \/ entries' = entries
         \/ \E j \in Chain, e \in Queue!Entry :
              /\ e.state \notin {"held", "absent"} /\ e.runs = entries[j].runs
              /\ entries' = [entries EXCEPT ![j] = e]
  PROVE  IInv'
<1>1. NoRun \in RunRow /\ Agrees(NoRun, entries, sealed, reserved, saved) /\ Tokened(w, NoRun)
  BY NoRunFacts, NoRunAgrees
<1>2. CASE entries' = entries
  BY <1>1, <1>2, QuietStep
<1>3. CASE \E j \in Chain, e \in Queue!Entry :
             /\ e.state \notin {"held", "absent"} /\ e.runs = entries[j].runs
             /\ entries' = [entries EXCEPT ![j] = e]
  BY <1>1, <1>3, DropStep
<1>4. QED
  BY <1>2, <1>3

\* A claim reads the row, with a new token.
LEMMA ClaimKeeps ==
  ASSUME IInv, NEW w \in Workers, NEW j \in Chain, Claim(w, j) PROVE IInv'
<1> DEFINE n == entries[j].runs + 1
           l == Budget - reserved[j]
           u == [NoRun EXCEPT !.job = j, !.number = n, !.pc = "check", !.after = saved[j][1],
                              !.processed = saved[j][2], !.left = l]
           e == Queue!Run(entries[j])
<1>1. Types
  BY DEF IInv
<1>2. /\ entries[j] \in Queue!Entry /\ entries[j].runs \in Nat /\ n \in Nat
      /\ saved[j] \in Nat \X Nat /\ saved[j][1] \in Nat /\ saved[j][2] \in Nat
      /\ reserved[j] \in Nat /\ l \in Int /\ Budget - l = reserved[j] /\ j \in Nat
  BY <1>1, SittingSealingAssumption, SMTT(30), SMTT(20) DEF Types, Queue!Entry
<1>3. /\ e \in Queue!Entry /\ e.state = "held" /\ e.runs = n
  BY <1>2 DEF Queue!Run, Queue!Entry, Queue!States, Queue!Pending, Queue!Held
<1>4. /\ u \in RunRow /\ u.pc = "check" /\ u.job = j /\ u.number = n /\ u.left = l
      /\ u.after = saved[j][1] /\ u.processed = saved[j][2]
  <2>1. "check" \in PCs
    BY DEF PCs
  <2> HIDE DEF n, l
  <2>2. QED
    BY <1>2, <2>1, NoRunFacts DEF RunRow, NoRun
<1>5. /\ run' = [run EXCEPT ![w] = u] /\ entries' = [entries EXCEPT ![j] = e]
      /\ UNCHANGED <<sealed, reserved, saved>>
  BY DEF Claim, Queue!Take
<1> HIDE DEF u, e
<1>6. /\ entries' \in [Chain -> Queue!Entry]
      /\ \A i \in Chain : entries'[i] = IF i = j THEN e ELSE entries[i]
  BY <1>1, <1>3, <1>5 DEF Types
<1>7. \A i \in Chain : Touches(w, i)
  BY <1>3, <1>5, <1>6 DEF Touches
<1>8. \A i \in Chain : entries'[i].state = "absent" => entries'[i].runs = 0
  BY <1>1, <1>3, <1>6 DEF Types
<1>9. Tokened(w, u)
  BY <1>4 DEF Tokened
<1>10. ReservationAgrees /\ CursorBehindSealed
  BY DEF IInv
<1>11. Agrees(u, entries', sealed', reserved', saved')
  <2>1. u.number <= entries'[u.job].runs
    BY <1>2, <1>3, <1>4, <1>6, SMTT(30), SMTT(20)
  <2>2. Budget - u.left - u.processed \in {0, 1}
    BY <1>2, <1>4, <1>10 DEF ReservationAgrees
  <2>3. saved'[u.job] = <<u.after, u.processed>>
    BY <1>2, <1>4, <1>5
  <2>4. reserved'[u.job] = Expected(u)
    BY <1>2, <1>4, <1>5 DEF Expected
  <2>5. \A a \in Attempts : a <= u.after => a \in sealed'
    BY <1>4, <1>5, <1>10 DEF CursorBehindSealed
  <2>6. QED
    BY <1>4, <2>1, <2>2, <2>3, <2>4, <2>5 DEF Agrees
<1>12. ReservationAgrees' /\ CursorBehindSealed'
  BY <1>5, <1>10 DEF ReservationAgrees, CursorBehindSealed
<1>13. QED
  BY <1>1, <1>4, <1>5, <1>6, <1>7, <1>8, <1>9, <1>11, <1>12, RunStep DEF Types

\* The run goes on from the row it was given, burning the uncertain unit.
LEMMA CheckKeeps ==
  ASSUME IInv, NEW w \in Workers, Check(w) PROVE IInv'
<1> DEFINE r == run[w]
<1>1. /\ r \in RunRow /\ r.job \in Chain /\ r.pc = "check"
      /\ r.after \in Nat /\ r.processed \in Nat /\ r.left \in Int
      /\ Agrees(r, entries, sealed, reserved, saved)
      /\ Owns(w) <=> OwnedIn(r, entries)
  BY RunFacts DEF Check, At
<1>2. Budget - r.left - r.processed \in {0, 1}
  BY <1>1 DEF Agrees
<1>3. Budget - r.left = r.processed \/ Budget - r.left = r.processed + 1
  BY <1>1, <1>2, SittingSealingAssumption
<1>4. CASE Budget - r.left = r.processed
  <2>1. Goto(w, "list") /\ UNCHANGED <<entries, sealed, reserved, saved>>
    BY <1>1, <1>4 DEF Check, Reserved
  <2>2. Expected(r) = r.processed /\ "list" \in PCs
    BY <1>1, <1>4 DEF Expected, PCs
  <2>3. QED
    BY <1>1, <2>1, <2>2, MoveStep
<1>5. CASE Budget - r.left = r.processed + 1
  <2> DEFINE u == Burnt(r, r.after)
  <2>1. Budget - r.left # r.processed
    BY <1>1, <1>5
  <2>2. Burn(w, r.after) /\ UNCHANGED <<entries, sealed, reserved>>
    BY <1>5, <2>1 DEF Check, Reserved
  <2>3. /\ Owns(w) /\ saved' = [saved EXCEPT ![r.job] = <<r.after, r.processed + 1>>]
        /\ run' = [run EXCEPT ![w] = u]
    BY <2>2 DEF Burn, Burnt
  <2>4. /\ u \in RunRow /\ u.pc = "list" /\ u.job = r.job /\ u.number = r.number
        /\ u.after = r.after /\ u.processed = r.processed + 1
    BY <1>1, BurntFacts
  <2>5. /\ saved[r.job] = <<r.after, r.processed>> /\ reserved[r.job] = r.processed + 1
    BY <1>1, <1>5, <2>3 DEF Agrees, Expected
  <2> HIDE DEF u
  <2>6. Types /\ ReservationAgrees /\ CursorBehindSealed
    BY DEF IInv
  <2>7. /\ saved' \in [Chain -> Nat \X Nat]
        /\ \A i \in Chain : saved'[i] = IF i = r.job THEN <<r.after, r.processed + 1>> ELSE saved[i]
    BY <1>1, <2>3, <2>6, SMTT(30), SMTT(20) DEF Types
  <2>8. \A i \in Chain : Touches(w, i)
    BY <1>1, <2>2, <2>3, <2>7 DEF Touches
  <2>9. Tokened(w, u)
    BY <1>1, <2>4 DEF Tokened
  <2>10. Agrees(u, entries', sealed', reserved', saved')
    <3>1. saved'[u.job] = <<u.after, u.processed>>
      BY <1>1, <2>4, <2>7
    <3>2. reserved'[u.job] = Expected(u)
      BY <2>2, <2>4, <2>5 DEF Expected
    <3>3. u.number <= entries'[u.job].runs
      BY <1>1, <2>2, <2>4 DEF Agrees
    <3>4. \A a \in Attempts : a <= u.after => a \in sealed'
      BY <1>1, <2>2, <2>4 DEF Agrees
    <3>5. QED
      BY <1>1, <2>4, <3>1, <3>2, <3>3, <3>4 DEF Agrees
  <2>11. ReservationAgrees'
    <3>1. ASSUME NEW i \in Chain PROVE reserved'[i] - saved'[i][2] \in {0, 1}
      BY <1>1, <2>2, <2>5, <2>6, <2>7, SMTT(30), SMTT(20) DEF ReservationAgrees
    <3>2. QED
      BY <3>1 DEF ReservationAgrees
  <2>12. CursorBehindSealed'
    <3>1. \A i \in Chain : saved'[i][1] = saved[i][1]
      BY <1>1, <2>5, <2>7, SMTT(30), SMTT(20)
    <3>2. QED
      BY <2>2, <2>6, <3>1 DEF CursorBehindSealed
  <2>13. QED
    BY <2>2, <2>3, <2>4, <2>6, <2>7, <2>8, <2>9, <2>10, <2>11, <2>12, RunStep DEF Types
<1>6. QED
  BY <1>3, <1>4, <1>5

\* A page leaves out only what is sealed or comes after it.
LEMMA ListKeeps ==
  ASSUME IInv, NEW w \in Workers, List(w) PROVE IInv'
<1> DEFINE r == run[w]
           limit == IF r.left < PageSize THEN r.left ELSE PageSize
           S == {a \in Attempts \ sealed : a > r.after}
           page == First(S, limit)
           full == Cardinality(page) = limit
           u == Paged(r, page, full)
<1>1. /\ r \in RunRow /\ r.job \in Chain /\ r.pc = "list"
      /\ r.after \in Nat /\ r.processed \in Nat /\ r.left \in Int
      /\ Agrees(r, entries, sealed, reserved, saved)
  BY RunFacts DEF List, At
<1>2. Expected(r) = r.processed
  BY <1>1 DEF Expected
<1>3. UNCHANGED <<entries, sealed, reserved, saved>>
  BY DEF List
<1>4. CASE Goto(w, "finish") \/ Goto(w, "finishShort")
  <2>1. "finish" \in PCs /\ "finishShort" \in PCs
    BY DEF PCs
  <2>2. QED
    BY <1>1, <1>2, <1>3, <1>4, <2>1, MoveStep
<1>5. CASE r.left > 0 /\ run' = [run EXCEPT ![w].page = page, ![w].full = full, ![w].pc = "next"]
  <2>1. limit \in Nat /\ S \in SUBSET Attempts /\ full \in BOOLEAN
    <3>0. r.left > 0 /\ r.left \in Int /\ PageSize \in Nat
      BY <1>1, <1>5, SittingSealingAssumption
    <3>1. limit \in Nat
      <4> HIDE DEF r
      <4>1. QED
        BY <3>0
    <3>2. QED
      BY <3>1
  <2>2. page \in SUBSET Attempts
    BY <2>1 DEF First
  <2>3. run' = [run EXCEPT ![w] = u]
    <3> HIDE DEF page, full
    <3>1. QED
      BY <1>5 DEF Paged
  <2>4. PageStands(u, sealed) /\ u \in RunRow /\ u.pc = "next" /\ u.job = r.job
        /\ u.number = r.number /\ u.after = r.after /\ u.processed = r.processed
    <3>1. /\ u \in RunRow /\ u.pc = "next" /\ u.job = r.job /\ u.page = page
          /\ u.number = r.number /\ u.after = r.after /\ u.processed = r.processed
      <4> HIDE DEF page, full, r
      <4>1. QED
        BY <1>1, <2>1, <2>2, PagedFacts, SMTT(30), SMTT(20)
    <3>2. ASSUME NEW p \in page, NEW a \in Attempts, a < p, a \notin page
          PROVE  a \in sealed
      <4>1. CASE a <= r.after
        BY <1>1, <4>1 DEF Agrees
      <4>2. CASE ~(a <= r.after)
        <5>1. a \in Nat
          BY SittingSealingAssumption
        <5>2. a > r.after
          BY <1>1, <4>2, <5>1
        <5>3. a \in S => a \in page
          <6> HIDE DEF S, limit
          <6>1. QED
            BY <2>1, <3>2, FirstIsInitial
        <5>4. QED
          BY <3>2, <5>2, <5>3
      <4>3. QED
        BY <4>1, <4>2
    <3> HIDE DEF u, page
    <3>3. QED
      BY <3>1, <3>2 DEF PageStands
  <2> HIDE DEF u
  <2>5. Tokened(w, u)
    BY <1>1, <2>4 DEF Tokened
  <2>6. Agrees(u, entries, sealed, reserved, saved)
    <3> HIDE DEF r
    <3>1. OwnedIn(u, entries) <=> OwnedIn(r, entries)
      BY <2>4 DEF OwnedIn
    <3>2. Expected(u) = Expected(r)
      BY <1>2, <2>4 DEF Expected
    <3>3. QED
      BY <1>1, <2>4, <3>1, <3>2 DEF Agrees
  <2>7. QED
    BY <1>3, <2>3, <2>4, <2>5, <2>6, QuietStep
<1>6. QED
  BY <1>4, <1>5 DEF List

\* A reserved unit is one beyond the checkpoint of the run that owns the Job.
LEMMA ReserveKeeps ==
  ASSUME IInv, NEW w \in Workers, Reserve(w) PROVE IInv'
<1> DEFINE r == run[w]
           u == Moved(r, "seal")
<1>1. /\ r \in RunRow /\ r.job \in Chain /\ r.pc = "next"
      /\ r.after \in Nat /\ r.processed \in Nat
      /\ Agrees(r, entries, sealed, reserved, saved) /\ reserved[r.job] \in Nat
      /\ Owns(w) <=> OwnedIn(r, entries)
  BY RunFacts DEF Reserve, At
<1>2. Expected(r) = r.processed
  BY <1>1 DEF Expected
<1>3. UNCHANGED <<entries, sealed, saved>> /\ Owns(w)
  BY DEF Reserve
<1>4. CASE UNCHANGED reserved /\ Goto(w, "finish")
  <2>1. "finish" \in PCs
    BY DEF PCs
  <2>2. QED
    BY <1>1, <1>2, <1>3, <1>4, <2>1, MoveStep
<1>5. CASE reserved' = [reserved EXCEPT ![r.job] = @ + 1] /\ Goto(w, "seal")
  <2>1. /\ u \in RunRow /\ u.pc = "seal" /\ u.job = r.job /\ u.number = r.number
        /\ u.after = r.after /\ u.processed = r.processed /\ u.page = r.page
    <3>1. "seal" \in PCs
      BY DEF PCs
    <3>2. QED
      BY <1>1, <3>1, MovedFacts
  <2>2. run' = [run EXCEPT ![w] = u]
    BY <1>5 DEF Goto, Moved
  <2>3. saved[r.job] = <<r.after, r.processed>> /\ reserved[r.job] = r.processed
    BY <1>1, <1>2, <1>3 DEF Agrees
  <2> HIDE DEF u
  <2>4. Types /\ ReservationAgrees /\ CursorBehindSealed
    BY DEF IInv
  <2>5. /\ reserved' \in [Chain -> Nat]
        /\ \A i \in Chain : reserved'[i] = IF i = r.job THEN r.processed + 1 ELSE reserved[i]
    BY <1>1, <1>5, <2>3, <2>4, SMTT(30), SMTT(20) DEF Types
  <2>6. \A i \in Chain : Touches(w, i)
    BY <1>1, <1>3, <2>5 DEF Touches
  <2>7. Tokened(w, u)
    BY <1>1, <2>1 DEF Tokened
  <2>8. Agrees(u, entries', sealed', reserved', saved')
    <3>1. saved'[u.job] = <<u.after, u.processed>> /\ reserved'[u.job] = Expected(u)
      BY <1>1, <1>3, <2>1, <2>3, <2>5 DEF Expected
    <3>2. PageStands(u, sealed')
      BY <1>1, <1>3, <2>1 DEF Agrees, PageStands
    <3>3. u.number <= entries'[u.job].runs /\ \A a \in Attempts : a <= u.after => a \in sealed'
      BY <1>1, <1>3, <2>1 DEF Agrees
    <3>4. QED
      BY <1>1, <2>1, <3>1, <3>2, <3>3 DEF Agrees
  <2>9. ReservationAgrees'
    <3>1. ASSUME NEW i \in Chain PROVE reserved'[i] - saved'[i][2] \in {0, 1}
      BY <1>1, <1>3, <2>3, <2>4, <2>5, SMTT(30), SMTT(20) DEF ReservationAgrees
    <3>2. QED
      BY <3>1 DEF ReservationAgrees
  <2>10. CursorBehindSealed'
    BY <1>3, <2>4 DEF CursorBehindSealed
  <2>11. QED
    BY <1>3, <2>1, <2>2, <2>4, <2>5, <2>6, <2>7, <2>8, <2>9, <2>10, RunStep DEF Types
<1>6. QED
  BY <1>4, <1>5 DEF Reserve

\* Sealing only adds to what is sealed, also when the run lost its Job.
LEMMA SealKeeps ==
  ASSUME IInv, NEW w \in Workers, Seal(w) PROVE IInv'
<1> DEFINE r == run[w]
           u == Moved(r, "checkpoint")
<1>1. /\ r \in RunRow /\ r.job \in Chain /\ r.pc = "seal"
      /\ r.after \in Nat /\ r.processed \in Nat /\ r.page \in SUBSET Attempts
      /\ Agrees(r, entries, sealed, reserved, saved)
  BY RunFacts DEF Seal, At
<1>2. /\ sealed' = sealed \cup First(r.page, 1) /\ run' = [run EXCEPT ![w] = u]
      /\ UNCHANGED <<entries, reserved, saved>>
  BY DEF Seal, Goto, Moved
<1>3. /\ u \in RunRow /\ u.pc = "checkpoint" /\ u.job = r.job /\ u.number = r.number
      /\ u.after = r.after /\ u.processed = r.processed /\ u.page = r.page
  <2>1. "checkpoint" \in PCs
    BY DEF PCs
  <2>2. QED
    BY <1>1, <2>1, MovedFacts
<1> HIDE DEF u
<1>4. Types /\ ReservationAgrees /\ CursorBehindSealed
  BY DEF IInv
<1>5. sealed' \in SUBSET Attempts /\ sealed \subseteq sealed'
  <2>1. First(r.page, 1) \in SUBSET Attempts
    BY <1>1 DEF First
  <2>2. QED
    BY <1>2, <1>4, <2>1 DEF Types
<1>6. \A i \in Chain : Touches(w, i)
  BY <1>2 DEF Touches
<1>7. Tokened(w, u)
  BY <1>1, <1>3 DEF Tokened
<1>8. Agrees(u, entries', sealed', reserved', saved')
  <2> HIDE DEF r
  <2>1. OwnedIn(u, entries) <=> OwnedIn(r, entries)
    BY <1>3 DEF OwnedIn
  <2>2. Expected(u) = Expected(r)
    BY <1>1, <1>3 DEF Expected
  <2>3. PageStands(r, sealed)
    BY <1>1 DEF Agrees
  <2>4. PageStands(u, sealed')
    BY <1>2, <1>3, <1>5, <2>3 DEF PageStands
  <2>5. QED
    BY <1>1, <1>2, <1>3, <1>5, <2>1, <2>2, <2>4 DEF Agrees
<1>9. ReservationAgrees' /\ CursorBehindSealed'
  BY <1>2, <1>4, <1>5 DEF ReservationAgrees, CursorBehindSealed
<1>10. QED
  BY <1>2, <1>3, <1>4, <1>5, <1>6, <1>7, <1>8, <1>9, RunStep DEF Types

\* A checkpoint moves the cursor to an Attempt behind which all are sealed.
LEMMA CheckpointKeeps ==
  ASSUME IInv, NEW w \in Workers, Checkpoint(w) PROVE IInv'
<1> DEFINE r == run[w]
<1>1. /\ r \in RunRow /\ r.job \in Chain /\ r.pc = "checkpoint"
      /\ r.after \in Nat /\ r.processed \in Nat /\ r.page \in SUBSET Attempts
      /\ Agrees(r, entries, sealed, reserved, saved)
      /\ Owns(w) <=> OwnedIn(r, entries)
  BY RunFacts DEF Checkpoint, At
<1>2. PICK a \in First(r.page, 1), pc \in {"next", "list", "finishShort"} :
         /\ saved' = [saved EXCEPT ![r.job] = <<a, r.processed + 1>>]
         /\ run' = [run EXCEPT ![w].after = a, ![w].processed = @ + 1, ![w].left = @ - 1,
                               ![w].page = r.page \ {a}, ![w].pc = pc]
  BY DEF Checkpoint
<1>3. UNCHANGED <<entries, sealed, reserved>> /\ Owns(w)
  BY DEF Checkpoint
<1> DEFINE u == Advanced(r, a, pc)
<1>4. a \in r.page /\ (\A b \in r.page : ~(b < a)) /\ a \in Attempts /\ a \in Nat
  BY <1>1, FirstIsLeast, SittingSealingAssumption
<1>5. run' = [run EXCEPT ![w] = u]
  BY <1>2 DEF Advanced
<1>6. /\ u \in RunRow /\ u.pc = pc /\ u.job = r.job /\ u.number = r.number
      /\ u.after = a /\ u.processed = r.processed + 1 /\ u.page = r.page \ {a}
  <2>1. pc \in PCs
    BY DEF PCs
  <2>2. r \in RunRow /\ a \in Nat
    BY <1>1, <1>4
  <2>3. \A q \in RunRow, b \in Nat, p \in PCs :
           /\ Advanced(q, b, p) \in RunRow /\ Advanced(q, b, p).pc = p
           /\ Advanced(q, b, p).job = q.job /\ Advanced(q, b, p).number = q.number
           /\ Advanced(q, b, p).after = b
           /\ Advanced(q, b, p).processed = q.processed + 1
           /\ Advanced(q, b, p).page = q.page \ {b}
    BY AdvancedFacts
  <2> HIDE DEF r
  <2>4. QED
    BY <2>1, <2>2, <2>3, SMTT(30), SMTT(20)
<1> HIDE DEF u
<1>7. saved[r.job] = <<r.after, r.processed>> /\ reserved[r.job] = r.processed + 1
  BY <1>1, <1>3 DEF Agrees, Expected
<1>8. PageStands(r, sealed) /\ a \in sealed
  BY <1>1 DEF Agrees, PageStands
<1>9. \A x \in Attempts : x <= a => x \in sealed
  <2>1. ASSUME NEW x \in Attempts, x <= a PROVE x \in sealed
    <3>1. x = a \/ x < a
      BY <1>4, <2>1, SittingSealingAssumption
    <3>2. x < a => x \notin r.page
      BY <1>4
    <3>3. QED
      BY <1>4, <1>8, <3>1, <3>2 DEF PageStands
  <2>2. QED
    BY <2>1
<1>10. Types /\ ReservationAgrees /\ CursorBehindSealed
  BY DEF IInv
<1>11. /\ saved' \in [Chain -> Nat \X Nat]
       /\ \A i \in Chain : saved'[i] = IF i = r.job THEN <<a, r.processed + 1>> ELSE saved[i]
  BY <1>1, <1>2, <1>4, <1>10, SMTT(30), SMTT(20) DEF Types
<1>12. \A i \in Chain : Touches(w, i)
  BY <1>1, <1>3, <1>11 DEF Touches
<1>13. Tokened(w, u)
  BY <1>1, <1>6 DEF Tokened
<1>14. Agrees(u, entries', sealed', reserved', saved')
  <2>1. saved'[u.job] = <<u.after, u.processed>>
    BY <1>1, <1>6, <1>11
  <2>2. reserved'[u.job] = Expected(u)
    BY <1>3, <1>6, <1>7 DEF Expected
  <2>3. PageStands(u, sealed')
    BY <1>3, <1>6, <1>8 DEF PageStands
  <2>4. u.number <= entries'[u.job].runs
    BY <1>1, <1>3, <1>6 DEF Agrees
  <2>5. QED
    BY <1>1, <1>3, <1>6, <1>9, <2>1, <2>2, <2>3, <2>4 DEF Agrees
<1>15. ReservationAgrees'
  <2>1. ASSUME NEW i \in Chain PROVE reserved'[i] - saved'[i][2] \in {0, 1}
    BY <1>1, <1>3, <1>7, <1>10, <1>11, SMTT(30), SMTT(20) DEF ReservationAgrees
  <2>2. QED
    BY <2>1 DEF ReservationAgrees
<1>16. CursorBehindSealed'
  <2>1. ASSUME NEW i \in Chain, NEW x \in Attempts, x <= saved'[i][1] PROVE x \in sealed'
    <3>1. CASE i = r.job
      BY <1>3, <1>9, <1>11, <2>1, <3>1, SMTT(30), SMTT(20)
    <3>2. CASE i # r.job
      BY <1>3, <1>10, <1>11, <2>1, <3>2 DEF CursorBehindSealed
    <3>3. QED
      BY <3>1, <3>2
  <2>2. QED
    BY <2>1 DEF CursorBehindSealed
<1>17. QED
  BY <1>3, <1>5, <1>6, <1>10, <1>11, <1>12, <1>13, <1>14, <1>15, <1>16, RunStep DEF Types

\* The run that finishes moves on, or gives its Job back if it still owns it.
LEMMA FinishKeeps ==
  ASSUME IInv, NEW w \in Workers, Finish(w) PROVE IInv'
<1> DEFINE r == run[w]
<1>1. r.pc \in {"finish", "finishShort"} /\ r.job \in Chain
  BY RunFacts DEF Finish
<1>2. Expected(r) = r.processed
  BY <1>1 DEF Expected
<1>3. UNCHANGED <<sealed, reserved, saved>>
  BY DEF Finish
<1>4. CASE (Goto(w, "succeed") \/ Goto(w, "continue")) /\ UNCHANGED entries
  <2>1. "succeed" \in PCs /\ "continue" \in PCs
    BY DEF PCs
  <2>2. QED
    BY <1>1, <1>2, <1>3, <1>4, <2>1, MoveStep
<1>5. CASE run' = [run EXCEPT ![w] = NoRun] /\ (Fails(r.job) \/ UNCHANGED entries)
  <2>1. CASE UNCHANGED entries
    BY <1>3, <1>5, <2>1, EndStep
  <2>2. CASE Fails(r.job)
    BY <1>1, <1>3, <1>5, <2>2, FailsFacts, EndStep
  <2>3. QED
    BY <1>5, <2>1, <2>2
<1>6. QED
  BY <1>4, <1>5 DEF Finish

\* The continuation is offered once and the run moves on.
LEMMA ContinueKeeps ==
  ASSUME IInv, NEW w \in Workers, Continue(w) PROVE IInv'
<1> DEFINE r == run[w]
           next == r.job + 1
           u == Moved(r, "succeed")
           e == [state |-> "waiting", runs |-> 0, key |-> KeyOf(next), mode |-> "permanent"]
<1>1. /\ r.pc = "continue" /\ r \in RunRow /\ r.job \in Chain
      /\ Agrees(r, entries, sealed, reserved, saved)
  BY RunFacts DEF Continue, At
<1>2. Expected(r) = r.processed /\ "succeed" \in PCs
  BY <1>1 DEF Expected, PCs
<1>3. /\ UNCHANGED <<sealed, reserved, saved>> /\ Goto(w, "succeed") /\ next \in Chain
      /\ UNCHANGED entries \/ Queue!Offer(next, KeyOf(next), "permanent")
  BY DEF Continue
<1>4. CASE UNCHANGED entries
  BY <1>1, <1>2, <1>3, <1>4, MoveStep
<1>5. CASE Queue!Offer(next, KeyOf(next), "permanent")
  <2> HIDE DEF next
  <2>1. entries[next].state = "absent" /\ entries' = [entries EXCEPT ![next] = e]
    BY <1>5 DEF Queue!Offer, Queue!StateOf
  <2>2. e \in Queue!Entry /\ e.state = "waiting" /\ e.runs = 0
    BY <1>3 DEF Queue!Entry, Queue!States, Queue!Pending, Queue!Modes, KeyOf
  <2>3. entries[next].runs = 0
    BY <1>3, <2>1 DEF IInv, Types
  <2>4. run' = [run EXCEPT ![w] = u]
    BY <1>3 DEF Goto, Moved
  <2>5. /\ u \in RunRow /\ u.pc = "succeed" /\ u.job = r.job /\ u.number = r.number
        /\ u.after = r.after /\ u.processed = r.processed
    BY <1>1, <1>2, MovedFacts
  <2> HIDE DEF u, e, r
  <2>6. Tokened(w, u)
    BY <1>1, <2>5 DEF Tokened, r
  <2>7. OwnedIn(u, entries) <=> OwnedIn(r, entries)
    BY <2>5 DEF OwnedIn
  <2>8. Expected(u) = Expected(r)
    BY <1>2, <2>5 DEF Expected
  <2>9. Agrees(u, entries, sealed, reserved, saved)
    BY <1>1, <2>5, <2>7, <2>8 DEF Agrees
  <2>10. QED
    BY <1>3, <2>1, <2>2, <2>3, <2>4, <2>5, <2>6, <2>9, DropStep
<1>6. QED
  BY <1>3, <1>4, <1>5

\* Completing, losing and leaving a Job end its holding.
LEMMA LeaveKeeps ==
  ASSUME IInv, NEW w \in Workers, Complete(w) \/ Trouble(w) \/ Lapse(w) \/ Fenced(w)
  PROVE  IInv'
<1> DEFINE r == run[w]
<1>1. /\ r.pc # "idle" /\ r.job \in Chain /\ r \in RunRow
      /\ Agrees(r, entries, sealed, reserved, saved)
      /\ UNCHANGED <<sealed, reserved, saved>>
  <2>1. r.pc # "idle" /\ UNCHANGED <<sealed, reserved, saved>>
    BY DEF Complete, Trouble, Lapse, Fenced, At
  <2>2. QED
    BY <2>1, RunFacts
<1>2. CASE Complete(w)
  <2>1. /\ run' = [run EXCEPT ![w] = NoRun]
        /\ Queue!SetState(r.job, "succeeded") \/ Queue!SetState(r.job, "failed")
    BY <1>2 DEF Complete, Queue!Settle
  <2>2. \E e \in Queue!Entry : /\ e.state \in {"succeeded", "failed"} /\ e.runs = entries[r.job].runs
                               /\ entries' = [entries EXCEPT ![r.job] = e]
    BY <1>1, <2>1, SetStateFacts
  <2>3. QED
    BY <1>1, <2>1, <2>2, EndStep
<1>3. CASE Trouble(w)
  <2>1. run' = [run EXCEPT ![w] = NoRun] /\ Fails(r.job)
    BY <1>3 DEF Trouble
  <2>2. QED
    BY <1>1, <2>1, FailsFacts, EndStep
<1>4. CASE Lapse(w)
  <2>1. run' = run /\ Fails(r.job) /\ run \in [Workers -> RunRow]
    BY <1>4 DEF Lapse, IInv, Types
  <2>2. run' = [run EXCEPT ![w] = r]
    BY <2>1
  <2>3. Tokened(w, r)
    BY <1>1 DEF Tokened
  <2>4. PICK e \in Queue!Entry :
           /\ e.state \in {"waiting", "failed"} /\ e.runs = entries[r.job].runs
           /\ entries' = [entries EXCEPT ![r.job] = e]
    BY <1>1, <2>1, FailsFacts
  <2> HIDE DEF r
  <2>5. QED
    BY <1>1, <2>2, <2>3, <2>4, DropStep
<1>5. CASE Fenced(w)
  <2>1. run' = [run EXCEPT ![w] = NoRun] /\ entries' = entries
    BY <1>5 DEF Fenced
  <2>2. QED
    BY <1>1, <2>1, EndStep
<1>6. QED
  BY <1>2, <1>3, <1>4, <1>5

----------------------------------------------------------------------------
(* The theorems *)

\* When sealing begins no Job has been run.
LEMMA InitIInv == Init => IInv
<1> SUFFICES ASSUME Init PROVE IInv
  OBVIOUS
<1>1. /\ sealed \in SUBSET Attempts /\ reserved = [j \in Chain |-> 0]
      /\ saved = [j \in Chain |-> <<0, 0>>] /\ run = [w \in Workers |-> NoRun]
  BY DEF Init
<1> DEFINE first == [Queue!AbsentEntry EXCEPT !.state = "waiting", !.key = 1]
<1>2. Queue!AbsentEntry \in Queue!Entry /\ Queue!AbsentEntry.runs = 0
  BY DEF Queue!AbsentEntry, Queue!Entry, Queue!States, Queue!Modes, Queue!NoKey
<1>3. first \in Queue!Entry /\ first.runs = 0
  <2>1. "waiting" \in Queue!States /\ 1 \in Chain \cup {Queue!NoKey}
    BY SittingSealingAssumption DEF Queue!States, Queue!Pending
  <2>2. QED
    BY <1>2, <2>1 DEF Queue!Entry
<1>4. entries = [j \in Chain |-> IF j = 1 THEN first ELSE Queue!AbsentEntry]
  BY DEF Init
<1> HIDE DEF first
<1>5. entries \in [Chain -> Queue!Entry] /\ \A j \in Chain : entries[j].runs = 0
  BY <1>2, <1>3, <1>4
<1>6. Types
  BY <1>1, <1>5, NoRunFacts DEF Types
<1>7. \A w \in Workers : run[w].pc = "idle"
  BY <1>1, NoRunFacts
<1>8. ReservationAgrees /\ CursorBehindSealed
  BY <1>1, SittingSealingAssumption, SMTT(30), SMTT(20) DEF ReservationAgrees, CursorBehindSealed
<1>9. QED
  BY <1>6, <1>7, <1>8 DEF IInv, Tokens, Agrees

\* Every step keeps it.
LEMMA NextIInv == IInv /\ [Next]_vars => IInv'
<1> SUFFICES ASSUME IInv, [Next]_vars PROVE IInv'
  OBVIOUS
<1>1. ASSUME NEW w \in Workers,
             \/ \E j \in Chain : Claim(w, j)
             \/ Step(w)
             \/ Trouble(w)
             \/ Lapse(w)
      PROVE  IInv'
  BY <1>1, ClaimKeeps, CheckKeeps, ListKeeps, ReserveKeeps, SealKeeps, CheckpointKeeps,
     FinishKeeps, ContinueKeeps, LeaveKeeps DEF Step
<1>2. CASE UNCHANGED vars
  BY <1>2 DEF vars, IInv, Types, Tokens, ReservationAgrees, CursorBehindSealed
<1>3. QED
  BY <1>1, <1>2 DEF Next

\* In every reachable state each run agrees with the row it owns, and with
\* what is sealed whether or not it owns one.
THEOREM IInvHolds == Spec => []IInv
  BY InitIInv, NextIInv, PTL DEF Spec

\* A Job's row never shows more than one reserved unit beyond its checkpoint,
\* whatever was lost and however runs overlap.
THEOREM ReservationsAgree == Spec => []ReservationAgrees
<1>1. IInv => ReservationAgrees
  BY DEF IInv
<1>2. QED
  BY <1>1, IInvHolds, PTL

\* Therefore no run rejects its Job as inconsistent (Run() of
\* exam_sitting_sealing.go), not even one that lost it in the meantime.
THEOREM NeverRejected == Spec => [](\A w \in Workers : run[w].pc # "invalid")
<1>1. IInv => \A w \in Workers : run[w].pc # "invalid"
  BY DEF IInv, Agrees
<1>2. QED
  BY <1>1, IInvHolds, PTL

\* No Attempt at or before a checkpointed cursor is left unsealed.
THEOREM CursorsBehindSealed == Spec => []CursorBehindSealed
<1>1. IInv => CursorBehindSealed
  BY DEF IInv
<1>2. QED
  BY <1>1, IInvHolds, PTL
=============================================================================
