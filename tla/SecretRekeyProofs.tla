------------------------- MODULE SecretRekeyProofs -------------------------
(***************************************************************************)
(* Proofs about SecretRekey, for every set of nodes, keys and rows and     *)
(* every number of rotations.  For the MFA secrets, whose replacement      *)
(* locks the fence: a rekey that succeeded leaves no row under another     *)
(* key.  For both variants: the references counted for a key are the rows  *)
(* sealed with it.                                                         *)
(***************************************************************************)
EXTENDS SecretRekey, FiniteSetTheorems, WellFoundedInduction, TLAPS

\* A leaf that names no prover is tried with Zenon, then with SMT. SMT is listed
\* twice, here and at the leaves that need it: tlapm gives up on an encoding after
\* five seconds, and a second try starts afresh.
USE ZenonT(10), SMTT(30), SMTT(20), ZenonT(30)

Working == {"list", "check", "replace", "checkpoint", "prove"}

\* What holds of a handler wherever it is.
RunInv(n) ==
    /\ run[n].pc # "idle" => run[n].job \in Jobs /\ jobs[run[n].job].status # "absent"
    /\ run[n].pc \in {"check", "replace"} => run[n].page # {}
    /\ run[n].pc \in Working => primary[n] = Command(n).primary
    /\ run[n].pc = "replace" => IsFenced(n)
    /\ run[n].pc = "finish" /\ run[n].outcome = "succeeded" /\ run[n].job = fence.job
         => NotUnder(fence.required) = {}

WriteInv(n) == write[n] # None => fence.required \in {None, write[n]}

FenceInv ==
    /\ fence.job = 0 => fence.required = None
    /\ fence.job # 0 => /\ fence.required \in Keys
                        /\ jobs[fence.job].status # "absent"
                        /\ jobs[fence.job].primary = fence.required

\* The inductive invariant.
RekeyInv ==
    /\ TypeOK /\ FenceInv /\ ProofStands
    /\ \A n \in Nodes : RunInv(n) /\ WriteInv(n)

----------------------------------------------------------------------------
(* Facts about the operators of the model *)

\* Every set of numbers that has an element has a least one.
LEMMA Least ==
    ASSUME NEW S \in SUBSET Nat, S # {}
    PROVE  \E x \in S : \A y \in S : x <= y
<1> DEFINE R == {ss \in Nat \X Nat : ss[1] < ss[2]}
<1>1. R = OpToRel(<, Nat)
  BY DEF OpToRel
<1>2. IsWellFoundedOn(R, Nat)
  BY <1>1, NatLessThanWellFounded
<1>3. \E x \in S : \A y \in S : ~(<<y, x>> \in R)
  <2> HIDE DEF R
  <2> QED BY <1>2, WFMin
<1>4. \A x, y \in Nat : <<y, x>> \notin R => x <= y
  OBVIOUS
<1> HIDE DEF R
<1> QED BY <1>3, <1>4

\* The target of a handler that has a page is one of the page.
LEMMA TargetInPage ==
    ASSUME NEW n \in Nodes, run[n].page \in SUBSET Claims, run[n].page # {}
    PROVE  Target(n) \in run[n].page
<1> DEFINE S == {t.row : t \in run[n].page}
<1>1. S \in SUBSET Nat /\ S # {}
  BY SecretRekeyAssumption, ZenonT(30) DEF Claims
<1>2. PICK x \in S : \A y \in S : x <= y
  BY <1>1, Least
<1>3. PICK t \in run[n].page : t.row = x
  OBVIOUS
<1>4. \A u \in run[n].page : t.row <= u.row
  BY <1>2, <1>3
<1> QED BY <1>3, <1>4 DEF Target

\* Rows are counted: the count is a number, and zero only when there is none.
LEMMA CountOfRows ==
    ASSUME NEW k, ~Mail
    PROVE  /\ NonPrimaryReferences(k) \in Nat
           /\ NonPrimaryReferences(k) = 0 => NotUnder(k) = {}
<1>1. NotUnder(k) \subseteq Secrets
  BY DEF NotUnder
<1>2. IsFiniteSet(NotUnder(k))
  BY <1>1, SecretRekeyAssumption, FS_Subset
<1>3. Cardinality(NotUnder(k)) \in Nat
  BY <1>2, FS_CardinalityType
<1>4. Cardinality(NotUnder(k)) = 0 => NotUnder(k) = {}
  BY <1>2, FS_EmptySet
<1> QED BY <1>3, <1>4 DEF NonPrimaryReferences

\* Without the mail store's table a step leaves the references alone.
LEMMA CountedAlone == ~Mail => \A old, new : Counted(old, new) = refs
BY DEF Counted

----------------------------------------------------------------------------
(* Types *)

\* Every step keeps the types: the rows a handler has listed are rows, its
\* checkpoint is a position, the counts are numbers.
LEMMA TypeStep ==
    ASSUME ~Mail, TypeOK, \A n \in Nodes : RunInv(n), [Next]_vars
    PROVE  TypeOK'
<1> USE SecretRekeyAssumption
<1>1. ASSUME NEW n \in Nodes, OpenWrite(n) PROVE TypeOK'
  BY <1>1 DEF OpenWrite, TypeOK
<1>2. ASSUME NEW n \in Nodes, AbortWrite(n) PROVE TypeOK'
  BY <1>2 DEF AbortWrite, TypeOK
<1>3. ASSUME NEW n \in Nodes, NEW s \in Secrets, CommitWrite(n, s) PROVE TypeOK'
  BY <1>3, CountedAlone DEF CommitWrite, TypeOK
<1>4. ASSUME NEW s \in Secrets, Destroy(s) PROVE TypeOK'
  BY <1>4, CountedAlone DEF Destroy, TypeOK
<1>5. ASSUME NEW n \in Nodes, NEW j \in Jobs, StartRekey(n, j) PROVE TypeOK'
  <2>1. [NoJob EXCEPT !.status = "queued", !.primary = primary[n],
                      !.maximum = MaximumAttempts] \in RekeyJob
    BY DEF TypeOK, NoJob, RekeyJob
  <2>2. jobs' \in [Jobs -> RekeyJob]
    BY <1>5, <2>1 DEF StartRekey, TypeOK
  <2>3. fence' \in [required : Keys \cup {None}, job : 0 .. MaxJobs]
    BY <1>5, SMTT(30), SMTT(20) DEF StartRekey, TypeOK, Jobs
  <2> QED BY <1>5, <2>2, <2>3 DEF StartRekey, TypeOK
<1>6. Idle \in Run
  BY DEF Idle, Run
<1>7. ASSUME NEW n \in Nodes, NEW k \in Keys, Restart(n, k) PROVE TypeOK'
  BY <1>6, <1>7, SMTT(30), SMTT(20) DEF Restart, TypeOK
<1>8. ASSUME NEW n \in Nodes, NEW j \in Jobs, Claim(n, j) PROVE TypeOK'
  <2> DEFINE r == [Idle EXCEPT !.pc = "begin", !.job = j,
                   !.attempt = jobs[j].attempts + 1, !.after = jobs[j].after,
                   !.processed = jobs[j].processed]
  <2>1. jobs[j] \in RekeyJob
    BY DEF TypeOK
  <2>2. r \in Run
    <3>1. /\ jobs[j].attempts \in Nat /\ jobs[j].after \in Nat
          /\ jobs[j].processed \in Nat /\ j \in 0 .. MaxJobs
      BY <2>1, SMTT(30), SMTT(20) DEF Jobs, RekeyJob
    <3>2. jobs[j].attempts + 1 \in Nat
      BY <3>1, SMTT(30), SMTT(20)
    <3>3. \A t, a, f, p : t \in 0 .. MaxJobs /\ a \in Nat /\ f \in Nat /\ p \in Nat =>
            [Idle EXCEPT !.pc = "begin", !.job = t, !.attempt = a, !.after = f,
                         !.processed = p] \in Run
      BY ZenonT(30) DEF Idle, Run
    <3> QED BY <3>1, <3>2, <3>3
  <2>3. [jobs[j] EXCEPT !.status = "running", !.attempts = @ + 1] \in RekeyJob
    <3>1. jobs[j].attempts + 1 \in Nat
      BY <2>1, SMTT(30), SMTT(20) DEF RekeyJob
    <3>2. \A a \in Nat : [jobs[j] EXCEPT !.status = "running", !.attempts = a] \in RekeyJob
      BY <2>1 DEF RekeyJob
    <3> QED BY <3>1, <3>2
  <2>4. jobs' \in [Jobs -> RekeyJob]
    BY <1>8, <2>3 DEF Claim, TypeOK
  <2>5. run' \in [Nodes -> Run]
    BY <1>8, <2>2 DEF Claim, TypeOK
  <2> QED BY <1>8, <2>4, <2>5 DEF Claim, TypeOK
<1>9. ASSUME NEW j \in Jobs, Lapse(j) PROVE TypeOK'
  <2>1. jobs' \in [Jobs -> RekeyJob]
    BY <1>9, SMTT(30), SMTT(20) DEF Lapse, TypeOK, RekeyJob
  <2> QED BY <1>9, <2>1 DEF Lapse, TypeOK
<1>10. ASSUME NEW n \in Nodes, NEW o \in {"retryable", "permanent", "relinquished", "succeeded"},
              Return(n, o)
       PROVE  run' \in [Nodes -> Run]
  <2>1. [Idle EXCEPT !.pc = "finish", !.job = run[n].job, !.attempt = run[n].attempt,
                     !.outcome = o] \in Run
    BY DEF TypeOK, Run, Idle
  <2> QED BY <1>10, <2>1 DEF Return, TypeOK
<1>11. ASSUME NEW n \in Nodes, Fail(n) PROVE TypeOK'
  BY <1>10, <1>11 DEF Fail, Rest, TypeOK
<1>12. ASSUME NEW n \in Nodes, Begin(n) PROVE TypeOK'
  <2>1. run[n] \in Run /\ primary[n] \in Keys
    BY DEF TypeOK
  <2>2. CASE Return(n, "relinquished") \/ Return(n, "permanent")
    BY <1>10, <1>12, <2>2 DEF Begin, Rest, TypeOK
  <2>3. CASE run' = [run EXCEPT ![n].pc = "list",
                 ![n].total = run[n].processed + NonPrimaryReferences(primary[n])]
    <3>1. NonPrimaryReferences(primary[n]) \in Nat
      BY CountOfRows
    <3>2. run' \in [Nodes -> Run]
      <4> DEFINE total == run[n].processed + NonPrimaryReferences(primary[n])
      <4>1. total \in Nat
        BY <2>1, <3>1, SMTT(30), SMTT(20) DEF Run
      <4> HIDE DEF total
      <4>2. [run[n] EXCEPT !.pc = "list", !.total = total] \in Run
        BY <2>1, <4>1 DEF Run
      <4> QED BY <2>3, <4>2 DEF TypeOK, total
    <3> QED BY <1>12, <3>2 DEF Begin, Rest, TypeOK
  <2> QED BY <1>12, <2>2, <2>3 DEF Begin
<1>13. ASSUME NEW n \in Nodes, ListTargets(n) PROVE TypeOK'
  <2> DEFINE page == IF IsFenced(n) THEN Page(n) ELSE {}
             claims == {[row |-> s, key |-> sealed[s]] : s \in page}
  <2>1. CASE Return(n, "permanent")
    BY <1>10, <1>13, <2>1 DEF ListTargets, Rest, TypeOK
  <2>2. CASE run' = [run EXCEPT ![n].page = claims,
                ![n].more = \E s \in NotUnder(primary[n]) \ page : s > run[n].after,
                ![n].pc = IF page = {} THEN "prove" ELSE "check"]
    <3>1. \A s \in page : s \in Secrets /\ sealed[s] \in Keys
      BY DEF Page, NotUnder
    <3>2. claims \in SUBSET Claims
      BY <3>1, SMTT(30), SMTT(20) DEF Claims
    <3> DEFINE more == \E s \in NotUnder(primary[n]) \ page : s > run[n].after
               pc == IF page = {} THEN "prove" ELSE "check"
    <3>3. more \in BOOLEAN /\ pc \in {"prove", "check"}
      OBVIOUS
    <3>4. run' = [run EXCEPT ![n].page = claims, ![n].more = more, ![n].pc = pc]
      BY <2>2
    <3> HIDE DEF claims, more, pc
    <3>5. run' \in [Nodes -> Run]
      <4>1. run[n] \in Run
        BY DEF TypeOK
      <4>2. [run[n] EXCEPT !.page = claims, !.more = more, !.pc = pc] \in Run
        BY <3>2, <3>3, <4>1 DEF Run
      <4> QED BY <3>4, <4>2 DEF TypeOK
    <3> QED BY <1>13, <3>5 DEF ListTargets, Rest, TypeOK
  <2> QED BY <1>13, <2>1, <2>2 DEF ListTargets
<1>14. ASSUME NEW n \in Nodes, CheckFence(n) PROVE TypeOK'
  <2>1. CASE Return(n, "permanent")
    BY <1>10, <1>14, <2>1 DEF CheckFence, Rest, TypeOK
  <2>2. CASE run' = [run EXCEPT ![n].pc = "replace"]
    <3>1. run[n] \in Run /\ [run[n] EXCEPT !.pc = "replace"] \in Run
      BY SMTT(30), SMTT(20) DEF TypeOK, Run
    <3>2. run' \in [Nodes -> Run]
      BY <2>2, <3>1 DEF TypeOK
    <3> QED BY <1>14, <3>2 DEF CheckFence, Rest, TypeOK
  <2> QED BY <1>14, <2>1, <2>2 DEF CheckFence
<1>15. ASSUME NEW n \in Nodes, Replace(n) PROVE TypeOK'
  <2>1. run[n] \in Run /\ run[n].page \in SUBSET Claims
    BY DEF TypeOK, Run
  <2>2. Target(n) \in Claims
    BY <1>15, <2>1, TargetInPage DEF Replace, RunInv
  <2>3. Target(n).row \in Nat
    BY <2>2 DEF Claims
  <2>4. run' \in [Nodes -> Run]
    BY <1>15, <2>1, <2>3, SMTT(30), SMTT(20) DEF Replace, TypeOK, Run
  <2>5. sealed' \in [Secrets -> Keys \cup {"unused", "gone"}] /\ refs' = refs
    BY <1>15, CountedAlone DEF Replace, TypeOK
  <2> QED BY <1>15, <2>4, <2>5 DEF Replace, Rest, TypeOK
<1>16. ASSUME NEW n \in Nodes, Checkpoint(n) PROVE TypeOK'
  <2>1. CASE Return(n, "retryable") /\ UNCHANGED jobs
    BY <1>10, <1>16, <2>1 DEF Checkpoint, TypeOK
  <2>2. CASE /\ jobs' = [jobs EXCEPT ![run[n].job].after = run[n].after,
                                     ![run[n].job].processed = run[n].processed]
             /\ run' = [run EXCEPT ![n].pc = IF run[n].page # {} THEN "check"
                                     ELSE IF run[n].more THEN "list" ELSE "prove"]
    <3>1. run[n] \in Run
      BY DEF TypeOK
    <3>2. run' \in [Nodes -> Run]
      BY <2>2, <3>1 DEF TypeOK, Run
    <3>3. jobs' \in [Jobs -> RekeyJob]
      <4>1. \A j \in RekeyJob : \A a, p \in Nat :
              [j EXCEPT !.after = a, !.processed = p] \in RekeyJob
        BY DEF RekeyJob
      <4>2. run[n].after \in Nat /\ run[n].processed \in Nat
        BY <3>1 DEF Run
      <4> QED BY <2>2, <4>1, <4>2 DEF TypeOK
    <3> QED BY <1>16, <3>2, <3>3 DEF Checkpoint, TypeOK
  <2> QED BY <1>16, <2>1, <2>2 DEF Checkpoint
<1>17. ASSUME NEW n \in Nodes, Prove(n) PROVE TypeOK'
  BY <1>10, <1>17 DEF Prove, Rest, TypeOK
<1>18. ASSUME NEW n \in Nodes, Finish(n) PROVE TypeOK'
  <2>1. \A j \in RekeyJob : Finished(j, n, run[n].outcome) \in RekeyJob
    <3>1. SUFFICES ASSUME NEW j \in RekeyJob
                   PROVE  Finished(j, n, run[n].outcome) \in RekeyJob
      OBVIOUS
    <3>2. \A t \in {"queued", "succeeded", "failed"} : [j EXCEPT !.status = t] \in RekeyJob
      BY DEF RekeyJob
    <3>3. [j EXCEPT !.status = "queued", !.maximum = @ + 1, !.declined = @ \cup {n}] \in RekeyJob
      <4>1. j.maximum + 1 \in Nat /\ j.declined \cup {n} \in SUBSET Nodes
        BY SMTT(30), SMTT(20) DEF RekeyJob
      <4>2. \A a \in Nat : \A d \in SUBSET Nodes :
              [j EXCEPT !.status = "queued", !.maximum = a, !.declined = d] \in RekeyJob
        BY DEF RekeyJob
      <4> QED BY <4>1, <4>2
    <3> QED BY <3>2, <3>3 DEF Finished
  <2>2. jobs' \in [Jobs -> RekeyJob]
    BY <1>18, <2>1 DEF Finish, TypeOK
  <2>3. run' \in [Nodes -> Run]
    BY <1>6, <1>18 DEF Finish, TypeOK
  <2> QED BY <1>18, <2>2, <2>3 DEF Finish, TypeOK
<1>19. ASSUME NEW n \in Nodes, Lose(n) PROVE TypeOK'
  BY <1>6, <1>19 DEF Lose, TypeOK
<1>20. CASE UNCHANGED vars
  BY <1>20 DEF vars, TypeOK
<1> QED
  BY <1>1, <1>2, <1>3, <1>4, <1>5, <1>7, <1>8, <1>9, <1>11, <1>12, <1>13, <1>14, <1>15,
     <1>16, <1>17, <1>18, <1>19, <1>20 DEF Next, Handler

----------------------------------------------------------------------------
(* What a step leaves as it was *)

\* A Job that exists goes on existing, for the same primary.
JobsKept == \A j \in Jobs : jobs[j].status # "absent" =>
    jobs'[j].status # "absent" /\ jobs'[j].primary = jobs[j].primary

\* Rows under other keys than the required one only get fewer.
Shrinks == NotUnder(fence.required)' \subseteq NotUnder(fence.required)

\* No step forgets a Job or changes the primary it was started for.
LEMMA JobsStep ==
    ASSUME TypeOK, [Next]_vars
    PROVE  JobsKept
<1> USE DEF JobsKept
<1>1. ASSUME NEW n \in Nodes, NEW j \in Jobs, StartRekey(n, j) PROVE JobsKept
  BY <1>1, SMTT(30), SMTT(20) DEF StartRekey, NoJob, TypeOK
<1>2. ASSUME NEW n \in Nodes, NEW j \in Jobs, Claim(n, j) PROVE JobsKept
  BY <1>2 DEF Claim, TypeOK, RekeyJob
<1>3. ASSUME NEW j \in Jobs, Lapse(j) PROVE JobsKept
  BY <1>3 DEF Lapse, TypeOK, RekeyJob
<1>4. ASSUME NEW n \in Nodes, Checkpoint(n) PROVE JobsKept
  BY <1>4, SMTT(30), SMTT(20) DEF Checkpoint, TypeOK, RekeyJob
<1>5. ASSUME NEW n \in Nodes, Finish(n) PROVE JobsKept
  <2>1. \A j \in RekeyJob : /\ Finished(j, n, run[n].outcome).status # "absent"
                            /\ Finished(j, n, run[n].outcome).primary = j.primary
    BY DEF Finished, RekeyJob
  <2> QED BY <1>5, <2>1 DEF Finish, TypeOK
<1>6. CASE UNCHANGED jobs
  BY <1>6
<1> QED
  BY <1>1, <1>2, <1>3, <1>4, <1>5, <1>6, ZenonT(30)
  DEF Next, Handler, OpenWrite, AbortWrite, CommitWrite, Destroy, Restart, Fail, Begin,
      ListTargets, CheckFence, Replace, Prove, Lose, Rest, vars

\* A row is sealed anew only under the required primary: an insertion holds
\* the fence since it looked at it, and so does a replacement.
LEMMA ShrinkStep ==
    ASSUME ~Mail, RekeyInv, [Next]_vars, fence.job # 0, fence' = fence
    PROVE  Shrinks
<1> USE SecretRekeyAssumption DEF Shrinks, NotUnder
<1>1. sealed \in [Secrets -> Keys \cup {"unused", "gone"}]
  BY DEF RekeyInv, TypeOK
<1>2. ASSUME NEW n \in Nodes, NEW s \in Secrets, CommitWrite(n, s)
      PROVE  Shrinks
  <2>1. write[n] # None /\ write[n] = fence.required
    BY <1>2 DEF CommitWrite, RekeyInv, WriteInv, FenceInv
  <2> QED BY <1>1, <1>2, <2>1 DEF CommitWrite
<1>3. ASSUME NEW s \in Secrets, Destroy(s) PROVE Shrinks
  BY <1>1, <1>3 DEF Destroy
<1>4. ASSUME NEW n \in Nodes, Replace(n) PROVE Shrinks
  <2>1. IsFenced(n) /\ primary[n] = Command(n).primary
    BY <1>4 DEF Replace, RekeyInv, RunInv, Working
  <2>2. primary[n] = fence.required
    BY <2>1 DEF IsFenced
  <2>3. \A s \in Secrets : sealed'[s] \in {sealed[s], fence.required}
    BY <1>1, <1>4, <2>2 DEF Replace
  <2> QED BY <2>3
<1>5. CASE UNCHANGED sealed
  BY <1>5
<1> QED
  BY <1>2, <1>3, <1>4, <1>5, ZenonT(30)
  DEF Next, Handler, OpenWrite, AbortWrite, StartRekey, Restart, Claim, Lapse, Fail, Begin,
      ListTargets, CheckFence, Checkpoint, Prove, Finish, Lose, Rest, vars

\* A handler that does not move keeps its invariant while the fence stays.
LEMMA HandlerRests ==
    ASSUME NEW m \in Nodes, TypeOK, FenceInv, RunInv(m), JobsKept, fence' = fence,
           fence.job # 0 => Shrinks,
           run'[m] = run[m], primary'[m] = primary[m]
    PROVE  RunInv(m)'
<1>1. run[m].pc # "idle" =>
        /\ run[m].job \in Jobs /\ jobs'[run[m].job].status # "absent"
        /\ jobs'[run[m].job].primary = jobs[run[m].job].primary
  BY DEF RunInv, JobsKept
<1>2. run[m].pc \in Working => primary'[m] = Command(m).primary'
  BY <1>1 DEF RunInv, Command, Working
<1>3. run[m].pc = "replace" => IsFenced(m)'
  BY <1>1 DEF RunInv, Command, IsFenced
<1>4. run[m].pc = "finish" /\ run[m].outcome = "succeeded" /\ run[m].job = fence.job
        => NotUnder(fence.required)' = {}
  <2>1. run[m].pc = "finish" /\ run[m].job = fence.job => fence.job # 0
    BY <1>1, SecretRekeyAssumption DEF Jobs
  <2> QED BY <2>1 DEF RunInv, Shrinks
<1> QED BY <1>1, <1>2, <1>3, <1>4 DEF RunInv

\* A handler that goes back to being idle claims nothing.
LEMMA IdleRuns ==
    ASSUME NEW m \in Nodes, run'[m] = Idle
    PROVE  RunInv(m)'
BY DEF RunInv, Idle, Working

\* One that returns without a success claims only its Job.
LEMMA ReturnRuns ==
    ASSUME NEW m \in Nodes, NEW o \in {"retryable", "permanent", "relinquished"},
           TypeOK, RunInv(m), JobsKept, run[m].pc # "idle", Return(m, o)
    PROVE  RunInv(m)'
<1>1. /\ run'[m].pc = "finish" /\ run'[m].job = run[m].job /\ run'[m].outcome = o
  BY DEF Return, TypeOK, Idle
<1> QED BY <1>1 DEF RunInv, JobsKept, Working

----------------------------------------------------------------------------
(* The step of the invariant *)

\* Handlers: what each of them relies on survives the step of any of them,
\* of a writer, of an operator and of a restart.
LEMMA RunStep ==
    ASSUME ~Mail, RekeyInv, [Next]_vars, NEW m \in Nodes
    PROVE  RunInv(m)'
<1> USE DEF RekeyInv
<1>1. JobsKept
  BY JobsStep
<1>2. ASSUME NEW n \in Nodes, NEW j \in Jobs, StartRekey(n, j) PROVE RunInv(m)'
  <2>1. run[m].pc # "replace"
    BY <1>2 DEF StartRekey, HoldsFence
  <2>2. run' = run /\ primary' = primary /\ fence'.job = j
    BY <1>2 DEF StartRekey
  <2>3. run[m].pc # "idle" => /\ run[m].job \in Jobs /\ run[m].job # j
                              /\ jobs'[run[m].job].status # "absent"
                              /\ jobs'[run[m].job].primary = jobs[run[m].job].primary
    BY <1>1, <1>2, SMTT(30), SMTT(20) DEF StartRekey, NoJob, RunInv, JobsKept
  <2>4. run[m].pc \in Working => primary'[m] = Command(m).primary'
    BY <2>2, <2>3 DEF RunInv, Command, Working
  <2> QED BY <2>1, <2>2, <2>3, <2>4 DEF RunInv
<1>3. CASE /\ fence' = fence /\ run'[m] = run[m] /\ primary'[m] = primary[m]
  BY <1>1, <1>3, ShrinkStep, HandlerRests
<1>4. ASSUME NEW k \in Keys, Restart(m, k) PROVE RunInv(m)'
  BY <1>4, IdleRuns DEF Restart, TypeOK
<1>5. ASSUME NEW j \in Jobs, Claim(m, j) PROVE RunInv(m)'
  <2>1. run'[m].pc = "begin" /\ run'[m].job = j
    BY <1>5 DEF Claim, TypeOK, Idle
  <2>2. jobs'[j].status # "absent"
    BY <1>1, <1>5 DEF Claim, JobsKept
  <2> QED BY <2>1, <2>2 DEF RunInv, Working
<1>6. ASSUME Fail(m) PROVE RunInv(m)'
  BY <1>1, <1>6, ReturnRuns DEF Fail
<1>7. ASSUME Begin(m) PROVE RunInv(m)'
  <2>1. CASE Return(m, "relinquished") \/ Return(m, "permanent")
    BY <1>1, <1>7, <2>1, ReturnRuns DEF Begin
  <2>2. CASE /\ Command(m).primary = primary[m]
             /\ run' = [run EXCEPT ![m].pc = "list",
                    ![m].total = run[m].processed + NonPrimaryReferences(primary[m])]
    <3>1. run'[m].pc = "list" /\ run'[m].job = run[m].job
      BY <2>2, SMTT(30), SMTT(20) DEF TypeOK, Run
    <3>2. run[m].job \in Jobs /\ jobs' = jobs /\ primary' = primary
      BY <1>7 DEF Begin, Rest, RunInv
    <3> QED BY <1>7, <2>2, <3>1, <3>2 DEF RunInv, Command, Begin
  <2> QED BY <1>7, <2>1, <2>2 DEF Begin
<1>8. ASSUME ListTargets(m) PROVE RunInv(m)'
  <2> DEFINE page == IF IsFenced(m) THEN Page(m) ELSE {}
             claims == {[row |-> s, key |-> sealed[s]] : s \in page}
             pc == IF page = {} THEN "prove" ELSE "check"
             more == \E s \in NotUnder(primary[m]) \ page : s > run[m].after
  <2>1. CASE Return(m, "permanent")
    BY <1>1, <1>8, <2>1, ReturnRuns DEF ListTargets
  <2>2. CASE run' = [run EXCEPT ![m].page = claims, ![m].more = more, ![m].pc = pc]
    <3>1. pc \in {"prove", "check"} /\ (pc = "check" => claims # {})
      OBVIOUS
    <3> HIDE DEF claims, pc, more
    <3>2. run'[m].pc = pc /\ run'[m].job = run[m].job /\ run'[m].page = claims
      BY <2>2, SMTT(30), SMTT(20) DEF TypeOK, Run
    <3>3. run[m].job \in Jobs /\ jobs' = jobs /\ primary' = primary /\ run[m].pc = "list"
      BY <1>8 DEF ListTargets, Rest, RunInv
    <3> QED BY <3>1, <3>2, <3>3 DEF RunInv, Command, Working
  <2> QED BY <1>8, <2>1, <2>2 DEF ListTargets
<1>9. ASSUME CheckFence(m) PROVE RunInv(m)'
  <2>1. CASE Return(m, "permanent")
    BY <1>1, <1>9, <2>1, ReturnRuns DEF CheckFence
  <2>2. CASE IsFenced(m) /\ run' = [run EXCEPT ![m].pc = "replace"]
    <3>1. run'[m].pc = "replace" /\ run'[m].job = run[m].job /\ run'[m].page = run[m].page
      BY <2>2, SMTT(30), SMTT(20) DEF TypeOK, Run
    <3>2. run[m].job \in Jobs /\ UNCHANGED <<jobs, primary, fence>> /\ run[m].pc = "check"
      BY <1>9 DEF CheckFence, Rest, RunInv
    <3> QED BY <2>2, <3>1, <3>2 DEF RunInv, Command, IsFenced, Working
  <2> QED BY <1>9, <2>1, <2>2 DEF CheckFence
<1>10. ASSUME Replace(m) PROVE RunInv(m)'
  <2>1. run'[m].pc = "checkpoint" /\ run'[m].job = run[m].job
    BY <1>10, SMTT(30), SMTT(20) DEF Replace, TypeOK, Run
  <2>2. run[m].job \in Jobs /\ jobs' = jobs /\ primary' = primary /\ run[m].pc = "replace"
    BY <1>10 DEF Replace, Rest, RunInv
  <2> QED BY <2>1, <2>2 DEF RunInv, Command, Working
<1>11. ASSUME Checkpoint(m) PROVE RunInv(m)'
  <2>1. CASE Return(m, "retryable")
    BY <1>1, <1>11, <2>1, ReturnRuns DEF Checkpoint
  <2> DEFINE pc == IF run[m].page # {} THEN "check" ELSE IF run[m].more THEN "list" ELSE "prove"
  <2>2. CASE run' = [run EXCEPT ![m].pc = pc]
    <3>1. pc \in {"check", "list", "prove"} /\ (pc = "check" => run[m].page # {})
      OBVIOUS
    <3> HIDE DEF pc
    <3>2. run'[m].pc = pc /\ run'[m].job = run[m].job /\ run'[m].page = run[m].page
      BY <2>2, SMTT(30), SMTT(20) DEF TypeOK, Run
    <3>3. run[m].job \in Jobs /\ primary' = primary /\ run[m].pc = "checkpoint"
      BY <1>11 DEF Checkpoint, RunInv
    <3> QED BY <1>1, <3>1, <3>2, <3>3 DEF RunInv, Command, Working, JobsKept
  <2> QED BY <1>11, <2>1, <2>2 DEF Checkpoint
<1>12. ASSUME Prove(m) PROVE RunInv(m)'
  <2>1. CASE Return(m, "permanent") \/ Return(m, "retryable")
    BY <1>1, <1>12, <2>1, ReturnRuns DEF Prove
  <2>2. CASE /\ IsFenced(m) /\ NonPrimaryReferences(primary[m]) = 0
             /\ Return(m, "succeeded")
    <3>1. NotUnder(primary[m]) = {}
      BY <2>2, CountOfRows
    <3>2. primary[m] = fence.required
      BY <1>12, <2>2 DEF Prove, RunInv, Working, IsFenced
    <3>3. NotUnder(fence.required)' = {}
      BY <1>12, <3>1, <3>2 DEF Prove, Rest, NotUnder
    <3>4. run'[m].pc = "finish" /\ run'[m].job = run[m].job
      BY <2>2 DEF Return, TypeOK, Idle
    <3>5. run[m].job \in Jobs /\ jobs'[run[m].job].status # "absent"
      BY <1>1, <1>12 DEF Prove, RunInv, JobsKept
    <3> QED BY <3>3, <3>4, <3>5 DEF RunInv, Working
  <2> QED BY <1>12, <2>1, <2>2 DEF Prove
<1>13. ASSUME Finish(m) PROVE RunInv(m)'
  BY <1>13, IdleRuns DEF Finish, TypeOK
<1>14. ASSUME Lose(m) PROVE RunInv(m)'
  BY <1>14, IdleRuns DEF Lose, TypeOK
<1>15. ASSUME NEW n \in Nodes, n # m,
              \/ Handler(n) \/ Lose(n) \/ \E j \in Jobs : Claim(n, j)
              \/ \E k \in Keys : Restart(n, k)
       PROVE  /\ fence' = fence /\ run'[m] = run[m] /\ primary'[m] = primary[m]
  <2>1. \A o : Return(n, o) => run'[m] = run[m]
    BY <1>15 DEF Return, TypeOK
  <2>2. CASE Begin(n) \/ Fail(n) \/ CheckFence(n) \/ Prove(n)
    BY <1>15, <2>1, <2>2 DEF Begin, Fail, CheckFence, Prove, Rest, TypeOK
  <2>3. CASE ListTargets(n) \/ Replace(n)
    BY <1>15, <2>1, <2>3 DEF ListTargets, Replace, Rest, TypeOK
  <2>4. CASE Checkpoint(n) \/ Finish(n)
    BY <1>15, <2>1, <2>4 DEF Checkpoint, Finish, TypeOK
  <2>5. CASE Lose(n) \/ (\E j \in Jobs : Claim(n, j)) \/ (\E k \in Keys : Restart(n, k))
    BY <1>15, <2>5 DEF Lose, Claim, Restart, TypeOK
  <2> QED BY <1>15, <2>2, <2>3, <2>4, <2>5 DEF Handler
<1>16. ASSUME \/ UNCHANGED vars \/ (\E j \in Jobs : Lapse(j)) \/ (\E s \in Secrets : Destroy(s))
              \/ \E n \in Nodes : \/ OpenWrite(n) \/ AbortWrite(n)
                                  \/ \E s \in Secrets : CommitWrite(n, s)
       PROVE  /\ fence' = fence /\ run'[m] = run[m] /\ primary'[m] = primary[m]
  BY <1>16 DEF vars, Lapse, Destroy, OpenWrite, AbortWrite, CommitWrite
<1> QED
  <2>1. ASSUME NEW n \in Nodes, Handler(n) PROVE RunInv(m)'
    <3>1. CASE n = m
      BY <2>1, <3>1, <1>6, <1>7, <1>8, <1>9, <1>10, <1>11, <1>12, <1>13 DEF Handler
    <3>2. CASE n # m
      BY <2>1, <3>2, <1>3, <1>15
    <3> QED BY <3>1, <3>2
  <2>2. ASSUME NEW n \in Nodes, Lose(n) PROVE RunInv(m)'
    BY <2>2, <1>3, <1>14, <1>15
  <2>3. ASSUME NEW n \in Nodes, NEW j \in Jobs, Claim(n, j) PROVE RunInv(m)'
    BY <2>3, <1>3, <1>5, <1>15
  <2>4. ASSUME NEW n \in Nodes, NEW k \in Keys, Restart(n, k) PROVE RunInv(m)'
    BY <2>4, <1>3, <1>4, <1>15
  <2>5. CASE \/ UNCHANGED vars \/ (\E j \in Jobs : Lapse(j)) \/ (\E s \in Secrets : Destroy(s))
             \/ \E n \in Nodes : \/ OpenWrite(n) \/ AbortWrite(n)
                                 \/ \E s \in Secrets : CommitWrite(n, s)
    BY <2>5, <1>3, <1>16
  <2>6. ASSUME NEW n \in Nodes,
               \/ OpenWrite(n) \/ AbortWrite(n) \/ Handler(n) \/ Lose(n)
               \/ \E s \in Secrets : CommitWrite(n, s)
               \/ \E j \in Jobs : StartRekey(n, j) \/ Claim(n, j)
               \/ \E k \in Keys : Restart(n, k)
        PROVE  RunInv(m)'
    <3>1. CASE OpenWrite(n) \/ AbortWrite(n) \/ \E s \in Secrets : CommitWrite(n, s)
      BY <2>5, <3>1
    <3>2. CASE Handler(n) \/ Lose(n)
      BY <2>1, <2>2, <3>2
    <3>3. CASE \E j \in Jobs : StartRekey(n, j) \/ Claim(n, j)
      BY <1>2, <2>3, <3>3
    <3>4. CASE \E k \in Keys : Restart(n, k)
      BY <2>4, <3>4
    <3> QED BY <2>6, <3>1, <3>2, <3>3, <3>4
  <2> QED BY <2>5, <2>6 DEF Next

\* Open insertions, the fence and the proof of the Job it names.
LEMMA FenceStep ==
    ASSUME ~Mail, RekeyInv, [Next]_vars
    PROVE  FenceInv' /\ ProofStands' /\ \A m \in Nodes : WriteInv(m)'
<1> USE DEF RekeyInv
<1>1. JobsKept
  BY JobsStep
<1>2. ASSUME NEW n \in Nodes, NEW j \in Jobs, StartRekey(n, j)
      PROVE  FenceInv' /\ ProofStands' /\ \A m \in Nodes : WriteInv(m)'
  <2>1. /\ jobs'[j].status = "queued" /\ jobs'[j].primary = primary[n]
        /\ fence'.job = j /\ fence'.required = primary[n] /\ write' = write
    BY <1>2 DEF StartRekey, NoJob, TypeOK
  <2>2. primary[n] \in Keys /\ j # 0
    BY SecretRekeyAssumption, SMTT(30), SMTT(20) DEF TypeOK, Jobs
  <2>3. \A m \in Nodes : write[m] = None
    BY <1>2 DEF StartRekey, HoldsFence
  <2> QED BY <2>1, <2>2, <2>3 DEF FenceInv, ProofStands, WriteInv
<1>3. CASE fence' = fence
  <2>1. FenceInv'
    <3>1. fence.job # 0 => fence.job \in Jobs
      BY SMTT(30), SMTT(20) DEF TypeOK, Jobs
    <3> QED BY <1>1, <1>3, <3>1 DEF FenceInv, JobsKept
  <2>2. ASSUME NEW m \in Nodes PROVE WriteInv(m)'
    <3>1. CASE OpenWrite(m)
      BY <1>3, <3>1 DEF OpenWrite, WriteInv, TypeOK
    <3>2. CASE write'[m] \in {write[m], None}
      BY <1>3, <3>2 DEF WriteInv
    <3>3. ASSUME NEW n \in Nodes,
                 \/ (OpenWrite(n) /\ n # m) \/ AbortWrite(n) \/ Lose(n)
                 \/ \E s \in Secrets : CommitWrite(n, s)
          PROVE  write'[m] \in {write[m], None}
      BY <3>3 DEF OpenWrite, AbortWrite, Lose, CommitWrite, TypeOK
    <3>4. CASE UNCHANGED write
      BY <3>2, <3>4
    <3> QED
      BY <3>1, <3>2, <3>3, <3>4, ZenonT(30)
      DEF Next, Handler, Destroy, Restart, Claim, Lapse, Fail, Begin, ListTargets, StartRekey,
          CheckFence, Replace, Checkpoint, Prove, Finish, Rest, vars
  <2>3. ProofStands'
    <3> SUFFICES ASSUME fence.job # 0, jobs'[fence.job].status = "succeeded"
                 PROVE  NotUnder(fence.required)' = {}
      BY <1>3 DEF ProofStands
    <3>1. Shrinks
      BY <1>3, ShrinkStep
    <3>2. CASE jobs[fence.job].status = "succeeded"
      BY <3>1, <3>2 DEF ProofStands, Shrinks
    <3>3. CASE jobs[fence.job].status # "succeeded"
      <4>1. fence.job \in Jobs /\ jobs[fence.job] \in RekeyJob
        BY SMTT(30), SMTT(20) DEF TypeOK, Jobs
      <4>2. \E n \in Nodes : Finish(n)
        <5>1. ASSUME NEW n \in Nodes, NEW j \in Jobs, StartRekey(n, j) PROVE FALSE
          <6>1. \A i \in Jobs : jobs'[i] = jobs[i] \/ jobs'[i].status = "queued"
            BY <5>1 DEF StartRekey, NoJob, TypeOK
          <6> QED BY <3>3, <4>1, <6>1
        <5>2. ASSUME NEW n \in Nodes, NEW j \in Jobs, Claim(n, j) PROVE FALSE
          <6>1. \A i \in Jobs : jobs'[i] = jobs[i] \/ jobs'[i].status = "running"
            BY <5>2 DEF Claim, TypeOK, RekeyJob
          <6> QED BY <3>3, <4>1, <6>1
        <5>3. ~(\E j \in Jobs : Lapse(j))
          BY <3>3, <4>1, SMTT(30), SMTT(20) DEF Lapse, TypeOK, RekeyJob
        <5>4. ASSUME NEW n \in Nodes, Checkpoint(n) PROVE FALSE
          <6>1. \A i \in Jobs : jobs'[i].status = jobs[i].status
            <7>1. SUFFICES ASSUME NEW i \in Jobs PROVE jobs'[i].status = jobs[i].status
              OBVIOUS
            <7>2. jobs[i] \in RekeyJob
              BY DEF TypeOK
            <7>3. jobs'[i] = jobs[i] \/ jobs'[i] = [jobs[i] EXCEPT
                      !.after = run[n].after, !.processed = run[n].processed]
              <8>1. CASE UNCHANGED jobs
                BY <8>1
              <8>2. CASE jobs' = [jobs EXCEPT ![run[n].job].after = run[n].after,
                                              ![run[n].job].processed = run[n].processed]
                BY <8>2 DEF TypeOK
              <8> QED BY <5>4, <8>1, <8>2 DEF Checkpoint
            <7> QED BY <7>2, <7>3 DEF RekeyJob
          <6> QED BY <3>3, <4>1, <6>1
        <5>5. ~(UNCHANGED jobs)
          BY <3>3
        <5> QED
          BY <5>1, <5>2, <5>3, <5>4, <5>5, ZenonT(30)
          DEF Next, Handler, OpenWrite, AbortWrite, CommitWrite, Destroy, Restart, Fail,
              Begin, ListTargets, CheckFence, Replace, Prove, Lose, Rest, vars
      <4>3. PICK n \in Nodes : Finish(n)
        BY <4>2
      <4>4. Holds(n) /\ run[n].job = fence.job
        BY <3>3, <4>1, <4>3 DEF Finish, TypeOK
      <4>5. run[n].outcome = "succeeded"
        <5>1. jobs'[fence.job] = Finished(jobs[fence.job], n, run[n].outcome)
          BY <4>1, <4>3, <4>4 DEF Finish, TypeOK
        <5>2. Finished(jobs[fence.job], n, run[n].outcome).status = "succeeded"
          BY <5>1
        <5> QED BY <4>1, <5>2 DEF Finished, RekeyJob
      <4>6. NotUnder(fence.required) = {}
        BY <4>3, <4>4, <4>5 DEF Finish, RunInv
      <4> QED BY <3>1, <4>6 DEF Shrinks
    <3> QED BY <3>2, <3>3
  <2> QED BY <2>1, <2>2, <2>3
<1> QED
  BY <1>2, <1>3, ZenonT(30)
  DEF Next, Handler, OpenWrite, AbortWrite, CommitWrite, Destroy, Restart, Claim, Lapse, Fail,
      Begin, ListTargets, CheckFence, Replace, Checkpoint, Prove, Finish, Lose, Rest, vars

----------------------------------------------------------------------------
(* Theorems *)

\* A database without a rekey, and idle nodes, satisfy the invariant.
LEMMA RekeyInit == ASSUME ~Mail, Init PROVE RekeyInv
<1> USE SecretRekeyAssumption
<1>1. TypeOK
  <2>1. Idle \in Run /\ NoJob \in RekeyJob
    BY DEF Idle, Run, NoJob, RekeyJob
  <2> QED BY <2>1, SMTT(30), SMTT(20) DEF Init, TypeOK
<1>2. \A n \in Nodes : RunInv(n) /\ WriteInv(n)
  BY DEF Init, RunInv, WriteInv, Idle, Working
<1> QED BY <1>1, <1>2 DEF Init, RekeyInv, FenceInv, ProofStands

\* The invariant the two theorems rest on: what a handler or an insertion
\* read of the fence is still so wherever it relies on it.
THEOREM RekeyInvariant ==
    ASSUME ~Mail
    PROVE  Spec => []RekeyInv
<1>1. Init => RekeyInv
  BY RekeyInit
<1>2. RekeyInv /\ [Next]_vars => RekeyInv'
  <2> SUFFICES ASSUME RekeyInv, [Next]_vars PROVE RekeyInv'
    OBVIOUS
  <2>1. TypeOK'
    BY TypeStep DEF RekeyInv
  <2>2. \A m \in Nodes : RunInv(m)'
    BY RunStep
  <2>3. FenceInv' /\ ProofStands' /\ \A m \in Nodes : WriteInv(m)'
    BY FenceStep
  <2> QED BY <2>1, <2>2, <2>3 DEF RekeyInv
<1> QED BY <1>1, <1>2, PTL DEF Spec

\* Once an MFA rekey has succeeded, and until the next one starts, no live
\* credential is sealed with another key than the primary, for any number
\* of nodes, keys, rows and rotations.
THEOREM MFAProofStands ==
    ASSUME ~Mail
    PROVE  Spec => []ProofStands
<1>1. RekeyInv => ProofStands
  BY DEF RekeyInv
<1> QED BY <1>1, RekeyInvariant, PTL

\* While the MFA fence requires a primary, no step seals a credential with
\* another key.
THEOREM MFANonPrimaryShrinks ==
    ASSUME ~Mail
    PROVE  Spec => NonPrimaryShrinks
<1>1. RekeyInv /\ [Next]_vars =>
        [fence.required # None /\ fence' = fence
           => NotUnder(fence.required)' \subseteq NotUnder(fence.required)]_vars
  <2>1. RekeyInv /\ fence.required # None => fence.job # 0
    BY DEF RekeyInv, FenceInv
  <2> QED BY <2>1, ShrinkStep DEF Shrinks
<1> QED BY <1>1, RekeyInvariant, PTL DEF Spec, NonPrimaryShrinks

----------------------------------------------------------------------------
(* References: with the mail store's own counts, and with the rows counted *)

Fields == {"pc", "job", "attempt", "after", "processed", "total", "page", "more", "outcome"}

\* A handler's page holds claims, and it has one left where it uses one.
\* Nothing is said of the sum it reads of the counts, which is a fold.
Listed(r) ==
    /\ DOMAIN r = Fields
    /\ r.page \in SUBSET Claims
    /\ r.pc \in {"check", "replace"} => r.page # {}

\* The rows sealed with a key.
Rows(rows, k) == {s \in Secrets : rows[s] = k}

\* The inductive invariant of the references.
RefInv ==
    /\ sealed \in [Secrets -> Keys \cup {"unused", "gone"}]
    /\ refs = [k \in Keys |-> IF Mail THEN Cardinality(Rows(sealed, k)) ELSE 0]
    /\ primary \in [Nodes -> Keys] /\ write \in [Nodes -> Keys \cup {None}]
    /\ DOMAIN run = Nodes
    /\ \A n \in Nodes : Listed(run[n])

\* Sealing one row with another key, and counting the two keys, keeps every
\* count the number of rows under the key.
LEMMA CountMoves ==
    ASSUME RefInv, NEW s \in Secrets, NEW new \in Keys \cup {"gone"},
           sealed' = [sealed EXCEPT ![s] = new], refs' = Counted(sealed[s], new)
    PROVE  /\ sealed' \in [Secrets -> Keys \cup {"unused", "gone"}]
           /\ refs' = [k \in Keys |-> IF Mail THEN Cardinality(Rows(sealed', k)) ELSE 0]
<1>1. sealed' \in [Secrets -> Keys \cup {"unused", "gone"}]
  BY DEF RefInv
<1>2. CASE ~Mail
  BY <1>1, <1>2 DEF Counted, RefInv
<1>3. CASE Mail
  <2>1. ASSUME NEW k \in Keys
        PROVE  Cardinality(Rows(sealed', k)) = Cardinality(Rows(sealed, k))
                 + (IF k = new THEN 1 ELSE 0) - (IF k = sealed[s] THEN 1 ELSE 0)
    <3> DEFINE before == Rows(sealed, k)
               after == Rows(sealed', k)
    <3>1. IsFiniteSet(before) /\ Cardinality(before) \in Nat
      <4>1. before \subseteq Secrets
        BY DEF Rows
      <4> HIDE DEF before
      <4> QED BY <4>1, FS_Subset, FS_CardinalityType, SecretRekeyAssumption
    <3>2. s \in before <=> sealed[s] = k
      BY DEF Rows
    <3>3. after = IF k = new THEN before \cup {s} ELSE before \ {s}
      BY DEF Rows, RefInv
    <3> HIDE DEF before, after
    <3>4. /\ Cardinality(before \cup {s}) =
               IF s \in before THEN Cardinality(before) ELSE Cardinality(before) + 1
          /\ Cardinality(before \ {s}) =
               IF s \in before THEN Cardinality(before) - 1 ELSE Cardinality(before)
      BY <3>1, FS_AddElement, FS_RemoveElement
    <3>5. Cardinality(after) = Cardinality(before)
                 + (IF k = new THEN 1 ELSE 0) - (IF k = sealed[s] THEN 1 ELSE 0)
      BY <3>1, <3>2, <3>3, <3>4
    <3> QED BY <3>5 DEF before, after
  <2>2. refs' = [k \in Keys |-> Cardinality(Rows(sealed, k))
                 + (IF k = new THEN 1 ELSE 0) - (IF k = sealed[s] THEN 1 ELSE 0)]
    BY <1>3 DEF Counted, RefInv
  <2> DEFINE A(k) == Cardinality(Rows(sealed, k))
                 + (IF k = new THEN 1 ELSE 0) - (IF k = sealed[s] THEN 1 ELSE 0)
             B(k) == IF Mail THEN Cardinality(Rows(sealed', k)) ELSE 0
  <2>3. \A k \in Keys : A(k) = B(k)
    BY <1>3, <2>1
  <2>4. refs' = [k \in Keys |-> A(k)]
    BY <2>2
  <2> HIDE DEF A, B
  <2>5. refs' = [k \in Keys |-> B(k)]
    BY <2>3, <2>4
  <2> QED BY <1>1, <2>5 DEF B
<1> QED BY <1>2, <1>3

\* What the handlers keep of their pages: those a process starts or ends
\* with, and those it reads, uses and goes on with.
LEMMA PagesStep ==
    ASSUME RefInv, [Next]_vars
    PROVE  DOMAIN run' = Nodes /\ \A m \in Nodes : Listed(run'[m])
<1> DEFINE Good == DOMAIN run' = Nodes /\ \A m \in Nodes : Listed(run'[m])
<1>1. ASSUME NEW n \in Nodes, NEW r, Listed(r), run' = [run EXCEPT ![n] = r] PROVE Good
  BY <1>1 DEF RefInv
<1>2. Listed(Idle)
  BY DEF Listed, Idle, Fields
<1>3. ASSUME NEW n \in Nodes, NEW o, Return(n, o) PROVE Good
  <2>1. \A j, a : Listed([Idle EXCEPT !.pc = "finish", !.job = j, !.attempt = a, !.outcome = o])
    BY DEF Listed, Idle, Fields
  <2> HIDE DEF Good
  <2> QED BY <1>1, <1>3, <2>1 DEF Return
<1>4. ASSUME run' = run PROVE Good
  BY <1>4 DEF RefInv
<1>5. ASSUME NEW n \in Nodes, run' = [run EXCEPT ![n] = Idle] PROVE Good
  BY <1>1, <1>2, <1>5
<1>6. ASSUME NEW n \in Nodes, NEW j \in Jobs, Claim(n, j) PROVE Good
  <2>1. \A a, b, c : Listed([Idle EXCEPT !.pc = "begin", !.job = j, !.attempt = a,
                                         !.after = b, !.processed = c])
    BY DEF Listed, Idle, Fields
  <2> DEFINE r == [Idle EXCEPT !.pc = "begin", !.job = j, !.attempt = jobs[j].attempts + 1,
                               !.after = jobs[j].after, !.processed = jobs[j].processed]
  <2>2. Listed(r) /\ run' = [run EXCEPT ![n] = r]
    BY <1>6, <2>1 DEF Claim
  <2> HIDE DEF Good, r
  <2> QED BY <1>1, <2>2
<1>7. ASSUME NEW n \in Nodes, Handler(n) PROVE Good
  <2>0. Listed(run[n]) /\ DOMAIN run = Nodes
    BY DEF RefInv
  <2>1. CASE Begin(n)
    <3>1. \A t : Listed([run[n] EXCEPT !.pc = "list", !.total = t])
      BY <2>0 DEF Listed, Fields
    <3>2. ASSUME run' = [run EXCEPT ![n].pc = "list",
                  ![n].total = run[n].processed + NonPrimaryReferences(primary[n])]
          PROVE  Good
      <4> DEFINE t == run[n].processed + NonPrimaryReferences(primary[n])
      <4> HIDE DEF t
      <4>1. run' = [run EXCEPT ![n].pc = "list", ![n].total = t]
        BY <3>2 DEF t
      <4>2. run' = [run EXCEPT ![n] = [run[n] EXCEPT !.pc = "list", !.total = t]]
        BY <4>1, <2>0
      <4> HIDE DEF Good
      <4> QED BY <1>1, <3>1, <4>2
    <3> HIDE DEF Good
    <3> QED BY <1>3, <2>1, <3>2 DEF Begin
  <2>2. CASE ListTargets(n)
    <3> DEFINE page == IF IsFenced(n) THEN Page(n) ELSE {}
               claims == {[row |-> s, key |-> sealed[s]] : s \in page}
               more == \E s \in NotUnder(primary[n]) \ page : s > run[n].after
               pc == IF page = {} THEN "prove" ELSE "check"
    <3>1. \A s \in page : s \in Secrets /\ sealed[s] \in Keys
      BY DEF Page, NotUnder
    <3>2. claims \in SUBSET Claims /\ (pc \in {"check", "replace"} => claims # {})
      <4>1. claims \in SUBSET Claims
        BY <3>1, SMTT(30), SMTT(20) DEF Claims
      <4>2. page # {} => claims # {}
        <5> HIDE DEF page
        <5> QED OBVIOUS
      <4>3. pc \in {"check", "replace"} => page # {}
        <5> HIDE DEF page
        <5> QED OBVIOUS
      <4> HIDE DEF page, claims, pc
      <4> QED BY <4>1, <4>2, <4>3
    <3>3. \/ Return(n, "permanent")
          \/ run' = [run EXCEPT ![n].page = claims, ![n].more = more, ![n].pc = pc]
      BY <2>2 DEF ListTargets
    <3> HIDE DEF page, claims, more, pc
    <3>4. Listed([run[n] EXCEPT !.page = claims, !.more = more, !.pc = pc])
      BY <2>0, <3>2 DEF Listed, Fields
    <3> HIDE DEF Good
    <3>5. ASSUME run' = [run EXCEPT ![n].page = claims, ![n].more = more, ![n].pc = pc]
          PROVE  Good
      <4>1. run' = [run EXCEPT ![n] = [run[n] EXCEPT !.page = claims, !.more = more, !.pc = pc]]
        BY <2>0, <3>5
      <4> QED BY <1>1, <3>4, <4>1
    <3>6. CASE Return(n, "permanent")
      BY <1>3, <3>6
    <3> QED BY <3>3, <3>5, <3>6 DEF Good
  <2>3. CASE CheckFence(n)
    <3>1. Listed([run[n] EXCEPT !.pc = "replace"])
      BY <2>0, <2>3 DEF Listed, Fields, CheckFence
    <3> HIDE DEF Good
    <3> QED BY <1>1, <1>3, <2>3, <3>1 DEF CheckFence
  <2>4. CASE Replace(n)
    <3>1. \A a, p, c : c \in SUBSET Claims => Listed([run[n] EXCEPT !.pc = "checkpoint",
                !.after = a, !.processed = p, !.page = c])
      BY <2>0 DEF Listed, Fields
    <3>2. run[n].page \ {Target(n)} \in SUBSET Claims
      BY <2>0 DEF Listed
    <3> DEFINE r == [run[n] EXCEPT !.pc = "checkpoint", !.after = Target(n).row,
                        !.processed = @ + 1, !.page = @ \ {Target(n)}]
    <3>3. Listed(r)
      BY <3>1, <3>2
    <3>4. run' = [run EXCEPT ![n] = r]
      BY <2>0, <2>4 DEF Replace
    <3> HIDE DEF Good, r
    <3> QED BY <1>1, <3>3, <3>4
  <2>5. CASE Checkpoint(n)
    <3>1. \A p : (p \in {"check", "replace"} => run[n].page # {})
                   => Listed([run[n] EXCEPT !.pc = p])
      BY <2>0 DEF Listed, Fields
    <3> DEFINE p == IF run[n].page # {} THEN "check" ELSE IF run[n].more THEN "list" ELSE "prove"
    <3>2. Listed([run[n] EXCEPT !.pc = p])
      BY <3>1
    <3>3. Return(n, "retryable") \/ run' = [run EXCEPT ![n].pc = p]
      BY <2>5 DEF Checkpoint
    <3> HIDE DEF Good, p
    <3> QED BY <1>1, <1>3, <3>2, <3>3
  <2>6. CASE Prove(n) \/ Fail(n)
    <3> HIDE DEF Good
    <3> QED BY <1>3, <2>6 DEF Prove, Fail
  <2>7. CASE Finish(n)
    <3> HIDE DEF Good
    <3> QED BY <1>5, <2>7 DEF Finish
  <2> HIDE DEF Good
  <2> QED BY <1>7, <2>1, <2>2, <2>3, <2>4, <2>5, <2>6, <2>7 DEF Handler
<1> HIDE DEF Good
<1>8. Good
  <2>1. CASE \E n \in Nodes : OpenWrite(n) \/ AbortWrite(n) \/ \E s \in Secrets : CommitWrite(n, s)
    BY <1>4, <2>1 DEF OpenWrite, AbortWrite, CommitWrite
  <2>2. CASE \E n \in Nodes : Handler(n)
    BY <1>7, <2>2
  <2>3. CASE \E n \in Nodes : Lose(n) \/ \E k \in Keys : Restart(n, k)
    BY <1>5, <2>3 DEF Lose, Restart
  <2>4. CASE \E n \in Nodes, j \in Jobs : StartRekey(n, j) \/ Claim(n, j)
    BY <1>4, <1>6, <2>4 DEF StartRekey
  <2>5. CASE (\E s \in Secrets : Destroy(s)) \/ \E j \in Jobs : Lapse(j)
    BY <1>4, <2>5 DEF Destroy, Lapse
  <2>6. CASE UNCHANGED vars
    BY <1>4, <2>6 DEF vars
  <2> QED BY <2>1, <2>2, <2>3, <2>4, <2>5, <2>6 DEF Next
<1> QED BY <1>8 DEF Good

\* A step seals at most one row, and counts what it did to it.
LEMMA RefStep ==
    ASSUME RefInv, [Next]_vars
    PROVE  RefInv'
<1>1. DOMAIN run' = Nodes /\ \A m \in Nodes : Listed(run'[m])
  BY PagesStep
<1>2. primary' \in [Nodes -> Keys] /\ write' \in [Nodes -> Keys \cup {None}]
  <2>1. primary \in [Nodes -> Keys] /\ write \in [Nodes -> Keys \cup {None}]
    BY DEF RefInv
  <2>2. CASE \E n \in Nodes : OpenWrite(n) \/ AbortWrite(n) \/ \E s \in Secrets : CommitWrite(n, s)
    BY <2>1, <2>2 DEF OpenWrite, AbortWrite, CommitWrite
  <2>3. CASE \E n \in Nodes : Handler(n)
    BY <2>1, <2>3 DEF Handler, Begin, ListTargets, CheckFence, Replace, Checkpoint, Prove,
       Finish, Fail, Rest
  <2>4. CASE \E n \in Nodes : Lose(n) \/ \E k \in Keys : Restart(n, k)
    BY <2>1, <2>4 DEF Lose, Restart
  <2>5. CASE \E n \in Nodes, j \in Jobs : StartRekey(n, j) \/ Claim(n, j)
    BY <2>1, <2>5 DEF StartRekey, Claim
  <2>6. CASE (\E s \in Secrets : Destroy(s)) \/ \E j \in Jobs : Lapse(j)
    BY <2>1, <2>6 DEF Destroy, Lapse
  <2>7. CASE UNCHANGED vars
    BY <2>1, <2>7 DEF vars
  <2>8. primary' \in [Nodes -> Keys] /\ write' \in [Nodes -> Keys \cup {None}]
    BY <2>2, <2>3, <2>4, <2>5, <2>6, <2>7 DEF Next
  <2> QED BY <2>8
<1> DEFINE Exact == /\ sealed' \in [Secrets -> Keys \cup {"unused", "gone"}]
                    /\ refs' = [k \in Keys |-> IF Mail THEN Cardinality(Rows(sealed', k)) ELSE 0]
<1>3. ASSUME sealed' = sealed, refs' = refs PROVE Exact
  BY <1>3 DEF RefInv
<1>4. ASSUME NEW s \in Secrets, NEW new \in Keys \cup {"gone"},
             sealed' = [sealed EXCEPT ![s] = new], refs' = Counted(sealed[s], new)
      PROVE  Exact
  BY <1>4, CountMoves
<1>5. ASSUME NEW n \in Nodes, NEW s \in Secrets, CommitWrite(n, s) PROVE Exact
  <2>1. write[n] \in Keys
    BY <1>5 DEF CommitWrite, RefInv
  <2> HIDE DEF Exact
  <2> QED BY <1>4, <1>5, <2>1 DEF CommitWrite
<1>6. ASSUME NEW s \in Secrets, Destroy(s) PROVE Exact
  <2> HIDE DEF Exact
  <2> QED BY <1>4, <1>6 DEF Destroy
<1>7. ASSUME NEW n \in Nodes, Replace(n) PROVE Exact
  <2>1. run[n].page \in SUBSET Claims /\ run[n].page # {} /\ primary[n] \in Keys
    BY <1>7 DEF Replace, RefInv, Listed
  <2>2. Target(n) \in Claims
    BY <2>1, TargetInPage
  <2>3. Target(n).row \in Secrets
    BY <2>2 DEF Claims
  <2> HIDE DEF Exact
  <2>4. CASE sealed[Target(n).row] = Target(n).key
    BY <1>4, <1>7, <2>1, <2>3, <2>4 DEF Replace
  <2>5. CASE sealed[Target(n).row] # Target(n).key
    BY <1>3, <1>7, <2>5 DEF Replace
  <2> QED BY <2>4, <2>5
<1> HIDE DEF Exact
<1>8. Exact
  <2>1. CASE \E n \in Nodes : OpenWrite(n) \/ AbortWrite(n) \/ \E s \in Secrets : CommitWrite(n, s)
    BY <1>3, <1>5, <2>1 DEF OpenWrite, AbortWrite
  <2>2. CASE \E n \in Nodes : Handler(n)
    BY <1>3, <1>7, <2>2 DEF Handler, Begin, ListTargets, CheckFence, Checkpoint, Prove,
       Finish, Fail
  <2>3. CASE \E n \in Nodes : Lose(n) \/ \E k \in Keys : Restart(n, k)
    BY <1>3, <2>3 DEF Lose, Restart
  <2>4. CASE \E n \in Nodes, j \in Jobs : StartRekey(n, j) \/ Claim(n, j)
    BY <1>3, <2>4 DEF StartRekey, Claim
  <2>5. CASE (\E s \in Secrets : Destroy(s)) \/ \E j \in Jobs : Lapse(j)
    BY <1>3, <1>6, <2>5 DEF Lapse
  <2>6. CASE UNCHANGED vars
    BY <1>3, <2>6 DEF vars
  <2> QED BY <2>1, <2>2, <2>3, <2>4, <2>5, <2>6 DEF Next
<1> QED BY <1>1, <1>2, <1>8 DEF RefInv, Exact

\* The counts the mail store keeps per key are the numbers of live payloads
\* sealed with the key, whatever insertions, deletions and replacements
\* interleave; so is what the MFA store counts of its rows.
THEOREM ReferencesAreExact == Spec => []ReferencesExact
<1>1. Init => RefInv
  <2> SUFFICES ASSUME Init PROVE RefInv
    OBVIOUS
  <2>1. Listed(Idle)
    BY DEF Listed, Idle, Fields
  <2>2. refs = [k \in Keys |-> IF Mail THEN Cardinality(Rows(sealed, k)) ELSE 0]
    BY DEF Init, Under, Rows
  <2> QED BY <2>1, <2>2 DEF Init, RefInv
<1>2. RefInv /\ [Next]_vars => RefInv'
  BY RefStep
<1>3. RefInv => ReferencesExact
  BY DEF RefInv, ReferencesExact, References, Under, Rows
<1> QED BY <1>1, <1>2, <1>3, PTL DEF Spec

=============================================================================
