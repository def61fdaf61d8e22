-------------------------- MODULE WorkspaceObjects --------------------------
(***************************************************************************)
(* The stored contents of an Attempt Workspace: every write of a file      *)
(* reserves an object, stages its content in object storage, records it as *)
(* ready and only then points the file at it, inside the idempotent        *)
(* mutation.  What the file pointed at before is retired, and executions   *)
(* of the file purge claim, remove and forget what is due and not referred *)
(* to.  Requests end anywhere, statements of the purge fail or never come, *)
(* and a stale claim is taken over by the next execution.                  *)
(*                                                                         *)
(* Times are timers that Tick counts down.  An object stands for the       *)
(* request that mints it.                                                  *)
(***************************************************************************)
EXTENDS Integers, FiniteSets, FiniteSetsExt

CONSTANTS Objects, NoObject,  \* the objects, one for each upload request
          Slots,              \* the files of the Workspace
          Readable,           \* the files that are read
          Keys, NoKey,        \* idempotency keys, and the audit event each mutation begins with
          Tokens, NoToken,    \* claim tokens of the purge's executions
          Stage,              \* AttemptWorkspaceStageLifetime
          Window,             \* AttemptWorkspaceReclaimSafetyWindow
          ClaimLease,         \* AttemptWorkspaceCleanupClaimLease
          Retention,          \* how long a command outcome is kept
          Request,            \* the longest an upload request runs
          Reading,            \* the longest between a reader's lookup and its use of the content
          Limit,              \* objects one execution claims
          Faults              \* bound on failures of the purge

ASSUME ObjectsAssumption ==
  /\ Slots # {} /\ Readable \subseteq Slots
  /\ NoObject \notin Objects /\ NoKey \notin Keys /\ NoToken \notin Tokens
  /\ {Stage, Window, ClaimLease, Retention, Request, Reading, Limit, Faults} \subseteq Nat

VARIABLES row,       \* exam_attempt_workspace_objects
          stored,    \* the objects whose content is in object storage
          entry,     \* current_object_id of each file
          sealed,    \* whether the Submission is sealed
          manifest,  \* the objects of its manifest
          command,   \* the mutation each key was first used for
          outcome,   \* command_outcomes
          request,   \* the upload requests
          reader,    \* a request that has looked a file up and not opened it yet
          cleaner,   \* the executions of the purge
          faults     \* failures of the purge so far

vars == <<row, stored, entry, sealed, manifest, command, outcome, request, reader, cleaner, faults>>

NoRow == [state |-> "none", ready |-> FALSE, timer |-> 0, token |-> NoToken, group |-> NoKey]
NoCommand == [used |-> FALSE, slot |-> CHOOSE s \in Slots : TRUE, seen |-> NoObject]
NoOutcome == [kept |-> FALSE, objs |-> {}, timer |-> 0]
NoReader == [obj |-> NoObject, timer |-> 0]
Idle == [pc |-> "idle", left |-> {}, current |-> NoObject]

\* An admitted Workspace: its files, if any, are still the Starter's.
Init ==
  /\ row = [o \in Objects |-> NoRow]
  /\ stored = {}
  /\ entry = [s \in Slots |-> NoObject]
  /\ sealed = FALSE /\ manifest = {}
  /\ command = [k \in Keys |-> NoCommand]
  /\ outcome = [k \in Keys |-> NoOutcome]
  /\ request = [o \in Objects |-> [pc |-> "idle", key |-> NoKey, timer |-> 0]]
  /\ reader = NoReader
  /\ cleaner = [t \in Tokens |-> Idle]
  /\ faults = 0

\* What keeps an object: a file, the sealed manifest, a retained outcome that
\* names it or whose mutation retired it with its directory.
Referenced(o) ==
  \/ \E s \in Slots : entry[s] = o
  \/ o \in manifest
  \/ \E k \in Keys : outcome[k].kept /\ (o \in outcome[k].objs \/ row[o].group = k)
-----------------------------------------------------------------------------
\* The upload of a file.

Goto(o, pc) == request' = [request EXCEPT ![o].pc = pc]
Finish(o) == request' = [request EXCEPT ![o] = [pc |-> "done", key |-> NoKey, timer |-> 0]]

\* A request arrives under a key: the first one fixes what the key stands for
\* (the file and the version it replaces), a retry carries the same.
Begin(o, k) ==
  /\ request[o].pc = "idle"
  /\ request' = [request EXCEPT ![o] = [pc |-> "reserve", key |-> k, timer |-> Request]]
  /\ \/ command[k].used /\ UNCHANGED command
     \/ /\ ~command[k].used
        /\ \E s \in Slots : command' = [command EXCEPT ![k] = [used |-> TRUE, slot |-> s, seen |-> entry[s]]]
  /\ UNCHANGED <<row, stored, entry, sealed, manifest, outcome, reader, cleaner, faults>>

\* ReserveObject, under the Attempt's access checks.
Reserve(o) ==
  /\ request[o].pc = "reserve"
  /\ \/ /\ ~sealed
        /\ row' = [row EXCEPT ![o].state = "staged", ![o].timer = Stage + Window]
        /\ Goto(o, "write")
     \/ sealed /\ Finish(o) /\ UNCHANGED row
  /\ UNCHANGED <<stored, entry, sealed, manifest, command, outcome, reader, cleaner, faults>>

\* StageAttemptWorkspaceObject: the content is written whole, or the request
\* gives the reservation back, with or without content behind it.
Write(o) ==
  /\ request[o].pc = "write"
  /\ \/ stored' = stored \cup {o} /\ Goto(o, "ready")
     \/ stored' \in {stored, stored \cup {o}} /\ Goto(o, "mark")
  /\ UNCHANGED <<row, entry, sealed, manifest, command, outcome, reader, cleaner, faults>>

\* A staged object whose reservation has not expired.
Unexpired(o) == row[o].state = "staged" /\ row[o].timer > Window

\* MarkObjectReady.
Ready(o) ==
  /\ request[o].pc = "ready"
  /\ \/ ~sealed /\ Unexpired(o) /\ row' = [row EXCEPT ![o].ready = TRUE] /\ Goto(o, "apply")
     \/ (sealed \/ ~Unexpired(o)) /\ Goto(o, "mark") /\ UNCHANGED row
  /\ UNCHANGED <<stored, entry, sealed, manifest, command, outcome, reader, cleaner, faults>>

\* Mutated form: the state and expiry of the staged object are not checked again.
ConsumableReady(o) == row[o].ready

\* consumeAttemptWorkspaceObject's conditions.
Consumable(o) == row[o].ready /\ Unexpired(o)

\* Mutated form: what is retired is due at once.
RetireNow(r, old, g) ==
  [o \in Objects |-> IF o \in old THEN [r[o] EXCEPT !.state = "reclaimable", !.timer = 0, !.group = g] ELSE r[o]]

\* retireAttemptWorkspaceObject, or a directory's retirement under one audit event.
Retire(r, old, g) ==
  [o \in Objects |-> IF o \in old THEN [r[o] EXCEPT !.state = "reclaimable", !.timer = Window, !.group = g] ELSE r[o]]

\* The outcome is recorded with the mutation.
Keep(k, objs) == outcome' = [outcome EXCEPT ![k] = [kept |-> TRUE, objs |-> objs, timer |-> Retention]]

\* The mutation a create or replace performs: the file still is at the version
\* the command names, and the staged object becomes its content.
CanApply(o) ==
  LET c == command[request[o].key]
  IN ~sealed /\ ~outcome[request[o].key].kept /\ entry[c.slot] = c.seen /\ Consumable(o)

\* ApplyMutation: executed once and recorded; a replay and a conflict both
\* leave the staged object to be given back.
Apply(o) ==
  /\ request[o].pc = "apply"
  /\ \/ LET c == command[request[o].key]
            old == {c.seen} \ {NoObject}
        IN /\ CanApply(o)
           /\ row' = [Retire(row, old, NoKey) EXCEPT ![o].state = "current", ![o].timer = 0]
           /\ entry' = [entry EXCEPT ![c.slot] = o]
           /\ Keep(request[o].key, old \cup {o})
           /\ Finish(o)
     \/ ~CanApply(o) /\ Goto(o, "mark") /\ UNCHANGED <<row, entry, outcome>>
  /\ UNCHANGED <<stored, sealed, manifest, command, reader, cleaner, faults>>

\* MarkObjectReclaimable.
Mark(o) ==
  /\ request[o].pc = "mark"
  /\ row' = [row EXCEPT ![o] = IF @.state = "staged" /\ ~Referenced(o)
                               THEN [@ EXCEPT !.state = "reclaimable", !.timer = Window] ELSE @]
  /\ Finish(o)
  /\ UNCHANGED <<stored, entry, sealed, manifest, command, outcome, reader, cleaner, faults>>

\* The request dies, or a store call fails as unavailable: nothing is given back.
Lose(o) ==
  /\ request[o].pc \notin {"idle", "done"}
  /\ Finish(o)
  /\ UNCHANGED <<row, stored, entry, sealed, manifest, command, outcome, reader, cleaner, faults>>
-----------------------------------------------------------------------------
\* Deletions, the sealing of the Submission, readers and the outcome cleanup.

\* Deleting one file under a key of its own.
DeleteFile(k, s) ==
  /\ ~sealed /\ ~command[k].used /\ entry[s] # NoObject
  /\ command' = [command EXCEPT ![k] = [used |-> TRUE, slot |-> s, seen |-> entry[s]]]
  /\ row' = Retire(row, {entry[s]}, NoKey)
  /\ Keep(k, {entry[s]})
  /\ entry' = [entry EXCEPT ![s] = NoObject]
  /\ UNCHANGED <<stored, sealed, manifest, request, reader, cleaner, faults>>

\* Deleting the directory that holds every file: the objects carry the
\* mutation's audit event instead of being listed in its outcome.
DeleteSubtree(k) ==
  /\ ~sealed /\ ~command[k].used
  /\ command' = [command EXCEPT ![k].used = TRUE]
  /\ row' = Retire(row, {entry[s] : s \in Slots} \ {NoObject}, k)
  /\ Keep(k, {})
  /\ entry' = [s \in Slots |-> NoObject]
  /\ UNCHANGED <<stored, sealed, manifest, request, reader, cleaner, faults>>

\* The Submission's manifest takes every file's object.
Seal ==
  /\ ~sealed /\ sealed' = TRUE
  /\ manifest' = {entry[s] : s \in Slots} \ {NoObject}
  /\ UNCHANGED <<row, stored, entry, command, outcome, request, reader, cleaner, faults>>

\* ResolveFile: the object is looked up here and opened later.
Resolve(s) ==
  /\ reader.timer = 0 /\ entry[s] # NoObject
  /\ reader' = [obj |-> entry[s], timer |-> Reading]
  /\ UNCHANGED <<row, stored, entry, sealed, manifest, command, outcome, request, cleaner, faults>>

\* DeleteExpired, of the outcomes.
DeleteExpired(k) ==
  /\ outcome[k].kept /\ outcome[k].timer = 0
  /\ outcome' = [outcome EXCEPT ![k] = NoOutcome]
  /\ UNCHANGED <<row, stored, entry, sealed, manifest, command, request, reader, cleaner, faults>>
-----------------------------------------------------------------------------
\* The purge's phase for Attempt Workspace objects.

\* A reservation expired the window ago, a retirement past its window, or a
\* claim past its lease.
Due(o) == row[o].state \in {"staged", "reclaimable", "claimed"} /\ row[o].timer = 0

Claimable == {o \in Objects : Due(o) /\ ~Referenced(o)}

\* ClaimObjectsForCleanup, by an execution whose token no row carries.
Claim(t) ==
  /\ cleaner[t].pc = "idle" /\ \A o \in Objects : row[o].token # t
  /\ Claimable # {}
  /\ \E S \in SUBSET Claimable :
       /\ Cardinality(S) = Min({Limit, Cardinality(Claimable)})
       /\ row' = [o \in Objects |-> IF o \in S THEN [row[o] EXCEPT !.state = "claimed", !.timer = ClaimLease, !.token = t]
                                    ELSE row[o]]
       /\ cleaner' = [cleaner EXCEPT ![t] = [pc |-> "work", left |-> S, current |-> NoObject]]
  /\ UNCHANGED <<stored, entry, sealed, manifest, command, outcome, request, reader, faults>>

\* RemoveAttemptWorkspaceObject.
Remove(t) ==
  /\ cleaner[t].pc = "work"
  /\ \E o \in cleaner[t].left :
       /\ stored' = stored \ {o}
       /\ cleaner' = [cleaner EXCEPT ![t] = [pc |-> "complete", left |-> @.left \ {o}, current |-> o]]
  /\ UNCHANGED <<row, entry, sealed, manifest, command, outcome, request, reader, faults>>

\* The row CompleteObjectCleanup deletes.
Completed(t, o) == row[o].state = "claimed" /\ row[o].token = t /\ ~Referenced(o)

\* CompleteObjectCleanup: the row goes, has gone, or is a conflict that ends
\* the execution with the rest released.
Complete(t) ==
  LET o == cleaner[t].current IN
  /\ cleaner[t].pc = "complete"
  /\ row' = [row EXCEPT ![o] = IF Completed(t, o) THEN [NoRow EXCEPT !.state = "gone"] ELSE @]
  /\ cleaner' = [cleaner EXCEPT ![t].current = NoObject,
                                ![t].pc = IF Completed(t, o) \/ row[o].state = "gone" THEN "work" ELSE "release"]
  /\ UNCHANGED <<stored, entry, sealed, manifest, command, outcome, request, reader, faults>>

\* A removal fails with its result unknown, or a completion, a checkpoint or
\* the reservation of more work does: what was not sent to storage is released.
Fail(t) ==
  /\ faults < Faults /\ faults' = faults + 1
  /\ \/ /\ cleaner[t].pc = "work"
        /\ \E o \in cleaner[t].left :
             /\ stored' \in {stored, stored \ {o}}
             /\ cleaner' = [cleaner EXCEPT ![t] = [pc |-> "release", left |-> @.left \ {o}, current |-> NoObject]]
     \/ /\ cleaner[t].pc \in {"work", "complete"}
        /\ cleaner' = [cleaner EXCEPT ![t].pc = "release", ![t].current = NoObject]
        /\ UNCHANGED stored
  /\ UNCHANGED <<row, entry, sealed, manifest, command, outcome, request, reader>>

\* Mutated form: a release does not ask whose claim it gives back.
ReleasesAny(t, o) == row[o].state = "claimed"

\* ReleaseObjectCleanup's condition.
Releases(t, o) == row[o].state = "claimed" /\ row[o].token = t

\* The claims not worked on are given back one by one; a lost one ends it.
Release(t) ==
  /\ cleaner[t].pc = "release"
  /\ \E o \in cleaner[t].left :
       \/ /\ Releases(t, o)
          /\ row' = [row EXCEPT ![o].state = "reclaimable", ![o].timer = 0, ![o].token = NoToken]
          /\ cleaner' = [cleaner EXCEPT ![t].left = @ \ {o}]
       \/ ~Releases(t, o) /\ cleaner' = [cleaner EXCEPT ![t] = Idle] /\ UNCHANGED row
  /\ UNCHANGED <<stored, entry, sealed, manifest, command, outcome, request, reader, faults>>

\* The execution ends, or its process dies with its claims.
End(t) ==
  /\ cleaner[t].pc \in {"work", "release"} /\ cleaner[t].left = {}
  /\ cleaner' = [cleaner EXCEPT ![t] = Idle]
  /\ UNCHANGED <<row, stored, entry, sealed, manifest, command, outcome, request, reader, faults>>

Crash(t) ==
  /\ faults < Faults /\ faults' = faults + 1
  /\ cleaner[t].pc # "idle"
  /\ cleaner' = [cleaner EXCEPT ![t] = Idle]
  /\ UNCHANGED <<row, stored, entry, sealed, manifest, command, outcome, request, reader>>
-----------------------------------------------------------------------------
Down(n) == IF n > 0 THEN n - 1 ELSE 0
Running(o) == request[o].pc \notin {"idle", "done"}

\* One unit of time passes; no request outlives its bound.
Elapse ==
  /\ \A o \in Objects : Running(o) => request[o].timer > 0
  /\ row' = [o \in Objects |-> [row[o] EXCEPT !.timer = Down(@)]]
  /\ outcome' = [k \in Keys |-> [outcome[k] EXCEPT !.timer = Down(@)]]
  /\ request' = [o \in Objects |-> [request[o] EXCEPT !.timer = Down(@)]]
  /\ reader' = IF reader.timer > 1 THEN [reader EXCEPT !.timer = @ - 1] ELSE NoReader
  /\ UNCHANGED <<stored, entry, sealed, manifest, command, cleaner>>

\* An execution at work would lose its claim in this unit.
Overdue == \E t \in Tokens, o \in Objects : cleaner[t].pc # "idle" /\ row[o].token = t /\ row[o].timer <= 1

Tick == ~Overdue /\ Elapse /\ UNCHANGED faults

\* An execution that outlives its claims counts as a failure.
Overrun == Overdue /\ Elapse /\ faults < Faults /\ faults' = faults + 1

RequestStep(o) == Reserve(o) \/ Write(o) \/ Ready(o) \/ Apply(o) \/ Mark(o)
CleanerStep(t) == Remove(t) \/ Complete(t) \/ Release(t) \/ End(t)

Next ==
  \/ \E o \in Objects : (\E k \in Keys : Begin(o, k)) \/ RequestStep(o) \/ Lose(o)
  \/ \E k \in Keys : (\E s \in Slots : DeleteFile(k, s)) \/ DeleteSubtree(k) \/ DeleteExpired(k)
  \/ \E s \in Readable : Resolve(s)
  \/ \E t \in Tokens : Claim(t) \/ CleanerStep(t) \/ Fail(t) \/ Crash(t)
  \/ Seal \/ Tick \/ Overrun

Spec == Init /\ [][Next]_vars

-----------------------------------------------------------------------------
States == {"none", "staged", "current", "reclaimable", "claimed", "gone"}

\* The model's types; a claim token is carried by claimed rows only.
TypeOK ==
  /\ row \in [Objects -> [state : States, ready : BOOLEAN, timer : Nat,
                          token : Tokens \cup {NoToken}, group : Keys \cup {NoKey}]]
  /\ \A o \in Objects : (row[o].token # NoToken) <=> (row[o].state = "claimed")
  /\ stored \subseteq Objects
  /\ entry \in [Slots -> Objects \cup {NoObject}]
  /\ sealed \in BOOLEAN /\ manifest \subseteq Objects
  /\ command \in [Keys -> [used : BOOLEAN, slot : Slots, seen : Objects \cup {NoObject}]]
  /\ outcome \in [Keys -> [kept : BOOLEAN, objs : SUBSET Objects, timer : Nat]]
  /\ request \in [Objects -> [pc : {"idle", "reserve", "write", "ready", "apply", "mark", "done"},
                              key : Keys \cup {NoKey}, timer : Nat]]
  /\ reader \in [obj : Objects \cup {NoObject}, timer : Nat]
  /\ cleaner \in [Tokens -> [pc : {"idle", "work", "complete", "release"}, left : SUBSET Objects,
                             current : Objects \cup {NoObject}]]
  /\ faults \in 0..Faults

\* Whatever a file of the Workspace or the sealed Submission refers to has its
\* content in storage: no purge, however late, takes what a mutation put into
\* use, and no mutation puts into use what a purge may still take.
ReferencedIsStored ==
  \A o \in Objects : ((\E s \in Slots : entry[s] = o) \/ o \in manifest) => o \in stored

\* A reader that looked a file up finds the content it was given, although the
\* file was replaced or deleted meanwhile.
ReadFindsContent == reader.timer > 0 => reader.obj \in stored

\* Two executions never work under a valid claim on the same object: the one
\* that lost its claim changes no row of the one that took it over.
ClaimIsExclusive ==
  [][\A t \in Tokens, o \in Objects :
       row[o].token = t /\ row'[o].token # t => \/ row[o].timer = 0
                                                \/ cleaner[t].pc \in {"complete", "release"} /\ cleaner'[t] # cleaner[t]]_vars

=============================================================================
