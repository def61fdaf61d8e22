-------------------------- MODULE AttemptWorkspace --------------------------
(***************************************************************************)
(* The tree of a candidate's Attempt Workspace: entries with stable        *)
(* identities and movable paths, changed by idempotent mutations that are  *)
(* fenced by what the client has seen, each advancing the Workspace Cursor *)
(* and appending to a journal of bounded length.  A client learns the tree *)
(* from pages of a manifest pinned to one cursor, follows the journal, and *)
(* submits against a cursor.  Its requests are delayed, repeated and       *)
(* reordered.                                                              *)
(*                                                                         *)
(* A path is a sequence of names.  Identities and content versions are     *)
(* minted from the cursor of the mutation that makes them: only their      *)
(* being new matters.  What happens to the contents is WorkspaceObjects.   *)
(*                                                                         *)
(* The server forgets the outcome of a mutation a day after it, and a copy *)
(* of the request that comes later is new to it: then only the mutation's  *)
(* own fences stand between the copy and the tree.                         *)
(***************************************************************************)
EXTENDS Integers, Sequences, FiniteSets, SequencesExt

CONSTANTS PathOrder,       \* the paths NormalizeAttemptWorkspacePath accepts, in the database's order
          Starter,         \* the entries copied at admission, a sequence of [path, kind]
          Keys,            \* idempotency keys, one for each mutation of the client
          Operations,      \* the kinds of mutation the client uses
          MaximumEntries,  \* capacity.WorkspaceMaximumEntries
          Retained,        \* AttemptWorkspaceJournalRetention
          Page,            \* entries of a manifest or journal page
          Restarts,        \* bound on the restarts of the client
          Submissions,     \* bound on the times the client asks for submission
          Expiries         \* bound on the times the outcome of a key is forgotten

ASSUME WorkspaceAssumption ==
  /\ \A i \in DOMAIN Starter : Starter[i].path \in ToSet(PathOrder) /\ Starter[i].kind \in {"file", "directory"}
  /\ Retained \in Nat \ {0} /\ Page \in Nat \ {0} /\ Len(Starter) <= MaximumEntries
  /\ Restarts \in Nat /\ Submissions \in Nat /\ Expiries \in Nat

VARIABLES entries,   \* exam_attempt_workspace_entries: identity -> [path, kind, version]
          cursor,    \* exam_attempt_workspaces.cursor
          journal,   \* exam_attempt_workspace_journal: cursor -> change
          outcome,   \* command_outcomes: key -> cursor of its change, or 0
          sent,      \* the request of each key
          answered,  \* key -> the cursor the client was told, or 0
          replica,   \* the client's copy of the tree
          submits,   \* the submissions the client sent: [cursor, view]
          manifest,  \* the sealed Submission
          restarts,  \* restarts of the client so far
          effects,   \* history: the key whose mutation took each cursor
          forgotten  \* history: per key, how often its outcome was deleted

history == <<effects, forgotten>>
vars == <<entries, cursor, journal, outcome, sent, answered, replica, submits, manifest, restarts, history>>

NoRequest == [op |-> "none"]
Empty == <<>>  \* the empty function
Paths == ToSet(PathOrder)
Start == [mode |-> "start", cursor |-> 0, entries |-> Empty, after |-> 0]
NoManifest == [sealed |-> FALSE, cursor |-> 0, entries |-> Empty, for |-> {}]

Init ==
  /\ entries = [i \in DOMAIN Starter |-> [path |-> Starter[i].path, kind |-> Starter[i].kind, version |-> 0]]
  /\ cursor = 0 /\ journal = Empty
  /\ outcome = [k \in Keys |-> 0]
  /\ sent = [k \in Keys |-> NoRequest]
  /\ answered = [k \in Keys |-> 0]
  /\ replica = Start /\ submits = {} /\ manifest = NoManifest /\ restarts = 0
  /\ effects = Empty /\ forgotten = [k \in Keys |-> 0]

Minted == Len(Starter) + cursor + 1
Under(p, q) == p # q /\ IsPrefix(p, q)
Rebase(q, from, to) == to \o SubSeq(q, Len(from) + 1, Len(q))
Without(f, S) == [x \in DOMAIN f \ S |-> f[x]]
With(f, x, v) == [y \in DOMAIN f \cup {x} |-> IF y = x THEN v ELSE f[y]]
PathsOf(E) == {E[i].path : i \in DOMAIN E}
-----------------------------------------------------------------------------
\* The mutations, over the tree E.

\* ensureAttemptWorkspaceParent.
HasParent(E, p) == Len(p) = 1 \/ \E i \in DOMAIN E : E[i].path = Front(p) /\ E[i].kind = "directory"

\* The entry is where the client says it is (loadAttemptWorkspaceEntryForMutation
\* and the path fence).
Found(E, r) == r.id \in DOMAIN E /\ E[r.id].path = r.path

\* createAttemptWorkspaceFile and createAttemptWorkspaceDirectory: the unique
\* index refuses a path in use.
CanCreate(E, r) == HasParent(E, r.dest) /\ Cardinality(DOMAIN E) < MaximumEntries /\ r.dest \notin PathsOf(E)

\* Mutated form: the content version the client has seen is not compared.
CanReplaceAnyVersion(E, r) == Found(E, r) /\ E[r.id].kind = "file"

\* replaceAttemptWorkspaceFile.
CanReplace(E, r) == Found(E, r) /\ E[r.id].kind = "file" /\ E[r.id].version = r.version

\* The entries that move with the one at path p.
Moving(E, p) == {i \in DOMAIN E : IsPrefix(p, E[i].path)}

\* Mutated form: a directory may move into itself.
CanMoveInside(E, r) ==
  /\ Found(E, r) /\ HasParent(E, r.dest)
  /\ \A i \in Moving(E, r.path) :
       LET to == Rebase(E[i].path, r.path, r.dest)
       IN to \in Paths /\ \A j \in DOMAIN E \ Moving(E, r.path) : E[j].path # to

\* moveAttemptWorkspaceEntry.
CanMove(E, r) ==
  /\ Found(E, r) /\ HasParent(E, r.dest) /\ ~Under(r.path, r.dest)
  /\ \A i \in Moving(E, r.path) :
       LET to == Rebase(E[i].path, r.path, r.dest)
       IN to \in Paths /\ \A j \in DOMAIN E \ Moving(E, r.path) : E[j].path # to

\* deleteAttemptWorkspaceMutationEntry: a directory is empty or deleted
\* recursively at the exact cursor, a file has the expected version.
CanDelete(E, r) ==
  /\ Found(E, r) /\ (r.recursive => r.cursor = cursor)
  /\ \/ E[r.id].kind = "directory" /\ (r.recursive \/ Moving(E, r.path) = {r.id})
     \/ E[r.id].kind = "file" /\ ~r.recursive /\ E[r.id].version = r.version

CanApply(E, r) ==
  CASE r.op = "file" \/ r.op = "directory" -> CanCreate(E, r)
    [] r.op = "replace" -> CanReplace(E, r)
    [] r.op = "move" -> CanMove(E, r)
    [] r.op = "delete" -> CanDelete(E, r)

\* The tree after the mutation, at the cursor n it takes.
Effect(E, r, n) ==
  CASE r.op = "file" \/ r.op = "directory" ->
         With(E, Minted, [path |-> r.dest, kind |-> r.op, version |-> IF r.op = "file" THEN n ELSE 0])
    [] r.op = "replace" -> [E EXCEPT ![r.id].version = n]
    [] r.op = "move" -> [i \in DOMAIN E |-> IF i \in Moving(E, r.path)
                                            THEN [E[i] EXCEPT !.path = Rebase(@, r.path, r.dest)] ELSE E[i]]
    [] r.op = "delete" -> Without(E, IF r.recursive THEN Moving(E, r.path) ELSE {r.id})

\* The journal's row of the mutation.
Change(E, r, n, k) ==
  [key |-> k, op |-> r.op, recursive |-> r.recursive,
   id |-> IF r.op \in {"file", "directory"} THEN Minted ELSE r.id,
   old |-> r.path, new |-> IF r.op = "replace" THEN r.path ELSE r.dest,
   version |-> CASE r.op \in {"file", "replace"} -> n
                 [] r.op = "move" -> E[r.id].version
                 [] OTHER -> 0]

\* appendAttemptWorkspaceJournal's retention.
Trimmed(j, n) == [c \in {c \in DOMAIN j : c > n - Retained} |-> j[c]]
-----------------------------------------------------------------------------
\* The client.  It acts on its copy of the tree.

Blank == [op |-> "none", id |-> 0, path |-> Empty, dest |-> Empty, version |-> 0, cursor |-> 0, recursive |-> FALSE]

\* The mutations a client may ask for, given the tree it knows.
Requests(V, at) ==
  LET Fence(i) == [Blank EXCEPT !.id = i, !.path = V[i].path, !.cursor = at]
  IN {[Blank EXCEPT !.op = op, !.dest = p, !.cursor = at] : op \in {"file", "directory"}, p \in Paths}
     \cup {[Fence(i) EXCEPT !.op = "replace", !.version = V[i].version] : i \in {i \in DOMAIN V : V[i].kind = "file"}}
     \cup {[Fence(i) EXCEPT !.op = "delete", !.version = V[i].version] : i \in DOMAIN V}
     \cup {[Fence(i) EXCEPT !.op = "delete", !.recursive = TRUE] : i \in {i \in DOMAIN V : V[i].kind = "directory"}}
     \cup UNION {{[Fence(i) EXCEPT !.op = "move", !.dest = p] : p \in Paths \ {V[i].path}} : i \in DOMAIN V}

Send(k) ==
  /\ sent[k] = NoRequest /\ replica.mode = "follow"
  /\ \E r \in {r \in Requests(replica.entries, replica.cursor) : r.op \in Operations} : sent' = [sent EXCEPT ![k] = r]
  /\ UNCHANGED <<entries, cursor, journal, outcome, answered, replica, submits, manifest, restarts, history>>

\* runIdempotentMutation: the key has no recorded outcome yet.
Fresh(k) == outcome[k] = 0

\* checkAttemptWorkspaceMutationAccess, of which the Attempt's state is what
\* the Workspace's own properties depend on.
Mutable == ~manifest.sealed

\* ApplyMutation executes the request.
Execute(k) ==
  LET r == sent[k] n == cursor + 1 IN
  /\ r # NoRequest /\ Fresh(k) /\ Mutable /\ CanApply(entries, r)
  /\ entries' = Effect(entries, r, n)
  /\ cursor' = n
  /\ journal' = Trimmed(With(journal, n, Change(entries, r, n, k)), n)
  /\ outcome' = [outcome EXCEPT ![k] = n]
  /\ effects' = Append(effects, k)
  /\ UNCHANGED <<sent, answered, replica, submits, manifest, restarts, forgotten>>

\* DeleteExpired, of the daily cleanup: the outcome is forgotten.
Expire(k) ==
  /\ outcome[k] # 0 /\ forgotten[k] < Expiries
  /\ outcome' = [outcome EXCEPT ![k] = 0]
  /\ forgotten' = [forgotten EXCEPT ![k] = @ + 1]
  /\ UNCHANGED <<entries, cursor, journal, sent, answered, replica, submits, manifest, restarts, effects>>

\* A request of that key is answered, by its execution or by a replay of the
\* recorded outcome; every answer, and the request itself, may be lost.
Answer(k) ==
  /\ outcome[k] # 0 /\ answered[k] = 0
  /\ answered' = [answered EXCEPT ![k] = outcome[k]]
  /\ UNCHANGED <<entries, cursor, journal, outcome, sent, replica, submits, manifest, restarts, history>>

Rank(p) == CHOOSE n \in DOMAIN PathOrder : PathOrder[n] = p

\* The first entries of S in the order of their paths, a page of them.
FirstPage(S) == {i \in S : Cardinality({j \in S : Rank(entries[j].path) <= Rank(entries[i].path)}) <= Page}

\* The page's boundary, (path, id) > (afterPath, afterID).
Beyond(i) == Rank(entries[i].path) > Rank(entries[replica.after].path)

\* listCandidateWorkspaceSnapshot serves a page after the first.
PinnedPage == replica.cursor = cursor /\ replica.after \in DOMAIN entries

\* The next page of the manifest, or an order to begin again.
ListPage ==
  /\ replica.mode \in {"start", "list"} /\ ~manifest.sealed
  /\ LET first == replica.mode = "start"
         rest == {i \in DOMAIN entries : first \/ Beyond(i)}
         items == FirstPage(rest)
         more == items # rest
         known == IF first THEN Empty ELSE replica.entries
     IN replica' = IF ~first /\ ~PinnedPage THEN Start
                   ELSE [mode |-> IF more THEN "list" ELSE "follow",
                         cursor |-> IF first THEN cursor ELSE replica.cursor,
                         entries |-> [i \in DOMAIN known \cup items |-> IF i \in items THEN entries[i] ELSE known[i]],
                         after |-> IF more THEN CHOOSE i \in items : \A j \in items : Rank(entries[j].path) <= Rank(entries[i].path) ELSE 0]
  /\ UNCHANGED <<entries, cursor, journal, outcome, sent, answered, submits, manifest, restarts, history>>

\* What a client makes of one change.
Follow(E, c) ==
  CASE c.op \in {"file", "directory"} -> With(E, c.id, [path |-> c.new, kind |-> c.op, version |-> c.version])
    [] c.op = "replace" -> [E EXCEPT ![c.id].version = c.version]
    [] c.op = "move" -> [i \in DOMAIN E |-> IF IsPrefix(c.old, E[i].path)
                                            THEN [E[i] EXCEPT !.path = Rebase(@, c.old, c.new)] ELSE E[i]]
    [] c.op = "delete" -> Without(E, IF c.recursive THEN {i \in DOMAIN E : IsPrefix(c.old, E[i].path)} ELSE {c.id})

\* The retained journal continues the cursor.
Bridged(at) == DOMAIN journal = {} \/ \E c \in DOMAIN journal : at >= c - 1

\* listAttemptWorkspaceJournalSnapshot: a page of changes, or a reload.
ReadJournal ==
  /\ replica.mode = "follow" /\ ~manifest.sealed
  /\ LET due == {c \in DOMAIN journal : c > replica.cursor}
         page == SetToSortSeq({c \in due : Cardinality({d \in due : d <= c}) <= Page}, <)
     IN /\ due # {}
        /\ replica' = IF ~Bridged(replica.cursor) THEN Start
                      ELSE [replica EXCEPT !.cursor = Last(page),
                                           !.entries = FoldLeft(LAMBDA E, c : Follow(E, journal[c]), @, page)]
  /\ UNCHANGED <<entries, cursor, journal, outcome, sent, answered, submits, manifest, restarts, history>>

\* The client starts over, or another desktop takes the Attempt over.
Restart ==
  /\ restarts < Restarts /\ restarts' = restarts + 1
  /\ replica.mode # "start" /\ replica' = Start
  /\ UNCHANGED <<entries, cursor, journal, outcome, sent, answered, submits, manifest, history>>
-----------------------------------------------------------------------------
\* Submission.

\* The candidate submits what the client shows, again if it was refused.
Submit ==
  /\ replica.mode = "follow" /\ Cardinality(submits) < Submissions /\ ~manifest.sealed
  /\ submits' = submits \cup {[cursor |-> replica.cursor, view |-> replica.entries]}
  /\ UNCHANGED <<entries, cursor, journal, outcome, sent, answered, replica, manifest, restarts, history>>

\* Mutated form: the submission is not bound to the cursor.
SubmitAnyCursor(s) == TRUE

\* The fence of verifyActiveExamSubmissionSealAccess.
SubmitFenced(s) == s.cursor = cursor

\* Seal, on the candidate's request (one of the submissions on their way), or
\* automatically when the Sitting ends.
Seal ==
  /\ ~manifest.sealed
  /\ \E for \in {{}} \cup {{s} : s \in {s \in submits : SubmitFenced(s)}} :
       manifest' = [sealed |-> TRUE, cursor |-> cursor, entries |-> entries, for |-> for]
  /\ UNCHANGED <<entries, cursor, journal, outcome, sent, answered, replica, submits, restarts, history>>

Next ==
  \/ \E k \in Keys : Send(k) \/ Execute(k) \/ Expire(k) \/ Answer(k)
  \/ ListPage \/ ReadJournal \/ Restart \/ Submit \/ Seal

Spec == Init /\ [][Next]_vars

-----------------------------------------------------------------------------
\* The model's types, and the cursor as the count of changes.
TypeOK ==
  /\ \A i \in DOMAIN entries : entries[i].path \in Paths /\ entries[i].version \in 0..cursor
  /\ DOMAIN journal \subseteq 1..cursor
  /\ outcome \in [Keys -> 0..cursor] /\ answered \in [Keys -> 0..cursor]
  /\ replica.mode \in {"start", "list", "follow"} /\ replica.cursor \in 0..cursor
  /\ Cardinality(DOMAIN entries) <= MaximumEntries
  /\ effects \in Seq(Keys) /\ Len(effects) = cursor /\ forgotten \in [Keys -> 0..Expiries]

\* The paths form a tree: no two entries share one, and the parent of every
\* entry is a directory, whatever moved or went meanwhile.
TreeIsSound ==
  /\ \A i, j \in DOMAIN entries : entries[i].path = entries[j].path => i = j
  /\ \A i \in DOMAIN entries : Len(entries[i].path) > 1 =>
       \E j \in DOMAIN entries : entries[j].path = Front(entries[i].path) /\ entries[j].kind = "directory"

\* However often a request is sent and whenever its copies arrive, its mutation
\* stands at one cursor of the Workspace's history, as long as ApplyMutation has
\* its outcome; a replacement or a deletion also after the outcome was deleted,
\* because no later tree has the version, the identity or the cursor it names.
\* A creation or a move stands at one more for each time it was forgotten.
TakesEffectOnce ==
  \A k \in Keys :
    Cardinality({n \in DOMAIN effects : effects[n] = k})
      <= IF sent[k].op \in {"replace", "delete"} THEN 1 ELSE 1 + forgotten[k]

\* The Submission holds every mutation that was ever acknowledged, and a
\* voluntary one is exactly what the candidate's client showed.
SubmissionIsComplete ==
  manifest.sealed =>
    /\ \A k \in Keys : answered[k] <= manifest.cursor
    /\ manifest.entries = entries
    /\ \A s \in manifest.for : manifest.entries = s.view

=============================================================================
