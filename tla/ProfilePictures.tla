-------------------------- MODULE ProfilePictures --------------------------
(***************************************************************************)
(* Profile pictures of one user: the upload, default-generation and        *)
(* removal use cases (server/app/profile_picture.go), the renditions they  *)
(* put into object storage (server/filecontent), the rows of               *)
(* server/store/sqlstore/file_store.go, and the file-revision phase of the *)
(* purge Job (server/app/jobhandler/file_purge.go).                        *)
(*                                                                         *)
(* Every upload allocates one revision and, where it needs one, an entry;  *)
(* both carry the upload's identity here.  A revision has one lease, which *)
(* lives and dies with the revision's row and is consumed exactly by the   *)
(* publication, so its expiry is a field of the row.  The rows of          *)
(* file_renditions are written by the publication, all or none.            *)
(***************************************************************************)
EXTENDS Integers, Sequences, SequencesExt

CONSTANTS
    Uploads,     \* 1..n: uploads and generations of a default, by identity
    Parts,       \* the renditions of one picture (profilePictureSizes)
    Holdable,    \* entries on which a legal hold may be placed
    Purgers,     \* executions of the purge Job
    Page,        \* how many candidates one execution may still examine
    Lease,       \* UploadLeaseMaximumLifetime
    Grace,       \* how long after its expiry a lease is purged (24 hours)
    Retention,   \* how long after archiving an entry is purged (30 days)
    Request,     \* the longest an upload takes: the server's read timeout
    Faults,      \* bound: storage and store failures met by purges
    MaxTime      \* bound: the clock stops here

ASSUME ProfilePicturesAssumption ==
    /\ Uploads \subseteq Nat \ {0} /\ Holdable \subseteq Uploads /\ Page \in Nat \ {0}
    /\ {Lease, Grace, Retention, Request, Faults, MaxTime} \subseteq Nat
    /\ Request < Lease + Grace

VARIABLES
    now,       \* the primary database's clock
    user,      \* revision, custom and default entry of the users row
    entries,   \* file_entries
    revisions, \* file_revisions with their upload_leases
    holds,     \* file_legal_holds
    content,   \* the objects in storage: <<revision, rendition>>
    upload,    \* per upload: where its request is and what it has read
    purge,     \* per purger: its cursor, page and claim
    faults,    \* failures met so far
    published  \* revisions that were ever available

vars == <<now, user, entries, revisions, holds, content, upload, purge,
          faults, published>>

None == 0
NoRow == [row |-> FALSE]
Purposes == {"custom", "default"}
Idle == [at |-> "idle", cursor |-> 0, page |-> << >>, full |-> FALSE, kind |-> "none", rev |-> None,
         manifest |-> {}]
Resting == [at |-> "resting", purpose |-> "custom", revision |-> 0,
            entry |-> None, seen |-> None, since |-> 0, left |-> {}]

Init ==
    /\ now = 0 /\ faults = 0
    /\ user = [revision |-> 1, custom |-> None, default |-> None]
    /\ entries = [e \in Uploads |-> NoRow]
    /\ revisions = [r \in Uploads |-> NoRow]
    /\ holds = {} /\ content = {} /\ published = {}
    /\ upload = [u \in Uploads |-> Resting]
    /\ purge = [p \in Purgers |-> Idle]

Row(table) == {i \in Uploads : table[i].row}
Entry(purpose) == [row |-> TRUE, purpose |-> purpose, archived |-> FALSE,
                   archivedAt |-> 0, current |-> None, claimed |-> FALSE]

\* COALESCE(custom, default), and GetProfilePictureState: the current,
\* available revision of that entry
Active == IF user.custom # None THEN user.custom ELSE user.default
CurrentOf(e) == IF e = None THEN None ELSE entries[e].current
State ==
    LET r == CurrentOf(Active)
    IN  IF r # None /\ revisions[r].available THEN r ELSE None

----------------------------------------------------------------------------
(* An upload, and the generation of the default *)

Rested(u) == upload' = [upload EXCEPT ![u] = [Resting EXCEPT !.at = "done"]]

\* Upload and Ensure: the user is read; a default is generated once
UploadBegin(u, purpose) ==
    /\ upload[u].at = "resting"
    /\ now + Lease + Grace < MaxTime
    /\ purpose = "default" => user.default = None
    /\ upload' = [upload EXCEPT ![u] =
           [Resting EXCEPT !.at = IF purpose = "custom" THEN "begun" ELSE "checked",
               !.purpose = purpose, !.since = now,
               !.revision = user.revision, !.seen = Active,
               !.entry = IF purpose = "custom" /\ user.custom # None THEN user.custom ELSE u]]
    /\ UNCHANGED <<now, user, entries, revisions, holds, content, purge, faults, published>>

\* The active picture is the one of the user that was read
Precondition(u) == IF State # None THEN Active = upload[u].seen ELSE upload[u].seen = None

\* checkProfilePicturePrecondition, of an upload
UploadCheck(u) ==
    /\ upload[u].at = "begun"
    /\ IF Precondition(u) THEN upload' = [upload EXCEPT ![u].at = "checked", ![u].seen = State]
                          ELSE Rested(u)
    /\ UNCHANGED <<now, user, entries, revisions, holds, content, purge, faults, published>>

\* stageProfilePictureUpload; CreateUpload and CreateRevisionUpload, which
\* finds no row when the entry has been archived
UploadStage(u) ==
    LET up == upload[u] IN
    /\ up.at = "checked"
    /\ IF up.entry # u => entries[up.entry].row /\ ~entries[up.entry].archived
       THEN /\ entries' = IF up.entry = u THEN [entries EXCEPT ![u] = Entry(up.purpose)] ELSE entries
            /\ revisions' = [revisions EXCEPT ![u] =
                   [row |-> TRUE, entry |-> up.entry, available |-> FALSE,
                    claimed |-> FALSE, expires |-> now + Lease]]
            /\ upload' = [upload EXCEPT ![u].at = "writing", ![u].left = Parts]
       ELSE Rested(u) /\ UNCHANGED <<entries, revisions>>
    /\ UNCHANGED <<now, user, holds, content, purge, faults, published>>

\* storeRendition: one object
WriteRendition(u) ==
    /\ upload[u].at = "writing" /\ upload[u].left # {}
    /\ \E part \in upload[u].left :
           /\ content' = content \cup {<<u, part>>}
           /\ upload' = [upload EXCEPT ![u].left = @ \ {part}]
    /\ UNCHANGED <<now, user, entries, revisions, holds, purge, faults, published>>

\* NormalizeAndStoreProfilePicture fails: the client is gone, or storage is,
\* and what was written is removed as far as storage answers
UploadFails(u) ==
    /\ upload[u].at = "writing"
    /\ \E gone \in SUBSET Parts : content' = content \ {<<u, part>> : part \in gone}
    /\ Rested(u)
    /\ UNCHANGED <<now, user, entries, revisions, holds, purge, faults, published>>

\* sameNormalizedProfilePicture: the staged renditions go, then the rows
UploadSame(u) ==
    /\ upload[u].at = "writing" /\ upload[u].left = {}
    /\ upload[u].purpose = "custom" /\ upload[u].seen # None
    /\ \E gone \in SUBSET Parts :
           /\ content' = content \ {<<u, part>> : part \in gone}
           /\ IF gone = Parts THEN upload' = [upload EXCEPT ![u].at = "discarding"] ELSE Rested(u)
    /\ UNCHANGED <<now, user, entries, revisions, holds, purge, faults, published>>

\* DiscardProfilePictureUpload, one transaction: all of it or nothing
CanDiscard(u) ==
    LET up == upload[u] IN
    /\ user.revision = up.revision /\ CurrentOf(Active) = up.seen
    /\ revisions[u].row /\ ~revisions[u].available /\ ~revisions[u].claimed
    /\ up.entry # Active =>
           entries[up.entry].current = None /\ ~entries[up.entry].archived /\ up.entry \notin holds

UploadDiscard(u) ==
    /\ upload[u].at = "discarding"
    /\ \/ /\ CanDiscard(u)
          /\ revisions' = [revisions EXCEPT ![u] = NoRow]
          /\ entries' = IF upload[u].entry = Active THEN entries ELSE [entries EXCEPT ![u] = NoRow]
       \/ UNCHANGED <<revisions, entries>>
    /\ Rested(u)
    /\ UNCHANGED <<now, user, holds, content, purge, faults, published>>

\* publishProfilePictureRevision: the lease is live and the revision unclaimed
CanPublishRevision(u) ==
    /\ revisions[u].row /\ ~revisions[u].claimed /\ ~revisions[u].available
    /\ revisions[u].expires > now

\* Mutated form: the revision of the users row is not compared.
CanAttachAnyRevision(u) ==
    IF upload[u].purpose = "custom" THEN user.custom \in {None, upload[u].entry} ELSE user.default = None

\* ... and the users row still is the one that was read
CanAttach(u) ==
    /\ user.revision = upload[u].revision
    /\ IF upload[u].purpose = "custom" THEN user.custom \in {None, upload[u].entry} ELSE user.default = None

\* PublishProfilePicture and PublishDefaultProfilePicture: the transaction
\* commits, or it does not, and the request ends
UploadPublish(u) ==
    LET up == upload[u] IN
    /\ up.at = "writing" /\ up.left = {}
    /\ \/ /\ CanPublishRevision(u) /\ CanAttach(u)
          /\ revisions' = [revisions EXCEPT ![u].available = TRUE]
          /\ entries' = [entries EXCEPT ![up.entry].current = u]
          /\ user' = IF up.purpose = "custom"
                     THEN [user EXCEPT !.custom = up.entry, !.revision = @ + 1]
                     ELSE [user EXCEPT !.default = up.entry, !.revision = @ + 1]
          /\ published' = published \cup {u}
       \/ UNCHANGED <<revisions, entries, user, published>>
    /\ Rested(u)
    /\ UNCHANGED <<now, holds, content, purge, faults>>

\* Remove and RemoveProfilePicture: what the service reads is compared again
\* under the row locks, so the two are one step
RemovePicture ==
    LET e == user.custom IN
    /\ e # None /\ State # None /\ ~entries[e].archived
    /\ entries' = [entries EXCEPT ![e].archived = TRUE, ![e].archivedAt = now]
    /\ user' = [user EXCEPT !.custom = None, !.revision = @ + 1]
    /\ UNCHANGED <<now, revisions, holds, content, upload, purge, faults, published>>

----------------------------------------------------------------------------
(* The purge *)

\* Mutated form: the hold refers to the entry alone.
PlaceHoldAnytime(e) ==
    /\ e \in (Row(entries) \cap Holdable) \ holds
    /\ holds' = holds \cup {e}
    /\ UNCHANGED <<now, user, entries, revisions, content, upload, purge, faults, published>>

\* a hold's foreign key accepts only an entry no purge has claimed
PlaceHold(e) ==
    /\ e \in (Row(entries) \cap Holdable) \ holds /\ ~entries[e].claimed
    /\ holds' = holds \cup {e}
    /\ UNCHANGED <<now, user, entries, revisions, content, upload, purge, faults, published>>

LiftHold(e) ==
    /\ e \in holds /\ holds' = holds \ {e}
    /\ UNCHANGED <<now, user, entries, revisions, content, upload, purge, faults, published>>

\* The two kinds of candidate.  A claim once made keeps the revision eligible.
ExpiredLease(r) ==
    /\ revisions[r].row /\ ~revisions[r].available
    /\ revisions[r].claimed \/ revisions[r].expires + Grace <= now

ArchivedCustom(r) ==
    /\ revisions[r].row
    /\ LET e == revisions[r].entry IN
       /\ entries[e].purpose = "custom"
       /\ \/ revisions[r].claimed
          \/ /\ entries[e].archived /\ entries[e].archivedAt + Retention <= now
             /\ e \notin {user.custom, user.default} /\ e \notin holds

Eligible(kind, r) == IF kind = "lease" THEN ExpiredLease(r) ELSE ArchivedCustom(r)

\* Cursors sort as text: "archived:" before "lease:", then by identity
Cursor(kind, r) == r + (IF kind = "lease" THEN Max(Uploads) ELSE 0)

\* ListPurgeCandidates
Listed(after) ==
    LET found == {c \in {"archived", "lease"} \X Uploads :
                     Eligible(c[1], c[2]) /\ Cursor(c[1], c[2]) > after}
        all == SetToSortSeq(found, LAMBDA c, d : Cursor(c[1], c[2]) < Cursor(d[1], d[2]))
    IN  SubSeq(all, 1, IF Len(all) < Page THEN Len(all) ELSE Page)

PurgeList(p) ==
    /\ purge[p].at = "idle"
    /\ LET page == Listed(purge[p].cursor)
       IN  purge' = [purge EXCEPT ![p].at = "next", ![p].page = page, ![p].full = Len(page) = Page]
    /\ UNCHANGED <<now, user, entries, revisions, holds, content, upload, faults, published>>

\* retried from its checkpoint, or given up, and the next Job starts afresh
Abandoned(p) ==
    \E from \in {0, purge[p].cursor} : purge' = [purge EXCEPT ![p] = [Idle EXCEPT !.cursor = from]]

\* Mutated form: every Job goes on where the last one ended.
PurgeEndKeepsCursor(p) ==
    /\ purge[p].at = "next" /\ purge[p].page = << >>
    /\ purge' = [purge EXCEPT ![p] = [Idle EXCEPT !.cursor = purge[p].cursor]]
    /\ UNCHANGED <<now, user, entries, revisions, holds, content, upload, faults, published>>

\* finish: a page that filled the allowance is continued where it ended, and
\* after any other the next Job is the daily one, which starts afresh
PurgeEnd(p) ==
    /\ purge[p].at = "next" /\ purge[p].page = << >>
    /\ purge' = [purge EXCEPT ![p] =
           [Idle EXCEPT !.cursor = IF purge[p].full THEN purge[p].cursor ELSE 0]]
    /\ UNCHANGED <<now, user, entries, revisions, holds, content, upload, faults, published>>

Skipped(p, c) == [purge EXCEPT ![p].page = Tail(@), ![p].cursor = Cursor(c[1], c[2])]

\* ClaimPurgeCandidate: eligible still, and no hold on the entry, whose
\* foreign key would refuse the tombstone; a conflict passes the candidate by
PurgeClaim(p) ==
    LET c == Head(purge[p].page) r == c[2] IN
    /\ purge[p].at = "next" /\ purge[p].page # << >>
    /\ IF Eligible(c[1], r) /\ revisions[r].entry \notin holds
       THEN /\ entries' = [entries EXCEPT ![revisions[r].entry].claimed = TRUE]
            /\ revisions' = [revisions EXCEPT ![r].claimed = TRUE]
            /\ purge' = [purge EXCEPT ![p].at = "removing", ![p].kind = c[1], ![p].rev = r,
                   ![p].manifest = IF revisions[r].available THEN Parts ELSE {}]
       ELSE purge' = Skipped(p, c) /\ UNCHANGED <<entries, revisions>>
    /\ UNCHANGED <<now, user, holds, content, upload, faults, published>>

\* what a purge takes out of storage: everything under the revision's prefix,
\* or the renditions its rows name
Doomed(p) ==
    LET r == purge[p].rev IN
    IF purge[p].kind = "lease" THEN {o \in content : o[1] = r}
    ELSE {<<r, part>> : part \in purge[p].manifest}

PurgeRemove(p) ==
    /\ purge[p].at = "removing"
    /\ content' = content \ Doomed(p)
    /\ purge' = [purge EXCEPT ![p].at = "completing"]
    /\ UNCHANGED <<now, user, entries, revisions, holds, upload, faults, published>>

\* CompletePurge's rows: the revision, its lease and renditions; the entry's
\* pointer and tombstone; and the entry once nothing needs it
Purged(r) ==
    LET e == revisions[r].entry
        others == {q \in Row(revisions) \ {r} : revisions[q].entry = e}
        detached == [entries EXCEPT ![e].current = IF @ = r THEN None ELSE @,
                                    ![e].claimed = \E q \in others : revisions[q].claimed]
    IN  IF detached[e].current = None /\ others = {} /\ e \notin {user.custom, user.default}
        THEN [entries EXCEPT ![e] = NoRow]
        ELSE detached

\* the transaction's outcome may get lost on its way back
PurgeComplete(p) ==
    LET r == purge[p].rev IN
    /\ purge[p].at = "completing" /\ revisions[r].row
    /\ revisions' = [revisions EXCEPT ![r] = NoRow]
    /\ entries' = Purged(r)
    /\ \/ /\ purge' = [Skipped(p, Head(purge[p].page)) EXCEPT ![p].at = "next", ![p].kind = "none",
                                                     ![p].rev = None, ![p].manifest = {}]
          /\ faults' = faults
       \/ Abandoned(p) /\ faults < Faults /\ faults' = faults + 1
    /\ UNCHANGED <<now, user, holds, content, upload, published>>

\* storage or the database fails, part of the removal done
PurgeFails(p) ==
    /\ purge[p].at # "idle" /\ faults < Faults
    /\ \/ purge[p].at = "removing" /\ \E gone \in SUBSET Doomed(p) : content' = content \ gone
       \/ purge[p].at # "removing" /\ UNCHANGED content
    /\ Abandoned(p)
    /\ faults' = faults + 1
    /\ UNCHANGED <<now, user, entries, revisions, holds, upload, published>>

\* CompletePurge finds that another execution has completed the purge
PurgeLate(p) ==
    /\ purge[p].at = "completing" /\ ~revisions[purge[p].rev].row
    /\ Abandoned(p)
    /\ UNCHANGED <<now, user, entries, revisions, holds, content, upload, faults, published>>

\* no request outlives the server's timeouts
Tick ==
    /\ now < MaxTime
    /\ \A u \in Uploads : upload[u].at \notin {"resting", "done"} => now < upload[u].since + Request
    /\ now' = now + 1
    /\ UNCHANGED <<user, entries, revisions, holds, content, upload, purge, faults, published>>

UploadStep(u) ==
    \/ UploadCheck(u) \/ UploadStage(u) \/ WriteRendition(u) \/ UploadFails(u) \/ UploadSame(u)
    \/ UploadDiscard(u) \/ UploadPublish(u)

PurgeStep(p) ==
    PurgeList(p) \/ PurgeEnd(p) \/ PurgeClaim(p) \/ PurgeRemove(p) \/ PurgeComplete(p) \/ PurgeLate(p)

Next ==
    \/ \E u \in Uploads : UploadStep(u) \/ \E purpose \in Purposes : UploadBegin(u, purpose)
    \/ RemovePicture
    \/ \E e \in Uploads : PlaceHold(e) \/ LiftHold(e)
    \/ \E p \in Purgers : PurgeStep(p) \/ PurgeFails(p)
    \/ Tick

Spec == Init /\ [][Next]_vars

----------------------------------------------------------------------------
(* Properties *)

\* every variable has its type
TypeOK ==
    /\ now \in 0..MaxTime /\ faults \in 0..Faults
    /\ user.revision \in Nat \ {0} /\ {user.custom, user.default} \subseteq Uploads \cup {None}
    /\ \A e \in Row(entries) :
           entries[e] \in [row : {TRUE}, purpose : Purposes, archived : BOOLEAN, archivedAt : 0..MaxTime,
                           current : Uploads \cup {None}, claimed : BOOLEAN]
    /\ \A r \in Row(revisions) :
           revisions[r] \in [row : {TRUE}, entry : Uploads, available : BOOLEAN, claimed : BOOLEAN,
                             expires : 0..MaxTime]
    /\ holds \subseteq Row(entries) /\ published \subseteq Uploads
    /\ content \subseteq Uploads \X Parts

\* The picture a user shows is whole: its entry is neither archived nor being
\* purged, its revision is available, and storage has every rendition of it.
\* Uploads, removals, discards and overlapping purges may run in any order
\* (GetProfilePictureState reports a broken one as an invalid persisted state).
ShownIsWhole ==
    \A e \in {user.custom, user.default} \ {None} :
        /\ entries[e].row /\ ~entries[e].archived
        /\ LET r == entries[e].current IN
           /\ r # None /\ revisions[r].row /\ revisions[r].entry = e
           /\ revisions[r].available /\ ~revisions[r].claimed
           /\ {r} \X Parts \subseteq content

\* While an entry is held, no purge takes anything out of storage that
\* belongs to one of its published revisions, and none of them loses its row.
HeldIsKept ==
    [][\A r \in published :
           (revisions[r].row /\ revisions[r].entry \in holds)
               => revisions'[r].row /\ {o \in content : o[1] = r} \subseteq content']_vars

----------------------------------------------------------------------------
(* Liveness: requests end and the clock runs, both only so often, and some *)
(* execution of the purge Job goes on, for the daily one comes again       *)

Fairness ==
    /\ WF_vars(Tick \/ \E u \in Uploads : UploadStep(u))
    /\ WF_vars(\E p \in Purgers : PurgeStep(p))

FairSpec == Spec /\ Fairness

\* Uploads that were never published, of entries nobody holds, leave no row
\* behind: again and again there comes a time without any, because the purge
\* gets to them once lease and grace have run out, whatever the page size,
\* the failures of earlier executions and the place where the last one ended.
PendingSettles ==
    []<>(\A r \in Uploads : revisions[r].row =>
             revisions[r].available \/ revisions[r].entry \in holds)
=============================================================================
