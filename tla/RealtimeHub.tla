---------------------------- MODULE RealtimeHub ----------------------------
(***************************************************************************)
(* The WebSocket Hub of one node (server/websocket: hub.go, connection.go, *)
(* connection_outbound.go, replay.go) and one User's client, which dials,  *)
(* drops and resumes.  Publications and closes select connections under    *)
(* the shard lock and act on them after it is released; a stopped          *)
(* connection leaves its replay state behind while it holds that lock.     *)
(* The User's shard is the only one; time is left out, so retained replay  *)
(* state may expire at any moment.                                         *)
(***************************************************************************)
EXTENDS Naturals, Sequences, FiniteSets

CONSTANTS Events,          \* event IDs; each may be published more than once
          Topics,          \* those that reach only subscribed connections
          Publishers,      \* goroutines in publishWire
          MaxRuntimes,     \* bound on accepted connections
          SendQueueSize,
          ReplayQueueSize,
          Limit,           \* maximumPerSession
          MaxPublications, \* bound on calls of publishWire
          MaxInvalidations,\* 1 if the User's roles may change, else 0
          MaxShutdowns     \* 1 if the Hub may be closed, else 0

\* What is replayed fits the new connection's queue, or register would block.
ASSUME RealtimeHubAssumption == Topics \subseteq Events /\ ReplayQueueSize <= SendQueueSize

Runtimes == 1..MaxRuntimes

VARIABLES hub,      \* the Hub's state, and shutdown's progress
          rt,       \* the connection runtimes, in the order they were accepted
          conns,    \* the shard's connections
          replay,   \* the shard's retained replay states, by connection ID
          locked,   \* the runtime whose unregister holds the shard lock, or 0
          pub,      \* per publisher: what publishWire has still to do
          client,   \* the client's socket, and what it will ask to resume
          allowed,  \* whether the User may subscribe to the Topics
          closer,   \* what closeMatching has still to do
          published \* calls of publishWire so far

vars == <<hub, rt, conns, replay, locked, pub, client, allowed, closer, published>>

Unused == [id |-> 0, phase |-> "unused", open |-> FALSE, replayable |-> TRUE,
           resumed |-> FALSE, resync |-> FALSE, next |-> 0, history |-> << >>,
           send |-> << >>, subscribed |-> FALSE, asking |-> FALSE, busy |-> {}]

Actors == Publishers \cup {"closer", "hub"}
Idle == [event |-> "none", targets |-> {}, full |-> 0]

TypeOK ==
    /\ hub.state \in {"started", "stopping", "collected", "closing", "drained", "aborted"}
    /\ \A r \in Runtimes :
         /\ rt[r].phase \in {"unused", "registered", "running", "stopped", "gone"}
         /\ Len(rt[r].send) <= SendQueueSize
         /\ Len(rt[r].history) <= ReplayQueueSize
         /\ rt[r].busy \subseteq Actors
    /\ conns \subseteq Runtimes
    /\ DOMAIN replay \subseteq Runtimes
    /\ locked \in {0} \cup Runtimes
    /\ client.rt \in {0} \cup Runtimes

Init ==
    /\ hub = [state |-> "started", left |-> {}, watched |-> {}]
    /\ rt = [r \in Runtimes |-> Unused]
    /\ conns = {}
    /\ replay = << >>
    /\ locked = 0
    /\ pub = [p \in Publishers |-> Idle]
    /\ client = [rt |-> 0, id |-> 0, last |-> 0, greeted |-> FALSE]
    /\ allowed = TRUE
    /\ closer = [state |-> "idle", left |-> {}]
    /\ published = 0

-----------------------------------------------------------------------------
(* A connection's outbound queue: connection_outbound.go.                  *)

Window(h) == IF Len(h) > ReplayQueueSize
             THEN SubSeq(h, Len(h) - ReplayQueueSize + 1, Len(h)) ELSE h

Room(row) == Len(row.send) < SendQueueSize
Queued(row, message) == IF Room(row) THEN [row EXCEPT !.send = Append(@, message)] ELSE row

Recorded(row, name) ==
    [row EXCEPT !.next = @ + 1, !.history = Window(Append(@, <<row.next + 1, name>>))]

Known(row, name) == \E i \in DOMAIN row.history : row.history[i][2] = name

\* enqueueEvent up to the release of c.mu: an event of the history is skipped.
Enqueued(row, name) ==
    IF Known(row, name) THEN row ELSE Queued(Recorded(row, name), <<row.next + 1, name>>)
Overflows(row, name) == ~Known(row, name) /\ ~Room(row)

\* close(..., replayable = FALSE).
Closed(row) == [row EXCEPT !.replayable = FALSE, !.open = FALSE]

\* Hello and resync_required carry new event IDs, so they are never skipped.
Greeted(row, name) ==
    LET sent == Queued(Recorded(row, name), <<row.next + 1, name>>) IN
    IF Room(row) THEN sent ELSE Closed(sent)

-----------------------------------------------------------------------------
(* Accept: hub.go, connection.go.                                          *)

Fresh(r) == [Unused EXCEPT !.id = r, !.phase = "registered", !.open = TRUE,
                           !.resync = client.id # 0]

\* takeReplayResumeLocked: the retained history starts no later than what follows sequence n.
Covers(state, n) ==
    /\ n <= state.next
    /\ n >= IF state.history = << >> THEN state.next ELSE Head(state.history)[1] - 1

After(history, n) == SelectSeq(history, LAMBDA e : e[1] > n)

Resumed(state, id, n) ==
    [Unused EXCEPT !.id = id, !.phase = "registered", !.open = TRUE, !.resumed = TRUE,
                   !.next = state.next, !.history = state.history,
                   !.subscribed = state.subscribed, !.send = After(state.history, n)]

Register(r) ==
    LET resumes == /\ client.id \in DOMAIN replay
                   /\ Covers(replay[client.id], client.last) IN
    /\ client.rt = 0
    /\ rt[r] = Unused /\ \A q \in 1..(r - 1) : rt[q] # Unused
    /\ hub.state = "started"
    /\ locked = 0
    /\ Cardinality(conns) < Limit
    /\ rt' = [rt EXCEPT ![r] = IF resumes
                               THEN Resumed(replay[client.id], client.id, client.last)
                               ELSE Fresh(r)]
    /\ replay' = IF resumes THEN [i \in DOMAIN replay \ {client.id} |-> replay[i]] ELSE replay
    /\ conns' = conns \cup {r}
    /\ client' = [client EXCEPT !.rt = r, !.greeted = FALSE]
    /\ UNCHANGED <<hub, locked, pub, allowed, closer, published>>

Stopping(r) == hub.state \in {"closing", "drained", "aborted"} /\ r \in hub.watched

\* enqueueHello, then run, which starts the pumps unless shutdown came first.
Run(r) ==
    LET hello == Greeted(rt[r], "hello")
        row == IF rt[r].resync THEN Greeted(hello, "resync") ELSE hello IN
    /\ rt[r].phase = "registered"
    /\ rt' = [rt EXCEPT ![r] = [row EXCEPT !.phase = IF Stopping(r) THEN "stopped" ELSE "running"]]
    /\ UNCHANGED <<hub, conns, replay, locked, pub, client, allowed, closer, published>>

\* The client processes one message; it learns the connection ID from hello.
Receives(r, message) ==
    LET greeted == client.greeted \/ message[2] = "hello" IN
    /\ client' = [client EXCEPT !.greeted = greeted,
                                !.id = IF greeted THEN rt[r].id ELSE @,
                                !.last = IF greeted /\ message[1] > 0 THEN message[1] ELSE @]

WritePump(r) ==
    /\ rt[r].phase = "running" /\ rt[r].open
    /\ rt[r].send # << >>
    /\ rt' = [rt EXCEPT ![r].send = Tail(@)]
    /\ IF client.rt = r THEN Receives(r, Head(rt[r].send)) ELSE UNCHANGED <<client>>
    /\ UNCHANGED <<hub, conns, replay, locked, pub, allowed, closer, published>>

\* The client's network goes; nothing is said to the server.
Drop ==
    /\ client.rt # 0
    /\ client' = [client EXCEPT !.rt = 0, !.greeted = FALSE]
    /\ UNCHANGED <<hub, rt, conns, replay, locked, pub, allowed, closer, published>>

\* Mutated form: only the client's end of the socket ends the pumps.
StopByClient(r) ==
    /\ rt[r].phase = "running"
    /\ client.rt # r
    /\ rt' = [rt EXCEPT ![r].phase = "stopped", ![r].open = FALSE, ![r].asking = FALSE]
    /\ UNCHANGED <<hub, conns, replay, locked, pub, client, allowed, closer, published>>
\* readPump returns, the other pumps are waited for, the Attempt is finalized.
Stop(r) ==
    /\ rt[r].phase = "running"
    /\ client.rt # r \/ ~rt[r].open \/ Stopping(r)
    /\ rt' = [rt EXCEPT ![r].phase = "stopped", ![r].open = FALSE, ![r].asking = FALSE]
    /\ client' = IF client.rt = r THEN [client EXCEPT !.rt = 0, !.greeted = FALSE] ELSE client
    /\ UNCHANGED <<hub, conns, replay, locked, pub, allowed, closer, published>>

Unregister(r) ==
    /\ rt[r].phase = "stopped"
    /\ locked = 0 /\ r \in conns
    /\ locked' = r
    /\ conns' = conns \ {r}
    /\ UNCHANGED <<hub, rt, replay, pub, client, allowed, closer, published>>

Retained(row) == [next |-> row.next, history |-> row.history, subscribed |-> row.subscribed]

Snapshot(r) ==
    /\ locked = r
    /\ locked' = 0
    /\ rt' = [rt EXCEPT ![r] = [Unused EXCEPT !.id = rt[r].id, !.phase = "gone",
                                              !.replayable = rt[r].replayable]]
    /\ replay' = IF rt[r].replayable /\ hub.state = "started"
                 THEN [i \in DOMAIN replay \cup {rt[r].id} |->
                         IF i = rt[r].id THEN Retained(rt[r]) ELSE replay[i]]
                 ELSE replay
    /\ client' = IF client.rt = r THEN [client EXCEPT !.rt = 0, !.greeted = FALSE] ELSE client
    /\ UNCHANGED <<hub, conns, pub, allowed, closer, published>>

\* Mutated form: the snapshot is taken at once.
FinalSnapshotAtOnce(r) == Snapshot(r)
\* finalSnapshot waits for the operations that acquired the runtime.
FinalSnapshot(r) == rt[r].busy = {} /\ Snapshot(r)

\* pruneReplayLocked.
Prune(id) ==
    /\ id \in DOMAIN replay
    /\ locked = 0
    /\ replay' = [i \in DOMAIN replay \ {id} |-> replay[i]]
    /\ UNCHANGED <<hub, rt, conns, locked, pub, client, allowed, closer, published>>

-----------------------------------------------------------------------------
(* Publication: publishWire.                                               *)

Acquired(targets, actor) ==
    [r \in Runtimes |-> IF r \in targets THEN [rt[r] EXCEPT !.busy = @ \cup {actor}] ELSE rt[r]]

PublishSelect(p, e) ==
    LET targets == {r \in conns : e \in Topics => rt[r].subscribed} IN
    /\ pub[p] = Idle
    /\ locked = 0
    /\ rt' = Acquired(targets, p)
    /\ pub' = [pub EXCEPT ![p] = [event |-> e, targets |-> targets, full |-> 0]]
    /\ published < MaxPublications
    /\ published' = published + 1
    /\ UNCHANGED <<hub, conns, replay, locked, client, allowed, closer>>

PublishNext(p) ==
    /\ pub[p].full = 0
    /\ \E r \in pub[p].targets :
         LET e == pub[p].event
             full == Overflows(rt[r], e)
             row == Enqueued(rt[r], e) IN
         /\ rt' = [rt EXCEPT ![r] = IF full THEN row ELSE [row EXCEPT !.busy = @ \ {p}]]
         /\ pub' = [pub EXCEPT ![p].targets = @ \ {r}, ![p].full = IF full THEN r ELSE 0]
    /\ UNCHANGED <<hub, conns, replay, locked, client, allowed, closer, published>>

\* closeForBackpressure, after c.mu is released.
Backpressure(p) ==
    LET r == pub[p].full IN
    /\ r # 0
    /\ rt' = [rt EXCEPT ![r] = [Closed(@) EXCEPT !.busy = @ \ {p}]]
    /\ pub' = [pub EXCEPT ![p].full = 0]
    /\ UNCHANGED <<hub, conns, replay, locked, client, allowed, closer, published>>

Published(p) ==
    /\ pub[p] # Idle /\ pub[p].targets = {} /\ pub[p].full = 0
    /\ pub' = [pub EXCEPT ![p] = Idle]
    /\ UNCHANGED <<hub, rt, conns, replay, locked, client, allowed, closer, published>>

-----------------------------------------------------------------------------
(* Subscriptions, and the invalidation of the User's connections.          *)

Authorize(r) ==
    /\ Topics # {}
    /\ rt[r].phase = "running" /\ client.rt = r
    /\ ~rt[r].asking /\ ~rt[r].subscribed
    /\ allowed
    /\ rt' = [rt EXCEPT ![r].asking = TRUE]
    /\ UNCHANGED <<hub, conns, replay, locked, pub, client, allowed, closer, published>>

Subscribe(r) ==
    LET row == [rt[r] EXCEPT !.asking = FALSE, !.subscribed = TRUE] IN
    /\ rt[r].phase = "running" /\ rt[r].asking
    /\ rt' = [rt EXCEPT ![r] = IF Room(row) THEN Queued(row, <<0, "response">>) ELSE Closed(row)]
    /\ UNCHANGED <<hub, conns, replay, locked, pub, client, allowed, closer, published>>

Unsubscribe(r) ==
    LET row == [rt[r] EXCEPT !.subscribed = FALSE] IN
    /\ rt[r].phase = "running" /\ client.rt = r
    /\ rt[r].subscribed /\ ~rt[r].asking
    /\ rt' = [rt EXCEPT ![r] = IF Room(row) THEN Queued(row, <<0, "response">>) ELSE Closed(row)]
    /\ UNCHANGED <<hub, conns, replay, locked, pub, client, allowed, closer, published>>

\* The User's roles change; CloseUser follows the commit.
Invalidate ==
    /\ MaxInvalidations > 0 /\ allowed
    /\ allowed' = FALSE
    /\ closer' = [state |-> "due", left |-> {}]
    /\ UNCHANGED <<hub, rt, conns, replay, locked, pub, client, published>>

\* Mutated form: connections without a subscription are passed over.
CloseSubscribed ==
    LET targets == {r \in conns : rt[r].subscribed} IN
    /\ closer.state = "due"
    /\ locked = 0
    /\ rt' = Acquired(targets, "closer")
    /\ closer' = [state |-> "closing", left |-> targets]
    /\ UNCHANGED <<hub, conns, replay, locked, pub, client, allowed, published>>
CloseMatching ==
    /\ closer.state = "due"
    /\ locked = 0
    /\ rt' = Acquired(conns, "closer")
    /\ closer' = [state |-> "closing", left |-> conns]
    /\ UNCHANGED <<hub, conns, replay, locked, pub, client, allowed, published>>

CloseNext ==
    /\ closer.state = "closing"
    /\ \/ \E r \in closer.left :
            /\ rt' = [rt EXCEPT ![r] = [Closed(@) EXCEPT !.busy = @ \ {"closer"}]]
            /\ closer' = [closer EXCEPT !.left = @ \ {r}]
       \/ /\ closer.left = {}
          /\ closer' = [closer EXCEPT !.state = "done"]
          /\ UNCHANGED rt
    /\ UNCHANGED <<hub, conns, replay, locked, pub, client, allowed, published>>

-----------------------------------------------------------------------------
(* Shutdown.                                                               *)

Shutdown ==
    /\ MaxShutdowns > 0
    /\ hub.state = "started"
    /\ hub' = [hub EXCEPT !.state = "stopping"]
    /\ UNCHANGED <<rt, conns, replay, locked, pub, client, allowed, closer, published>>

Collect ==
    /\ hub.state = "stopping"
    /\ locked = 0
    /\ rt' = Acquired(conns, "hub")
    /\ hub' = [state |-> "collected", left |-> conns, watched |-> conns]
    /\ replay' = << >>
    /\ UNCHANGED <<conns, locked, pub, client, allowed, closer, published>>

\* beginShutdown of every collected connection.
BeginShutdown ==
    /\ MaxShutdowns > 0
    /\ hub.state = "collected"
    /\ hub' = [hub EXCEPT !.state = "closing"]
    /\ UNCHANGED <<rt, conns, replay, locked, pub, client, allowed, closer, published>>

ShutdownNext ==
    /\ hub.state = "closing"
    /\ \E r \in hub.left :
         /\ rt' = [rt EXCEPT ![r] = [Closed(@) EXCEPT !.busy = @ \ {"hub"}]]
         /\ hub' = [hub EXCEPT !.left = @ \ {r}]
    /\ UNCHANGED <<conns, replay, locked, pub, client, allowed, closer, published>>

\* runDone: run has returned, or never will start.
RunDone(r) == rt[r].phase # "running"

Drained ==
    /\ hub.state = "closing" /\ hub.left = {}
    /\ \A r \in hub.watched : RunDone(r)
    /\ hub' = [hub EXCEPT !.state = "drained"]
    /\ UNCHANGED <<rt, conns, replay, locked, pub, client, allowed, closer, published>>

\* The shutdown budget ends first.
Abort ==
    /\ hub.state = "closing" /\ hub.left = {}
    /\ hub' = [hub EXCEPT !.state = "aborted"]
    /\ UNCHANGED <<rt, conns, replay, locked, pub, client, allowed, closer, published>>

-----------------------------------------------------------------------------

Connection(r) ==
    \/ Run(r) \/ WritePump(r) \/ Stop(r)
    \/ Unregister(r) \/ FinalSnapshot(r) \/ Subscribe(r)

Publisher(p) == PublishNext(p) \/ Backpressure(p) \/ Published(p)

Next ==
    \/ \E r \in Runtimes : Register(r) \/ Connection(r) \/ Prune(r)
                        \/ Authorize(r) \/ Unsubscribe(r)
    \/ Drop
    \/ \E p \in Publishers : Publisher(p) \/ \E e \in Events : PublishSelect(p, e)
    \/ Invalidate \/ CloseMatching \/ CloseNext
    \/ Shutdown \/ Collect \/ BeginShutdown \/ ShutdownNext \/ Drained \/ Abort

Spec == Init /\ [][Next]_vars

\* Goroutines that can go on do, the one that shuts the Hub down included; the
\* reader of a socket, its writer and the one that stops it are three.
Fairness ==
    /\ \A r \in Runtimes :
         /\ WF_vars(Run(r) \/ Stop(r) \/ Unregister(r) \/ FinalSnapshot(r))
         /\ WF_vars(WritePump(r)) /\ WF_vars(Subscribe(r))
    /\ \A p \in Publishers : WF_vars(Publisher(p))
    /\ WF_vars(CloseMatching) /\ WF_vars(CloseNext)
    /\ WF_vars(Collect) /\ WF_vars(BeginShutdown) /\ WF_vars(ShutdownNext) /\ WF_vars(Drained)

FairSpec == Spec /\ Fairness

-----------------------------------------------------------------------------
(* Properties.                                                             *)

\* A connection closed for backpressure, an invalidation or shutdown is never
\* resumable, whatever was publishing to it or stopping it at the time.
ClosedNotResumable ==
    \A r \in Runtimes : ~rt[r].replayable => rt[r].id \notin DOMAIN replay

Lingering(r) ==
    /\ closer.state = "done" /\ ~allowed
    /\ rt[r].phase = "running" /\ rt[r].open /\ rt[r].subscribed

\* After an authorization change has been carried out, no connection that was
\* opened afresh is still subscribed to what the User may no longer see, though
\* it asked before the change and was answered after.
InvalidationEndsSubscriptions == \A r \in Runtimes : Lingering(r) => rt[r].resumed

\* A shutdown in progress ends though clients, publishers and invalidations go
\* on, without the budget running out.
HubDrains == hub.state = "stopping" ~> hub.state \in {"drained", "aborted"}

=============================================================================
