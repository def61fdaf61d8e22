---------------------------- MODULE ServingLease ----------------------------
(***************************************************************************)
(* The serving proof: the lease that every process of                      *)
(* server/serving_node_lease.go keeps in the table serving_node_leases     *)
(* while it serves HTTP, and the offline commands (administrator recovery, *)
(* migration rollback) that may only run while nobody serves.              *)
(*                                                                         *)
(* A process measures its own elapsed time and the database stamps the     *)
(* lease with its clock; both advance at one rate, so one clock counts for *)
(* both.  A timer fires, a call returns and HTTP stops within the bound    *)
(* that a constant names: time does not pass a deadline before the step    *)
(* that is due.                                                            *)
(***************************************************************************)
EXTENDS Integers, FiniteSets

CONSTANTS
    Processes,        \* process incarnations; each has a lease ID of its own
    Nodes,            \* configured node IDs
    NodeOf,           \* the node ID each process is configured with
    Lifetime,         \* servingNodeLeaseLifetime
    RenewalInterval,  \* servingNodeLeaseRenewalInterval
    OperationLimit,   \* servingNodeLeaseOperationLimit
    RetryInterval,    \* servingNodeLeaseRetryInterval
    StopMargin,       \* servingNodeLeaseStopMargin
    StartLimit,       \* how long the first Upsert may take to return
    StopTime,         \* how long closing HTTP takes once the lease failed
    MaxTime           \* bound: the clock stops here

\* validServingNodeLeaseTiming and newServingNodeLeaseRuntime
ASSUME ServingLeaseAssumption ==
    /\ NodeOf \in [Processes -> Nodes]
    /\ Lifetime \in Nat \ {0} /\ RenewalInterval \in Nat \ {0}
    /\ OperationLimit \in Nat \ {0} /\ RetryInterval \in Nat \ {0}
    /\ StopMargin \in Nat \ {0}
    /\ RenewalInterval + OperationLimit + StopMargin <= Lifetime
    /\ StartLimit \in Nat /\ StopTime \in Nat /\ MaxTime \in Nat

VARIABLES
    now,        \* the clock
    rows,       \* per node ID: its row of serving_node_leases, if any
    writers,    \* the Upserts that hold their locks
    fence,      \* an offline command holds the fence and found no lease live
    phase,      \* per process: where its lease runtime is
    http,       \* per process: whether HTTP is to start, serves or stopped
    reply,      \* per process: what the Upsert it waits for answered
    provenAt,   \* per process: local start of the last successful renewal
    due         \* per process: start of its call, its timer, or its failure

vars == <<now, rows, writers, fence, phase, http, reply, provenAt, due>>

----------------------------------------------------------------------------
(* The store *)

Locked(n) == \E w \in writers : NodeOf[w.process] = n

Expired(row) == row.expiresAt <= now

\* Upsert refuses an expired lease of the same process and a live one of
\* another process.
Refused(p) ==
    \E row \in rows[NodeOf[p]] :
        IF row.lease = p THEN Expired(row) ELSE ~Expired(row)

\* The caller no longer waits; its transaction commits or rolls back alone.
Abandon(p) ==
    /\ writers' = {IF w.process = p THEN [w EXCEPT !.awaited = FALSE] ELSE w :
                      w \in writers}
    /\ reply' = [reply EXCEPT ![p] = "none"]

\* Upsert up to its decision: lockServingNodeLease, the database time, the
\* row of the node.
BeginUpsert(p) ==
    /\ phase[p] \in {"starting", "renewing"} /\ reply[p] = "none"
    /\ ~fence /\ ~Locked(NodeOf[p])
    /\ IF Refused(p)
       THEN /\ reply' = [reply EXCEPT ![p] = "refused"]
            /\ UNCHANGED writers
       ELSE /\ writers' = writers \cup
                    {[process |-> p, at |-> now, awaited |-> TRUE]}
            /\ UNCHANGED reply
    /\ UNCHANGED <<now, rows, fence, phase, http, provenAt, due>>

\* The row of the node is inserted or replaced, and whoever still waits for
\* the answer gets it.
Commit(w) ==
    /\ rows' = [rows EXCEPT ![NodeOf[w.process]] =
                    {[lease |-> w.process, expiresAt |-> w.at + Lifetime]}]
    /\ writers' = writers \ {w}
    /\ reply' = IF w.awaited THEN [reply EXCEPT ![w.process] = "ok"] ELSE reply
    /\ UNCHANGED <<now, fence, phase, http, provenAt, due>>

Rollback(w) ==
    /\ ~w.awaited
    /\ writers' = writers \ {w}
    /\ UNCHANGED <<now, rows, fence, phase, http, reply, provenAt, due>>

\* Mutated form: the fence does not wait for the writers.
BeginOfflineUnfenced ==
    /\ ~fence
    /\ \A n \in Nodes : \A row \in rows[n] : Expired(row)
    /\ fence' = TRUE
    /\ UNCHANGED <<now, rows, writers, phase, http, reply, provenAt, due>>

\* lockOfflineAdministratorRecovery and Migrator.Down: the exclusive fence
\* waits for every writer, then no lease may be live.
BeginOffline ==
    /\ ~fence /\ writers = {}
    /\ \A n \in Nodes : \A row \in rows[n] : Expired(row)
    /\ fence' = TRUE
    /\ UNCHANGED <<now, rows, writers, phase, http, reply, provenAt, due>>

EndOffline ==
    /\ fence
    /\ fence' = FALSE
    /\ UNCHANGED <<now, rows, writers, phase, http, reply, provenAt, due>>

----------------------------------------------------------------------------
(* The runtime of one process *)

Start(p) ==
    /\ phase[p] = "new"
    /\ phase' = [phase EXCEPT ![p] = "starting"]
    /\ provenAt' = [provenAt EXCEPT ![p] = now]
    /\ due' = [due EXCEPT ![p] = now]
    /\ UNCHANGED <<now, rows, writers, fence, http, reply>>

\* Start returns and maintain arms its first timer.
Started(p) ==
    /\ phase[p] = "starting" /\ reply[p] = "ok"
    /\ phase' = [phase EXCEPT ![p] = "waiting"]
    /\ reply' = [reply EXCEPT ![p] = "none"]
    /\ due' = [due EXCEPT ![p] = now + RenewalInterval]
    /\ UNCHANGED <<now, rows, writers, fence, http, provenAt>>

\* Start returns an error: refused, or the call failed.
StartFails(p) ==
    /\ phase[p] = "starting"
    /\ phase' = [phase EXCEPT ![p] = "closed"]
    /\ http' = [http EXCEPT ![p] = "stopped"]
    /\ Abandon(p)
    /\ UNCHANGED <<now, rows, fence, provenAt, due>>

\* fail: the server will be told to close HTTP.
Fail(p) ==
    /\ phase' = [phase EXCEPT ![p] = "failed"]
    /\ due' = [due EXCEPT ![p] = now]

\* Mutated form: a renewal may start as late as it should have ended.
TimerFiresLate(p) ==
    /\ phase[p] = "waiting" /\ now >= due[p]
    /\ IF now > provenAt[p] + Lifetime - StopMargin
       THEN Fail(p)
       ELSE /\ phase' = [phase EXCEPT ![p] = "renewing"]
            /\ due' = [due EXCEPT ![p] = now]
    /\ UNCHANGED <<now, rows, writers, fence, http, reply, provenAt>>

\* maintain's timer: renew while an attempt still fits, or give up.
TimerFires(p) ==
    /\ phase[p] = "waiting" /\ now >= due[p]
    /\ IF now + OperationLimit > provenAt[p] + Lifetime - StopMargin
       THEN Fail(p)
       ELSE /\ phase' = [phase EXCEPT ![p] = "renewing"]
            /\ due' = [due EXCEPT ![p] = now]
    /\ UNCHANGED <<now, rows, writers, fence, http, reply, provenAt>>

\* The store answered in time: the lease runs from the start of the call, or
\* a conflict, which is terminal.
RenewalAnswered(p) ==
    /\ phase[p] = "renewing" /\ reply[p] # "none"
    /\ IF reply[p] = "ok"
       THEN /\ phase' = [phase EXCEPT ![p] = "waiting"]
            /\ provenAt' = [provenAt EXCEPT ![p] = due[p]]
            /\ due' = [due EXCEPT ![p] = now + RenewalInterval]
       ELSE Fail(p) /\ UNCHANGED provenAt
    /\ reply' = [reply EXCEPT ![p] = "none"]
    /\ UNCHANGED <<now, rows, writers, fence, http>>

\* The call timed out or broke, whether or not it commits.
RenewalFails(p) ==
    /\ phase[p] = "renewing"
    /\ phase' = [phase EXCEPT ![p] = "waiting"]
    /\ due' = [due EXCEPT ![p] = now + RetryInterval]
    /\ Abandon(p)
    /\ UNCHANGED <<now, rows, fence, http, provenAt>>

\* HTTP accepts the listener.  A failure that comes too late for the last
\* check of the startup is found right after it.
Serve(p) ==
    /\ http[p] = "starting"
    /\ \/ phase[p] \in {"waiting", "renewing"}
       \/ phase[p] = "failed" /\ now <= due[p] + StopTime
    /\ http' = [http EXCEPT ![p] = "serving"]
    /\ UNCHANGED <<now, rows, writers, fence, phase, reply, provenAt, due>>

\* HTTP is closed for a failed lease, or drained for any other reason.
StopServing(p) ==
    /\ http[p] = "serving"
    /\ http' = [http EXCEPT ![p] = "stopped"]
    /\ UNCHANGED <<now, rows, writers, fence, phase, reply, provenAt, due>>

\* Close, which the shutdown calls after HTTP stopped: maintain ends, and a
\* lease that has not failed is withdrawn.
Close(p) ==
    /\ http[p] # "serving"
    /\ phase[p] \in {"waiting", "renewing", "failed"}
    /\ phase' = [phase EXCEPT ![p] = IF @ = "failed" THEN "closed"
                                                     ELSE "withdrawing"]
    /\ http' = [http EXCEPT ![p] = "stopped"]
    /\ due' = [due EXCEPT ![p] = now]
    /\ Abandon(p)
    /\ UNCHANGED <<now, rows, fence, provenAt>>

\* Mutated form: the row of the node is deleted whoever holds it.
WithdrawAny(p) ==
    /\ phase[p] = "withdrawing"
    /\ ~fence /\ ~Locked(NodeOf[p])
    /\ rows' = [rows EXCEPT ![NodeOf[p]] = {}]
    /\ phase' = [phase EXCEPT ![p] = "closed"]
    /\ UNCHANGED <<now, writers, fence, http, reply, provenAt, due>>

\* Delete
Withdraw(p) ==
    /\ phase[p] = "withdrawing"
    /\ ~fence /\ ~Locked(NodeOf[p])
    /\ rows' = [rows EXCEPT ![NodeOf[p]] = {row \in @ : row.lease # p}]
    /\ phase' = [phase EXCEPT ![p] = "closed"]
    /\ UNCHANGED <<now, writers, fence, http, reply, provenAt, due>>

WithdrawFails(p) ==
    /\ phase[p] = "withdrawing"
    /\ phase' = [phase EXCEPT ![p] = "closed"]
    /\ UNCHANGED <<now, rows, writers, fence, http, reply, provenAt, due>>

\* The process dies.
Crash(p) ==
    /\ phase[p] \notin {"new", "closed"}
    /\ phase' = [phase EXCEPT ![p] = "closed"]
    /\ http' = [http EXCEPT ![p] = "stopped"]
    /\ Abandon(p)
    /\ UNCHANGED <<now, rows, fence, provenAt, due>>

\* Time may pass for p: nothing it does is overdue.
OnTime(p) ==
    /\ phase[p] = "starting" => now < due[p] + StartLimit
    /\ phase[p] = "waiting" => now < due[p]
    /\ phase[p] \in {"renewing", "withdrawing"} => now < due[p] + OperationLimit
    /\ phase[p] = "failed" /\ http[p] = "serving" => now < due[p] + StopTime

Tick ==
    /\ now < MaxTime
    /\ \A p \in Processes : OnTime(p)
    /\ now' = now + 1
    /\ UNCHANGED <<rows, writers, fence, phase, http, reply, provenAt, due>>

----------------------------------------------------------------------------
Init ==
    /\ now = 0
    /\ rows = [n \in Nodes |-> {}]
    /\ writers = {}
    /\ fence = FALSE
    /\ phase = [p \in Processes |-> "new"]
    /\ http = [p \in Processes |-> "starting"]
    /\ reply = [p \in Processes |-> "none"]
    /\ provenAt = [p \in Processes |-> 0]
    /\ due = [p \in Processes |-> 0]

Step(p) ==
    \/ BeginUpsert(p) \/ Start(p) \/ Started(p) \/ StartFails(p)
    \/ TimerFires(p) \/ RenewalAnswered(p) \/ RenewalFails(p)
    \/ Serve(p) \/ StopServing(p) \/ Close(p)
    \/ Withdraw(p) \/ WithdrawFails(p) \/ Crash(p)

Next ==
    \/ \E p \in Processes : Step(p)
    \/ \E w \in writers : Commit(w) \/ Rollback(w)
    \/ BeginOffline
    \/ EndOffline
    \/ Tick

Spec == Init /\ [][Next]_vars

----------------------------------------------------------------------------
(* Properties *)

Row == [lease : Processes, expiresAt : Nat]
Writer == [process : Processes, at : Nat, awaited : BOOLEAN]

\* Every variable has its type; no computed time (an expiry, a timer) ever
\* falls before the start of the clock.
TypeOK ==
    /\ now \in Nat
    /\ rows \in [Nodes -> SUBSET Row]
    /\ writers \subseteq Writer
    /\ fence \in BOOLEAN
    /\ phase \in [Processes -> {"new", "starting", "waiting", "renewing",
                                "failed", "withdrawing", "closed"}]
    /\ http \in [Processes -> {"starting", "serving", "stopped"}]
    /\ reply \in [Processes -> {"none", "ok", "refused"}]
    /\ provenAt \in [Processes -> Nat]
    /\ due \in [Processes -> Nat]

Live(p) ==
    \E row \in rows[NodeOf[p]] : row.lease = p /\ now < row.expiresAt

\* "This node never serves without a proven lease": while HTTP serves, the
\* database holds an unexpired lease of this very process, although the
\* process only knows when its calls started and answers are late or lost.
ServingProven == \A p \in Processes : http[p] = "serving" => Live(p)

\* While an offline command works, no process serves and none begins to.
OfflineAlone == fence => \A p \in Processes : http[p] # "serving"

\* A process that keeps renewing is never refused: it gives up by itself
\* before its lease expires or another process may take its node ID.
RenewalNeverRefused ==
    \A p \in Processes : phase[p] = "renewing" => reply[p] # "refused"

\* A live lease is extended or withdrawn by its own process and by no other
\* step, late commits of abandoned calls included.
LiveLeaseKept == [][
    \A n \in Nodes : \A row \in rows[n] : ~Expired(row) =>
        \/ \E new \in rows'[n] :
                new.lease = row.lease /\ new.expiresAt >= row.expiresAt
        \/ rows'[n] = {} /\ phase[row.lease] = "withdrawing"]_vars

=============================================================================
