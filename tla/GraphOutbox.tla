----------------------------- MODULE GraphOutbox -----------------------------
(***************************************************************************)
(* The graph projection of lib/graph-store.js: the ledger in SQLite is     *)
(* copied scope by scope to Neo4j, and an outbox with one row per scope    *)
(* remembers what is still to be copied.  Writers queue their scope and    *)
(* flush it, the administrator flushes what is due, the start of the       *)
(* server queues and flushes everything.  No timer flushes.                *)
(*                                                                         *)
(* A call is one step up to its next await: the embedding of a writer, the *)
(* connection, the write transaction of Neo4j.  That transaction commits   *)
(* at its own time, and its answer may be lost after it did.               *)
(*                                                                         *)
(* Of the ledger only a version per scope is kept, of a projection the     *)
(* version it was read from.  Of the rows that are due a flush takes the   *)
(* least recently updated ones; here it takes any.                         *)
(*                                                                         *)
(* An operator named for a mistake stands before the one it mistakes; no   *)
(* action uses it, the checks substitute it.                               *)
(***************************************************************************)
EXTENDS Naturals, FiniteSets

CONSTANTS
  Scope,       \* user, agent, story and branch
  NoScope,     \* the scope of a call that has none
  Call,        \* bound: calls that may await at the same time
  StartCall,   \* the one of them that initializeGraphStore makes
  Config,      \* projectionBatchSize and required of config.neo4j, as it may be
  MaxVersion,  \* bound: changes of the ledger of a scope
  MaxFaults,   \* bound: outages of Neo4j and failed transactions
  MaxCrashes   \* bound: deaths of the process

ASSUME CallAssumption ==
  StartCall \in Call /\ NoScope \notin Scope

ASSUME BudgetAssumption ==
  /\ Config \subseteq [batch: Nat \ {0}, required: BOOLEAN]
  /\ MaxVersion \in [Scope -> Nat] /\ MaxFaults \in Nat /\ MaxCrashes \in Nat

VARIABLES
  ledger,   \* version of the memory rows of a scope in SQLite
  row,      \* rows of graph_projection_outbox, by scope
  graph,    \* version of the ledger that the projection in Neo4j shows
  link,     \* runtimeState: connected, and nextRetryAt still to come
  call,     \* what each call awaits
  server,   \* the process: down, starting (top-level await) or serving
  excuse,   \* history: what may keep the projection of a scope from its row
  faults, crashes,
  config    \* config.neo4j, the same in every process

vars == <<ledger, row, graph, link, call, server, excuse, faults, crashes, config>>

Version == Nat

OutboxRow == [status: {"none", "pending", "processing", "succeeded"}, due: BOOLEAN]

(* "writing" awaits an embedding and has yet to queue its scope;           *)
(* "connecting" will flush the scopes in todo; "projecting" and            *)
(* "committed" await Neo4j for scope, then go on with those in todo.       *)
CallState ==
  [at: {"idle", "writing", "connecting", "projecting", "committed"},
   scope: Scope \cup {NoScope}, todo: SUBSET Scope, snapshot: Version]

Idle == [at |-> "idle", scope |-> NoScope, todo |-> {}, snapshot |-> 0]

Excuses == {"unqueued", "overlap"}

TypeOK ==
  /\ ledger \in [Scope -> Version]
  /\ row \in [Scope -> OutboxRow]
  /\ graph \in [Scope -> Version]
  /\ link \in [connected: BOOLEAN, gated: BOOLEAN]
  /\ call \in [Call -> CallState]
  /\ server \in {"down", "starting", "serving"}
  /\ excuse \in [Scope -> SUBSET Excuses]
  /\ faults \in 0 .. MaxFaults
  /\ crashes \in 0 .. MaxCrashes
  /\ config \in Config

Writing(s)    == \E c \in Call : call[c].at = "writing" /\ call[c].scope = s
Projecting(s) == \E c \in Call : /\ call[c].at \in {"projecting", "committed"}
                                 /\ call[c].scope = s

-----------------------------------------------------------------------------
(* queueGraphProjection: the row of the scope, new or not, becomes due.    *)

QueuedIfNew(s) ==
  IF row[s].status = "none" THEN [status |-> "pending", due |-> TRUE] ELSE row[s]

Queued(s) == [status |-> "pending", due |-> TRUE]

(* What is queued while nothing is being projected will be projected as it *)
(* is then; a projection under way was read before.                        *)
ExcuseOfQueueing(s) == IF Projecting(s) THEN excuse[s] \cup {"overlap"} ELSE {}

-----------------------------------------------------------------------------
(* flushGraphProjectionOutbox: the gate, the connection, the loop.         *)

OutboxRowsPending(rows) == {s \in Scope : rows[s].status = "pending" /\ rows[s].due}

OutboxRows(rows) ==
  {s \in Scope : rows[s].status \in {"pending", "processing"} /\ rows[s].due}

Limit(scopes) == IF Cardinality(scopes) = 1 THEN 1 ELSE config.batch

\* The rows a flush of scopes may have selected.
Selections(scopes, rows) ==
  LET open == OutboxRows(rows) \cap scopes
  IN {chosen \in SUBSET open :
        IF Cardinality(open) <= Limit(scopes)
        THEN chosen = open ELSE Cardinality(chosen) = Limit(scopes)}

\* The loop goes on with the rows it selected, whatever became of them.
Continue(c, todo, rows) ==
  \/ /\ todo = {}
     /\ call' = [call EXCEPT ![c] = Idle]
     /\ row' = rows
  \/ \E s \in todo :
       /\ row' = [rows EXCEPT ![s].status = "processing"]
       /\ call' = [call EXCEPT ![c] = [at |-> "projecting", scope |-> s,
                                       todo |-> todo \ {s}, snapshot |-> ledger[s]]]

Connecting(scopes) == [Idle EXCEPT !.at = "connecting", !.todo = scopes]

Flush(c, scopes, rows) ==
  \/ /\ link.connected
     /\ \E chosen \in Selections(scopes, rows) : Continue(c, chosen, rows)
  \/ /\ ~link.connected /\ link.gated
     /\ row' = rows
     /\ call' = [call EXCEPT ![c] = Idle]
  \/ /\ ~link.connected /\ ~link.gated
     /\ row' = rows
     /\ call' = [call EXCEPT ![c] = Connecting(scopes)]

Online  == [connected |-> TRUE, gated |-> FALSE]
Offline == [connected |-> FALSE, gated |-> TRUE]

Fault == faults < MaxFaults /\ faults' = faults + 1

\* Neo4j answers verifyConnectivity.
ConnectReturns(c) ==
  /\ call[c].at = "connecting" /\ server = "serving"
  /\ link' = Online
  /\ \E chosen \in Selections(call[c].todo, row) : Continue(c, chosen, row)
  /\ UNCHANGED <<ledger, graph, server, excuse, faults, crashes, config>>

(* It does not: another call may have connected in the meantime.  This     *)
(* outage began with a failure that has been counted.                      *)
ConnectFails(c) ==
  /\ call[c].at = "connecting" /\ server = "serving"
  /\ link' = [link EXCEPT !.gated = TRUE]
  /\ call' = [call EXCEPT ![c] = Idle]
  /\ UNCHANGED <<ledger, row, graph, server, excuse, faults, crashes, config>>

\* replaceScopeProjection: one transaction of Neo4j replaces the scope.
ProjectionCommits(c) ==
  /\ call[c].at = "projecting"
  /\ graph' = [graph EXCEPT ![call[c].scope] = call[c].snapshot]
  /\ call' = [call EXCEPT ![c].at = "committed"]
  /\ UNCHANGED <<ledger, row, link, server, excuse, faults, crashes, config>>

Succeeded(s) == [row EXCEPT ![s].status = "succeeded"]

ProjectionReturns(c) ==
  /\ call[c].at = "committed"
  /\ Continue(c, call[c].todo, Succeeded(call[c].scope))
  /\ link' = Online
  /\ UNCHANGED <<ledger, graph, server, excuse, faults, crashes, config>>

FailedIsDone(s) == [row EXCEPT ![s] = [status |-> "succeeded", due |-> FALSE]]

Failed(s) == [row EXCEPT ![s] = [status |-> "pending", due |-> FALSE]]

(* The transaction fails, or its answer is lost.  When Neo4j is required   *)
(* the call throws, and the start of the server with it.                   *)
ProjectionFails(c) ==
  /\ call[c].at \in {"projecting", "committed"}
  /\ Fault
  /\ link' = Offline
  /\ IF config.required
     THEN /\ row' = Failed(call[c].scope)
          /\ call' = [call EXCEPT ![c] = Idle]
          /\ server' = IF server = "starting" THEN "down" ELSE server
     ELSE /\ Continue(c, call[c].todo, Failed(call[c].scope))
          /\ UNCHANGED server
  /\ UNCHANGED <<ledger, graph, excuse, crashes, config>>

\* available_at of a failed row is reached.
BackoffEnds(s) ==
  /\ row[s].status # "none" /\ ~row[s].due
  /\ row' = [row EXCEPT ![s].due = TRUE]
  /\ UNCHANGED <<ledger, graph, link, call, server, excuse, faults, crashes, config>>

\* nextRetryAt is reached.
GateEnds ==
  /\ link.gated
  /\ link' = [link EXCEPT !.gated = FALSE]
  /\ UNCHANGED <<ledger, row, graph, call, server, excuse, faults, crashes, config>>

\* readGraphProjection throws; it was called while connected.
ReadFails ==
  /\ server = "serving"
  /\ Fault
  /\ link' = Offline
  /\ UNCHANGED <<ledger, row, graph, call, server, excuse, crashes, config>>

-----------------------------------------------------------------------------
(* Callers: writers of the ledger and the administrator.                   *)

MayCall(c) == server = "serving" /\ call[c] = Idle

Changed(s) == [ledger EXCEPT ![s] = @ + 1]

\* storeEvent and storeSemanticClaim write their rows and await an embedding.
StoreRows(c, s) ==
  /\ MayCall(c) /\ ledger[s] < MaxVersion[s]
  /\ ledger' = Changed(s)
  /\ call' = [call EXCEPT ![c] = [Idle EXCEPT !.at = "writing", !.scope = s]]
  /\ UNCHANGED <<row, graph, link, server, excuse, faults, crashes, config>>

(* An extraction goes on with its next record, having queued the scope for *)
(* the last one, or not, when storing it threw and was passed over.        *)
StoreNext(c) ==
  LET s == call[c].scope
  IN /\ call[c].at = "writing" /\ ledger[s] < MaxVersion[s]
     /\ ledger' = Changed(s)
     /\ \/ /\ row' = [row EXCEPT ![s] = Queued(s)]
           /\ excuse' = [excuse EXCEPT ![s] = ExcuseOfQueueing(s)]
        \/ UNCHANGED <<row, excuse>>
     /\ UNCHANGED <<graph, link, call, server, faults, crashes, config>>

\* projectGraphScope: the writer queues its scope and flushes it.
ProjectGraphScope(c) ==
  LET s == call[c].scope
  IN /\ call[c].at = "writing"
     /\ excuse' = [excuse EXCEPT ![s] = ExcuseOfQueueing(s)]
     /\ Flush(c, {s}, [row EXCEPT ![s] = Queued(s)])
     /\ UNCHANGED <<ledger, graph, link, server, faults, crashes, config>>

\* The embedding throws: the rows stay and their scope is not queued for them.
WriterThrows(c) ==
  /\ call[c].at = "writing"
  /\ call' = [call EXCEPT ![c] = Idle]
  /\ excuse' = [excuse EXCEPT ![call[c].scope] = @ \cup {"unqueued"}]
  /\ UNCHANGED <<ledger, row, graph, link, server, faults, crashes, config>>

\* forgetEvent, forgetClaim and an entity repair change rows and queue at once.
ChangeAndQueue(s) ==
  /\ server = "serving" /\ ledger[s] < MaxVersion[s]
  /\ ledger' = Changed(s)
  /\ row' = [row EXCEPT ![s] = Queued(s)]
  /\ excuse' = [excuse EXCEPT ![s] = ExcuseOfQueueing(s)]
  /\ UNCHANGED <<graph, link, call, server, faults, crashes, config>>

\* POST /api/admin/graph/replay.
Replay(c) ==
  /\ MayCall(c)
  /\ Flush(c, Scope, row)
  /\ UNCHANGED <<ledger, graph, link, server, excuse, faults, crashes, config>>

-----------------------------------------------------------------------------
(* The process dies and is started again.                                  *)

Dies ==
  /\ server # "down" /\ crashes < MaxCrashes
  /\ crashes' = crashes + 1
  /\ server' = "down"
  /\ call' = [c \in Call |-> Idle]

Unqueued(s) == excuse[s] \cup {"unqueued"}

Crash ==
  /\ Dies
  /\ excuse' = [s \in Scope |-> IF Writing(s) THEN Unqueued(s) ELSE excuse[s]]
  /\ UNCHANGED <<ledger, row, graph, link, faults, config>>

\* Between the transaction of a forgotten record and its queueing.
CrashBeforeQueueing(s) ==
  /\ server = "serving" /\ ledger[s] < MaxVersion[s]
  /\ Dies
  /\ ledger' = Changed(s)
  /\ excuse' = [z \in Scope |-> IF z = s \/ Writing(z) THEN Unqueued(z) ELSE excuse[z]]
  /\ UNCHANGED <<row, graph, link, faults, config>>

\* initializeGraphStore awaits the connection.
Start ==
  /\ server = "down"
  /\ server' = "starting"
  /\ link' = [connected |-> FALSE, gated |-> FALSE]
  /\ call' = [call EXCEPT ![StartCall] = Connecting(Scope)]
  /\ UNCHANGED <<ledger, row, graph, excuse, faults, crashes, config>>

DiscoverQueued == {s \in Scope : row[s].status # "none"}

\* discoverScopes: every scope that has memory rows.
DiscoverScopes == {s \in Scope : ledger[s] > 0}

StartConnects ==
  /\ server = "starting" /\ call[StartCall].at = "connecting"
  /\ link' = Online
  /\ LET rows == [s \in Scope |-> IF s \in DiscoverScopes THEN Queued(s) ELSE row[s]]
     IN \E chosen \in Selections(Scope, rows) : Continue(StartCall, chosen, rows)
  /\ excuse' = [s \in Scope |-> IF s \in DiscoverScopes THEN {} ELSE excuse[s]]
  /\ UNCHANGED <<ledger, graph, server, faults, crashes, config>>

StartFails ==
  /\ server = "starting" /\ call[StartCall].at = "connecting"
  /\ Fault
  /\ link' = Offline
  /\ call' = [call EXCEPT ![StartCall] = Idle]
  /\ server' = IF config.required THEN "down" ELSE server
  /\ UNCHANGED <<ledger, row, graph, excuse, crashes, config>>

Listen ==
  /\ server = "starting" /\ call[StartCall] = Idle
  /\ server' = "serving"
  /\ UNCHANGED <<ledger, row, graph, link, call, excuse, faults, crashes, config>>

-----------------------------------------------------------------------------
Init ==
  /\ ledger = [s \in Scope |-> 0]
  /\ row = [s \in Scope |-> [status |-> "none", due |-> FALSE]]
  /\ graph = [s \in Scope |-> 0]
  /\ link = [connected |-> FALSE, gated |-> FALSE]
  /\ call = [c \in Call |-> Idle]
  /\ server = "down"
  /\ excuse = [s \in Scope |-> {}]
  /\ faults = 0 /\ crashes = 0
  /\ config \in Config

\* What call c awaits is over, one way or the other.
Settles(c) ==
  \/ ConnectReturns(c)
  \/ ConnectFails(c)
  \/ ProjectionCommits(c)
  \/ ProjectionReturns(c)
  \/ ProjectionFails(c)
  \/ ProjectGraphScope(c)
  \/ WriterThrows(c)

Starts ==
  \/ Start
  \/ StartConnects
  \/ StartFails
  \/ Listen

Next ==
  \/ \E c \in Call : Settles(c) \/ StoreNext(c) \/ Replay(c)
  \/ \E c \in Call, s \in Scope : StoreRows(c, s)
  \/ \E s \in Scope : \/ ChangeAndQueue(s)
                      \/ BackoffEnds(s)
                      \/ CrashBeforeQueueing(s)
  \/ GateEnds
  \/ ReadFails
  \/ Crash
  \/ Starts

Spec == Init /\ [][Next]_vars

(* Promises settle, the clock passes, the service manager restarts the     *)
(* process, and an outage of Neo4j ends: one of the attempts to connect    *)
(* succeeds.  Nothing in the code flushes by itself.                       *)
Fairness ==
  /\ SF_vars(\E c \in Call : ConnectReturns(c))
  /\ \A c \in Call : WF_vars(Settles(c))
  /\ \A s \in Scope : WF_vars(BackoffEnds(s))
  /\ WF_vars(GateEnds)
  /\ WF_vars(Starts)

(* An administrator who replays while anything is left to replay, as       *)
(* docs/bitemporal-neo4j-pi-runtime.md:90 has it.                          *)
ReplaySpec == Spec /\ Fairness /\ WF_vars(\E c \in Call : Replay(c))

-----------------------------------------------------------------------------
(* Properties.                                                             *)

\* Nobody is about to queue or to write the projection of s.
Quiet(s) == ~Writing(s) /\ ~Projecting(s)

(* A row that says succeeded tells the truth: the graph shows the ledger   *)
(* as it is, unless the scope was queued while a projection of it was      *)
(* awaited, or a write threw or died before it queued and no later queueing *)
(* covered it.  Lost answers, failed batches, replays and restarts are no  *)
(* excuse (flushGraphProjectionOutbox, initializeGraphStore).              *)
StaleGraphHasACause ==
  \A s \in Scope : row[s].status \in {"none", "succeeded"} /\ Quiet(s) /\ excuse[s] = {}
                   => graph[s] = ledger[s]

(* A start that reached Neo4j leaves no scope behind: what it did not      *)
(* project itself, for the limit of its batch or a failure, is still in    *)
(* the outbox when the server listens (initializeGraphStore).              *)
StartLeavesNothingBehind ==
  [][Listen /\ link.connected =>
       \A s \in Scope : graph[s] = ledger[s] \/ row[s].status \in {"pending", "processing"}]_vars

(* While an administrator goes on replaying, every queued scope is         *)
(* projected in the end: no row is stranded by a failure, by the death of  *)
(* the process that was projecting it, by the gate or by the batch         *)
(* (outboxRows takes processing rows too).                                 *)
QueuedScopeIsProjected ==
  \A s \in Scope : (row[s].status \in {"pending", "processing"})
                      ~> (row[s].status = "succeeded")

-----------------------------------------------------------------------------
(* docs/bitemporal-neo4j-pi-runtime.md:88: the row is succeeded after the  *)
(* projection succeeded; a scope queued while its projection is awaited is *)
(* marked with it, though the projection was read before.                  *)
SucceededIsCurrent ==
  \A s \in Scope : row[s].status = "succeeded" /\ Quiet(s) /\ "unqueued" \notin excuse[s]
                   => graph[s] = ledger[s]
=============================================================================
