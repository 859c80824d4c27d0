-------------------------- MODULE GraphOutboxProofs --------------------------
(***************************************************************************)
(* Proofs about GraphOutbox, for every set of scopes and calls, every      *)
(* configuration and any number of changes, failures and restarts: types,  *)
(* the truth of the rows that say succeeded, and the completeness of a     *)
(* start that reached Neo4j.                                               *)
(***************************************************************************)
EXTENDS GraphOutbox, TLAPS

Flying(c) == call[c].at \in {"projecting", "committed"}

\* Who may be awaiting something in which state of the process.
ServerInv ==
  /\ \A c \in Call : /\ call[c].at = "idle" => call[c] = Idle
                     /\ call[c].at \in {"writing", "projecting", "committed"}
                          => call[c].scope \in Scope
  /\ server = "down" => \A c \in Call : call[c] = Idle
  /\ server = "starting" => \A c \in Call : /\ c # StartCall => call[c] = Idle
                                            /\ call[c].at # "writing"

\* Only a scope that was written has something to excuse.
WrittenInv ==
  \A s \in Scope : excuse[s] # {} \/ Writing(s) => ledger[s] > 0

(* What is projected of a scope without an excuse is the ledger as it is,  *)
(* and so is the graph when its row has nothing more to do.                *)
CauseInv ==
  \A s \in Scope : excuse[s] = {} /\ ~Writing(s) =>
    /\ \A c \in Call : Flying(c) /\ call[c].scope = s =>
         /\ call[c].snapshot = ledger[s]
         /\ call[c].at = "committed" => graph[s] = ledger[s]
    /\ row[s].status \in {"none", "succeeded"} => graph[s] = ledger[s]

\* A start that reached Neo4j has queued every scope.
StartInv ==
  server = "starting" /\ (Flying(StartCall) \/ (call[StartCall] = Idle /\ link.connected))
    => \A s \in Scope : excuse[s] = {}

IInv == TypeOK /\ ServerInv /\ WrittenInv /\ CauseInv /\ StartInv

-----------------------------------------------------------------------------
(* What a flush does to the rows and to its own call.                      *)

Goes(c, rows) ==
  /\ row' \in [Scope -> OutboxRow]
  /\ \A s \in Scope : row'[s].status \in {rows[s].status, "processing"}
  /\ call' \in [Call -> CallState]
  /\ \A d \in Call : d # c => call'[d] = call[d]
  /\ \/ call'[c] = Idle
     \/ call'[c].at = "connecting"
     \/ /\ call'[c].at = "projecting" /\ call'[c].scope \in Scope
        /\ call'[c].snapshot = ledger[call'[c].scope]

\* The empty call is typed; it never has a scope to write or to project.
LEMMA IdleTyped == Idle \in CallState /\ Idle.at = "idle"
BY BudgetAssumption DEF Idle, CallState, Version

LEMMA ConnectingTyped ==
  ASSUME NEW scopes \in SUBSET Scope
  PROVE  Connecting(scopes) \in CallState /\ Connecting(scopes).at = "connecting"
BY IdleTyped DEF Connecting, CallState, Idle

\* The loop of a flush only marks the row that it projects next.
LEMMA ContinueGoes ==
  ASSUME TypeOK, NEW c \in Call, NEW todo \in SUBSET Scope,
         NEW rows \in [Scope -> OutboxRow], Continue(c, todo, rows)
  PROVE  Goes(c, rows)
<1>1. CASE todo = {} /\ call' = [call EXCEPT ![c] = Idle] /\ row' = rows
  BY <1>1, IdleTyped DEF Goes, TypeOK
<1>2. ASSUME NEW s \in todo,
             row' = [rows EXCEPT ![s].status = "processing"],
             call' = [call EXCEPT ![c] = [at |-> "projecting", scope |-> s,
                                          todo |-> todo \ {s}, snapshot |-> ledger[s]]]
      PROVE  Goes(c, rows)
  <2> DEFINE next == [at |-> "projecting", scope |-> s,
                      todo |-> todo \ {s}, snapshot |-> ledger[s]]
  <2>1. next \in CallState
    BY DEF TypeOK, CallState
  <2>2. call' \in [Call -> CallState] /\ call'[c] = next
        /\ \A d \in Call : d # c => call'[d] = call[d]
    BY <1>2, <2>1 DEF TypeOK
  <2>3. row' \in [Scope -> OutboxRow]
        /\ \A z \in Scope : row'[z].status \in {rows[z].status, "processing"}
    BY <1>2 DEF OutboxRow
  <2> QED BY <2>2, <2>3 DEF Goes
<1> QED BY <1>1, <1>2 DEF Continue

\* So does a flush, which may also stop at the gate or await a connection.
LEMMA FlushGoes ==
  ASSUME TypeOK, NEW c \in Call, NEW scopes \in SUBSET Scope,
         NEW rows \in [Scope -> OutboxRow], Flush(c, scopes, rows)
  PROVE  Goes(c, rows)
<1>1. CASE link.connected
  <2>1. PICK chosen \in Selections(scopes, rows) : Continue(c, chosen, rows)
    BY <1>1 DEF Flush
  <2>2. chosen \in SUBSET Scope
    BY <2>1 DEF Selections, OutboxRows
  <2> QED BY <2>1, <2>2, ContinueGoes
<1>2. CASE ~link.connected /\ link.gated
  <2>1. row' = rows /\ call' = [call EXCEPT ![c] = Idle]
    BY <1>2 DEF Flush
  <2> QED BY <2>1, IdleTyped DEF Goes, TypeOK
<1>3. CASE ~link.connected /\ ~link.gated
  <2> DEFINE next == Connecting(scopes)
  <2>1. row' = rows /\ call' = [call EXCEPT ![c] = next]
    BY <1>3 DEF Flush
  <2>2. next \in CallState /\ next.at = "connecting"
    BY ConnectingTyped
  <2>3. call' \in [Call -> CallState] /\ call'[c] = next
        /\ \A d \in Call : d # c => call'[d] = call[d]
    BY <2>1, <2>2 DEF TypeOK
  <2> QED BY <2>1, <2>2, <2>3 DEF Goes
<1> QED BY <1>1, <1>2, <1>3 DEF TypeOK

\* A selection after a connection goes on like a loop.
LEMMA SelectionGoes ==
  ASSUME TypeOK, NEW c \in Call, NEW scopes, NEW rows \in [Scope -> OutboxRow],
         \E chosen \in Selections(scopes, rows) : Continue(c, chosen, rows)
  PROVE  Goes(c, rows)
<1>1. PICK chosen \in Selections(scopes, rows) : Continue(c, chosen, rows)
  OBVIOUS
<1>2. chosen \in SUBSET Scope
  BY <1>1 DEF Selections, OutboxRows
<1> QED BY <1>1, <1>2, ContinueGoes

\* Every row that a step writes is typed.
LEMMA RowsTyped ==
  ASSUME TypeOK
  PROVE  /\ \A s \in Scope : /\ [row EXCEPT ![s] = Queued(s)] \in [Scope -> OutboxRow]
                             /\ Succeeded(s) \in [Scope -> OutboxRow]
                             /\ Failed(s) \in [Scope -> OutboxRow]
                             /\ [row EXCEPT ![s].due = TRUE] \in [Scope -> OutboxRow]
         /\ [z \in Scope |-> IF z \in DiscoverScopes THEN Queued(z) ELSE row[z]]
              \in [Scope -> OutboxRow]
BY DEF TypeOK, OutboxRow, Queued, Succeeded, Failed

-----------------------------------------------------------------------------
(* Types.                                                                  *)

LEMMA InitTyped == Init => TypeOK
<1> SUFFICES ASSUME Init PROVE TypeOK
  OBVIOUS
<1>1. 0 \in Version
  BY BudgetAssumption DEF Version
<1>2. 0 \in 0 .. MaxFaults /\ 0 \in 0 .. MaxCrashes
  BY BudgetAssumption
<1> QED BY <1>1, <1>2, IdleTyped DEF Init, TypeOK, OutboxRow

LEMMA TypeStep == TypeOK /\ ServerInv /\ [Next]_vars => TypeOK'
<1> SUFFICES ASSUME TypeOK, ServerInv, [Next]_vars PROVE TypeOK'
  OBVIOUS
<1>1. \A rows \in [Scope -> OutboxRow] : \A c \in Call :
         Goes(c, rows) => row' \in [Scope -> OutboxRow] /\ call' \in [Call -> CallState]
  BY DEF Goes
<1>2. Fault => faults' \in 0 .. MaxFaults
  BY BudgetAssumption DEF Fault, TypeOK
<1>3. Dies => /\ crashes' \in 0 .. MaxCrashes /\ server' = "down"
              /\ call' \in [Call -> CallState]
  BY BudgetAssumption, IdleTyped DEF Dies, TypeOK
<1>4. \A s \in Scope : ledger[s] < MaxVersion[s] => Changed(s) \in [Scope -> Version]
  BY BudgetAssumption DEF Changed, TypeOK, Version
<1>5. \A s \in Scope : /\ ExcuseOfQueueing(s) \in SUBSET Excuses
                       /\ Unqueued(s) \in SUBSET Excuses
  BY DEF ExcuseOfQueueing, Unqueued, Excuses, TypeOK
<1>6. \A c \in Call : /\ [call EXCEPT ![c] = Idle] \in [Call -> CallState]
                      /\ [call EXCEPT ![c].at = "committed"] \in [Call -> CallState]
                      /\ [call EXCEPT ![c] = Connecting(Scope)] \in [Call -> CallState]
  BY IdleTyped, ConnectingTyped DEF TypeOK, CallState
<1>7. \A c \in Call : call[c].todo \in SUBSET Scope
  BY DEF TypeOK, CallState
<1>8. Online \in [connected: BOOLEAN, gated: BOOLEAN]
      /\ Offline \in [connected: BOOLEAN, gated: BOOLEAN]
  BY DEF Online, Offline
<1>10. ASSUME NEW c \in Call, ConnectReturns(c) PROVE TypeOK'
  <2>1. Goes(c, row)
    BY <1>10, SelectionGoes DEF ConnectReturns, TypeOK
  <2> QED BY <1>10, <1>1, <1>8, <2>1 DEF ConnectReturns, TypeOK
<1>11. ASSUME NEW c \in Call, ConnectFails(c) PROVE TypeOK'
  BY <1>11, <1>2, <1>6 DEF ConnectFails, TypeOK
<1>12. ASSUME NEW c \in Call, ProjectionCommits(c) PROVE TypeOK'
  <2>1. call[c].snapshot \in Version
    BY DEF TypeOK, CallState
  <2> QED BY <1>12, <1>6, <2>1 DEF ProjectionCommits, TypeOK
<1>13. ASSUME NEW c \in Call, ProjectionReturns(c) PROVE TypeOK'
  <2>1. Goes(c, Succeeded(call[c].scope)) /\ Succeeded(call[c].scope) \in [Scope -> OutboxRow]
    BY <1>13, <1>7, ContinueGoes, RowsTyped DEF ProjectionReturns, ServerInv
  <2> QED BY <1>13, <1>1, <1>8, <2>1 DEF ProjectionReturns, TypeOK
<1>14. ASSUME NEW c \in Call, ProjectionFails(c) PROVE TypeOK'
  <2>1. Failed(call[c].scope) \in [Scope -> OutboxRow]
    BY <1>14, RowsTyped DEF ProjectionFails, ServerInv
  <2>2. row' \in [Scope -> OutboxRow] /\ call' \in [Call -> CallState]
    BY <1>14, <1>1, <1>6, <1>7, <2>1, ContinueGoes DEF ProjectionFails
  <2>3. server' \in {"down", "starting", "serving"}
    BY <1>14 DEF ProjectionFails, TypeOK
  <2> QED BY <1>14, <1>2, <1>8, <2>2, <2>3 DEF ProjectionFails, TypeOK
<1>15. ASSUME NEW c \in Call, ProjectGraphScope(c) PROVE TypeOK'
  <2> DEFINE s == call[c].scope
             rows == [row EXCEPT ![s] = Queued(s)]
  <2>1. s \in Scope /\ rows \in [Scope -> OutboxRow]
    BY <1>15, RowsTyped DEF ProjectGraphScope, ServerInv
  <2>2. row' \in [Scope -> OutboxRow] /\ call' \in [Call -> CallState]
    BY <1>15, <2>1, <1>1, FlushGoes DEF ProjectGraphScope
  <2>3. excuse' \in [Scope -> SUBSET Excuses]
    BY <1>15, <2>1, <1>5 DEF ProjectGraphScope, TypeOK
  <2> QED BY <1>15, <2>2, <2>3 DEF ProjectGraphScope, TypeOK
<1>30. ASSUME NEW c \in Call, StoreNext(c) PROVE TypeOK'
  <2>1. call[c].scope \in Scope
    BY <1>30 DEF StoreNext, ServerInv
  <2>2. row' \in [Scope -> OutboxRow]
    <3>1. row' = row \/ row' = [row EXCEPT ![call[c].scope] = Queued(call[c].scope)]
      BY <1>30 DEF StoreNext
    <3>2. row \in [Scope -> OutboxRow]
      BY DEF TypeOK
    <3>3. [row EXCEPT ![call[c].scope] = Queued(call[c].scope)] \in [Scope -> OutboxRow]
      BY <2>1, RowsTyped
    <3> QED BY <3>1, <3>2, <3>3
  <2>3. excuse' \in [Scope -> SUBSET Excuses]
    BY <1>30, <2>1, <1>5 DEF StoreNext, TypeOK
  <2> QED BY <1>30, <1>4, <2>1, <2>2, <2>3 DEF StoreNext, TypeOK
<1>16. ASSUME NEW c \in Call, WriterThrows(c) PROVE TypeOK'
  <2>1. excuse' \in [Scope -> SUBSET Excuses]
    BY <1>16 DEF WriterThrows, TypeOK, Excuses
  <2> QED BY <1>16, <1>6, <2>1 DEF WriterThrows, TypeOK
<1>17. ASSUME NEW c \in Call, Replay(c) PROVE TypeOK'
  <2>1. Goes(c, row)
    BY <1>17, FlushGoes DEF Replay, TypeOK
  <2> QED BY <1>17, <1>1, <2>1 DEF Replay, TypeOK
<1>18. ASSUME NEW c \in Call, NEW s \in Scope, StoreRows(c, s) PROVE TypeOK'
  <2>1. [Idle EXCEPT !.at = "writing", !.scope = s] \in CallState
    BY IdleTyped DEF CallState, Idle
  <2> QED BY <1>18, <1>4, <2>1 DEF StoreRows, TypeOK
<1>19. ASSUME NEW s \in Scope, ChangeAndQueue(s) PROVE TypeOK'
  BY <1>19, <1>4, <1>5, RowsTyped DEF ChangeAndQueue, TypeOK
<1>20. ASSUME NEW s \in Scope, BackoffEnds(s) PROVE TypeOK'
  BY <1>20, RowsTyped DEF BackoffEnds, TypeOK
<1>21. ASSUME NEW s \in Scope, CrashBeforeQueueing(s) PROVE TypeOK'
  <2>1. excuse' \in [Scope -> SUBSET Excuses]
    BY <1>21, <1>5 DEF CrashBeforeQueueing, TypeOK
  <2> QED BY <1>21, <1>3, <1>4, <2>1 DEF CrashBeforeQueueing, TypeOK
<1>22. CASE GateEnds
  BY <1>22 DEF GateEnds, TypeOK
<1>23. CASE ReadFails
  BY <1>23, <1>2, <1>8 DEF ReadFails, TypeOK
<1>24. CASE Crash
  <2>1. excuse' \in [Scope -> SUBSET Excuses]
    BY <1>24, <1>5 DEF Crash, TypeOK
  <2> QED BY <1>24, <1>3, <2>1 DEF Crash, TypeOK
<1>25. CASE Start
  BY <1>25, <1>6, CallAssumption DEF Start, TypeOK
<1>26. CASE StartConnects
  <2> DEFINE rows == [s \in Scope |-> IF s \in DiscoverScopes THEN Queued(s) ELSE row[s]]
  <2>2. rows \in [Scope -> OutboxRow]
    BY RowsTyped
  <2>3. Goes(StartCall, rows)
    BY <1>26, <2>2, CallAssumption, SelectionGoes DEF StartConnects
  <2>4. excuse' \in [Scope -> SUBSET Excuses]
    BY <1>26 DEF StartConnects, TypeOK
  <2> QED BY <1>26, <1>1, <1>8, <2>2, <2>3, <2>4, CallAssumption DEF StartConnects, TypeOK
<1>27. CASE StartFails
  BY <1>27, <1>2, <1>6, <1>8, CallAssumption DEF StartFails, TypeOK
<1>28. CASE Listen
  BY <1>28 DEF Listen, TypeOK
<1>29. CASE UNCHANGED vars
  BY <1>29 DEF vars, TypeOK
<1> QED
  BY <1>10, <1>11, <1>12, <1>13, <1>14, <1>15, <1>16, <1>17, <1>18, <1>19, <1>20,
     <1>21, <1>22, <1>23, <1>24, <1>25, <1>26, <1>27, <1>28, <1>29, <1>30 DEF Next, Settles, Starts

-----------------------------------------------------------------------------
(* Calls and the process.                                                  *)

\* A flush leaves a call that obeys ServerInv and does not write.
LEMMA GoesServer ==
  ASSUME ServerInv, NEW c \in Call, NEW rows, Goes(c, rows), server' = server,
         server # "down", server = "starting" => c = StartCall
  PROVE  ServerInv'
BY DEF ServerInv, Goes, Idle

LEMMA ServerStep == TypeOK /\ ServerInv /\ [Next]_vars => ServerInv'
<1> SUFFICES ASSUME TypeOK, ServerInv, [Next]_vars PROVE ServerInv'
  OBVIOUS
<1>1. \A c \in Call : call[c].todo \in SUBSET Scope
  BY DEF TypeOK, CallState
<1>2. \A c \in Call : /\ call[c] # Idle => server # "down" /\ (server = "starting" => c = StartCall)
                      /\ call[c].at = "writing" => server = "serving"
  <2>1. server \in {"down", "starting", "serving"} /\ Idle.at # "writing"
    BY IdleTyped DEF TypeOK
  <2> QED BY <2>1 DEF ServerInv
<1>3. Idle.at = "idle"
  BY IdleTyped
<1>4. ASSUME NEW c \in Call, UNCHANGED server, server # "starting" \/ c = StartCall,
             call' = [call EXCEPT ![c] = Idle]
      PROVE  ServerInv'
  BY <1>3, <1>4 DEF ServerInv, TypeOK, Idle
<1>5. ASSUME Dies PROVE ServerInv'
  BY <1>3, <1>5 DEF ServerInv, Dies
<1>10. ASSUME NEW c \in Call, ConnectReturns(c) PROVE ServerInv'
  BY <1>10, <1>2, SelectionGoes, GoesServer DEF ConnectReturns, TypeOK
<1>11. ASSUME NEW c \in Call, ConnectFails(c) PROVE ServerInv'
  BY <1>11, <1>4 DEF ConnectFails
<1>12. ASSUME NEW c \in Call, ProjectionCommits(c) PROVE ServerInv'
  BY <1>12, <1>3 DEF ProjectionCommits, ServerInv, TypeOK, CallState
<1>13. ASSUME NEW c \in Call, ProjectionReturns(c) PROVE ServerInv'
  <2>1. Goes(c, Succeeded(call[c].scope))
    BY <1>13, <1>1, ContinueGoes, RowsTyped DEF ProjectionReturns, ServerInv
  <2> QED BY <1>13, <1>2, <1>3, <2>1, GoesServer DEF ProjectionReturns
<1>14. ASSUME NEW c \in Call, ProjectionFails(c) PROVE ServerInv'
  <2>1. server # "down" /\ (server = "starting" => c = StartCall)
    BY <1>14, <1>2, <1>3 DEF ProjectionFails
  <2>2. CASE ~config.required
    <3>1. Goes(c, Failed(call[c].scope)) /\ server' = server
      BY <1>14, <2>2, <1>1, ContinueGoes, RowsTyped DEF ProjectionFails, ServerInv
    <3> QED BY <2>1, <3>1, GoesServer
  <2>3. CASE config.required /\ server # "starting"
    BY <1>14, <1>4, <2>3 DEF ProjectionFails
  <2>4. CASE config.required /\ server = "starting"
    <3>1. server' = "down" /\ call' = [call EXCEPT ![c] = Idle] /\ c = StartCall
      BY <1>14, <2>1, <2>4 DEF ProjectionFails
    <3>2. \A d \in Call : call'[d] = Idle
      BY <2>4, <3>1 DEF ServerInv, TypeOK
    <3> QED BY <1>3, <3>1, <3>2 DEF ServerInv
  <2> QED BY <2>2, <2>3, <2>4
<1>15. ASSUME NEW c \in Call, ProjectGraphScope(c) PROVE ServerInv'
  <2> DEFINE s == call[c].scope
             rows == [row EXCEPT ![s] = Queued(s)]
  <2>1. s \in Scope /\ rows \in [Scope -> OutboxRow] /\ server = "serving" /\ server' = server
    BY <1>15, <1>2, RowsTyped DEF ProjectGraphScope, ServerInv
  <2> QED BY <1>15, <2>1, FlushGoes, GoesServer DEF ProjectGraphScope
<1>16. ASSUME NEW c \in Call, WriterThrows(c) PROVE ServerInv'
  BY <1>16, <1>2, <1>4 DEF WriterThrows
<1>17. ASSUME NEW c \in Call, Replay(c) PROVE ServerInv'
  <2>1. Goes(c, row)
    BY <1>17, FlushGoes DEF Replay, TypeOK
  <2> QED BY <1>17, <2>1, GoesServer DEF Replay, MayCall
<1>18. ASSUME NEW c \in Call, NEW s \in Scope, StoreRows(c, s) PROVE ServerInv'
  BY <1>18 DEF StoreRows, MayCall, ServerInv, TypeOK, Idle
<1>19. CASE Start
  <2>1. call' = [call EXCEPT ![StartCall] = Connecting(Scope)] /\ server' = "starting"
        /\ \A c \in Call : call[c] = Idle
    BY <1>19 DEF Start, ServerInv
  <2>2. Connecting(Scope).at = "connecting"
    BY ConnectingTyped
  <2> QED BY <1>3, <2>1, <2>2, CallAssumption DEF ServerInv, TypeOK
<1>20. CASE StartConnects
  <2> DEFINE rows == [s \in Scope |-> IF s \in DiscoverScopes THEN Queued(s) ELSE row[s]]
  <2>1. Goes(StartCall, rows)
    BY <1>20, RowsTyped, CallAssumption, SelectionGoes DEF StartConnects
  <2> QED BY <1>20, <2>1, CallAssumption, GoesServer DEF StartConnects
<1>21. CASE StartFails
  <2>1. call' = [call EXCEPT ![StartCall] = Idle] /\ server = "starting"
        /\ server' \in {"down", "starting"}
    BY <1>21 DEF StartFails
  <2>2. \A c \in Call : call'[c] = Idle
    BY <2>1 DEF ServerInv, TypeOK
  <2> QED BY <1>3, <2>1, <2>2 DEF ServerInv
<1>22. CASE Listen
  BY <1>22 DEF Listen, ServerInv
<1>23. ASSUME UNCHANGED <<call, server>> PROVE ServerInv'
  BY <1>23 DEF ServerInv
<1>24. ASSUME NEW s \in Scope,
              ChangeAndQueue(s) \/ BackoffEnds(s)
       PROVE  UNCHANGED <<call, server>>
  BY <1>24 DEF ChangeAndQueue, BackoffEnds
<1>25. ASSUME GateEnds \/ ReadFails \/ (\E c \in Call : StoreNext(c)) \/ UNCHANGED vars
       PROVE  UNCHANGED <<call, server>>
  BY <1>25 DEF GateEnds, ReadFails, StoreNext, vars
<1>26. (\E s \in Scope : CrashBeforeQueueing(s)) \/ Crash => Dies
  BY DEF CrashBeforeQueueing, Crash
<1> QED
  BY <1>5, <1>10, <1>11, <1>12, <1>13, <1>14, <1>15, <1>16, <1>17, <1>18, <1>19,
     <1>20, <1>21, <1>22, <1>23, <1>24, <1>25, <1>26 DEF Next, Settles, Starts

-----------------------------------------------------------------------------
(* Excuses.                                                                *)

\* A flush by a call that does not write neither begins nor ends a write.
LEMMA GoesWriters ==
  ASSUME NEW c \in Call, NEW rows, Goes(c, rows), call[c].at # "writing", NEW s \in Scope
  PROVE  Writing(s)' <=> Writing(s)
<1>1. call'[c].at # "writing"
  BY IdleTyped DEF Goes
<1> QED BY <1>1 DEF Goes, Writing

\* Nor does any other change of a call that does not write.
LEMMA SameWriters ==
  ASSUME TypeOK, NEW c \in Call, NEW next, call' = [call EXCEPT ![c] = next],
         call[c].at # "writing", next.at # "writing", NEW s \in Scope
  PROVE  Writing(s)' <=> Writing(s)
BY DEF Writing, TypeOK

\* A write that ends leaves the writers of other scopes.
LEMMA OtherWriters ==
  ASSUME NEW c \in Call, \A d \in Call : d # c => call'[d] = call[d],
         call'[c].at # "writing", NEW s \in Scope, s # call[c].scope
  PROVE  Writing(s)' <=> Writing(s)
BY DEF Writing

\* The steps of a call by which it may come to flush.
Flushes(c) ==
  ConnectReturns(c) \/ ProjectionReturns(c) \/ Replay(c)

LEMMA FlushesGo ==
  ASSUME TypeOK, ServerInv, NEW c \in Call, Flushes(c)
  PROVE  /\ Goes(c, IF ProjectionReturns(c) THEN Succeeded(call[c].scope) ELSE row)
         /\ call[c].at # "writing"
         /\ UNCHANGED <<ledger, graph, excuse>>
<1>1. CASE ConnectReturns(c) /\ ~ProjectionReturns(c)
  BY <1>1, SelectionGoes DEF ConnectReturns, TypeOK
<1>2. CASE ProjectionReturns(c)
  <2>1. call[c].todo \in SUBSET Scope
    BY DEF TypeOK, CallState
  <2> QED BY <1>2, <2>1, ContinueGoes, RowsTyped DEF ProjectionReturns, ServerInv
<1>3. CASE Replay(c) /\ ~ProjectionReturns(c)
  <2>1. call[c].at # "writing"
    BY <1>3, IdleTyped DEF Replay, MayCall
  <2> QED BY <1>3, <2>1, FlushGoes DEF Replay, TypeOK
<1> QED BY <1>1, <1>2, <1>3 DEF Flushes

\* A failed projection goes on or gives up; its row is pending.
LEMMA FailureGoes ==
  ASSUME TypeOK, ServerInv, NEW c \in Call, ProjectionFails(c)
  PROVE  Goes(c, Failed(call[c].scope)) /\ call[c].at # "writing"
<1>1. call[c].todo \in SUBSET Scope /\ call[c].scope \in Scope
  BY DEF TypeOK, CallState, ServerInv, ProjectionFails
<1>2. Failed(call[c].scope) \in [Scope -> OutboxRow]
  BY <1>1, RowsTyped
<1>3. CASE config.required
  BY <1>2, <1>3, IdleTyped DEF ProjectionFails, Goes, TypeOK
<1>4. CASE ~config.required
  BY <1>1, <1>2, <1>4, ContinueGoes DEF ProjectionFails
<1> QED BY <1>3, <1>4 DEF ProjectionFails

\* A writer queues its scope and goes on to flush it.
LEMMA WriterGoes ==
  ASSUME TypeOK, ServerInv, NEW c \in Call, ProjectGraphScope(c)
  PROVE  /\ call[c].scope \in Scope
         /\ Goes(c, [row EXCEPT ![call[c].scope] = Queued(call[c].scope)])
<1>1. call[c].scope \in Scope
  BY DEF ProjectGraphScope, ServerInv
<1>2. [row EXCEPT ![call[c].scope] = Queued(call[c].scope)] \in [Scope -> OutboxRow]
  BY <1>1, RowsTyped
<1> QED BY <1>1, <1>2, FlushGoes DEF ProjectGraphScope

\* An extraction that goes on changes only what it is writing.
LEMMA NextChanges ==
  ASSUME TypeOK, ServerInv, NEW c \in Call, StoreNext(c)
  PROVE  /\ call[c].scope \in Scope /\ Writing(call[c].scope)
         /\ UNCHANGED <<call, graph>>
         /\ \A s \in Scope : s # call[c].scope =>
              excuse'[s] = excuse[s] /\ row'[s] = row[s] /\ ledger'[s] = ledger[s]
<1>1. call[c].scope \in Scope /\ Writing(call[c].scope)
  BY DEF StoreNext, ServerInv, Writing
<1> QED BY <1>1 DEF StoreNext, Changed, TypeOK

LEMMA WrittenStep ==
  TypeOK /\ ServerInv /\ WrittenInv /\ [Next]_vars => WrittenInv'
<1> SUFFICES ASSUME TypeOK, ServerInv, WrittenInv, [Next]_vars, NEW s \in Scope
             PROVE  excuse'[s] # {} \/ Writing(s)' => ledger'[s] > 0
  BY DEF WrittenInv
<1> DEFINE Goal == excuse'[s] # {} \/ Writing(s)' => ledger'[s] > 0
<1>1. ledger[s] \in Nat /\ (excuse[s] # {} \/ Writing(s) => ledger[s] > 0)
  BY BudgetAssumption DEF TypeOK, Version, WrittenInv
<1>2. ASSUME UNCHANGED <<ledger, excuse>>, Writing(s)' => Writing(s) PROVE Goal
  BY <1>1, <1>2
<1>3. ASSUME NEW z \in Scope, ledger' = Changed(z)
      PROVE  IF s = z THEN ledger'[s] > 0 ELSE ledger'[s] = ledger[s]
  BY <1>1, <1>3 DEF Changed, TypeOK
<1>4. Dies => ~Writing(s)'
  BY IdleTyped DEF Dies, Writing
<1>10. ASSUME NEW c \in Call, Flushes(c) PROVE Goal
  BY <1>2, <1>10, FlushesGo, GoesWriters
<1>11. ASSUME NEW c \in Call, ConnectFails(c) PROVE Goal
  BY <1>2, <1>11, SameWriters, IdleTyped DEF ConnectFails
<1>12. ASSUME NEW c \in Call, ProjectionCommits(c) PROVE Goal
  <2>1. Writing(s)' => Writing(s)
    BY <1>12 DEF ProjectionCommits, Writing, TypeOK, CallState
  <2> QED BY <1>2, <1>12, <2>1 DEF ProjectionCommits
<1>13. ASSUME NEW c \in Call, ProjectionFails(c) PROVE Goal
  BY <1>2, <1>13, FailureGoes, GoesWriters DEF ProjectionFails
<1>14. ASSUME NEW c \in Call, ProjectGraphScope(c) PROVE Goal
  <2>1. CASE s = call[c].scope
    BY <1>1, <1>14, <2>1 DEF ProjectGraphScope, Writing
  <2>2. CASE s # call[c].scope
    <3>1. Writing(s)' <=> Writing(s)
      BY <1>14, <2>2, WriterGoes, OtherWriters, IdleTyped DEF Goes
    <3>2. excuse'[s] = excuse[s] /\ ledger' = ledger
      BY <1>14, <2>2, WriterGoes DEF ProjectGraphScope, TypeOK
    <3> QED BY <1>1, <3>1, <3>2
  <2> QED BY <2>1, <2>2
<1>15. ASSUME NEW c \in Call, WriterThrows(c) PROVE Goal
  <2>1. call'[c] = Idle /\ (\A d \in Call : d # c => call'[d] = call[d])
        /\ ledger' = ledger /\ call[c].at = "writing"
    BY <1>15 DEF WriterThrows, TypeOK
  <2>2. CASE s = call[c].scope
    BY <1>1, <2>1, <2>2 DEF Writing
  <2>3. CASE s # call[c].scope
    <3>1. Writing(s)' <=> Writing(s)
      BY <2>1, <2>3, OtherWriters, IdleTyped
    <3>2. excuse'[s] = excuse[s]
      BY <1>15, <2>3 DEF WriterThrows, TypeOK
    <3> QED BY <1>1, <2>1, <3>1, <3>2
  <2> QED BY <2>2, <2>3
<1>16. ASSUME NEW c \in Call, NEW z \in Scope, StoreRows(c, z) PROVE Goal
  <2>1. Writing(s)' => Writing(s) \/ s = z
    BY <1>16 DEF StoreRows, Writing, TypeOK, Idle
  <2> QED BY <1>1, <1>3, <1>16, <2>1 DEF StoreRows
<1>17. ASSUME NEW z \in Scope, ChangeAndQueue(z) PROVE Goal
  <2>1. (Writing(s)' <=> Writing(s)) /\ (s # z => excuse'[s] = excuse[s])
    BY <1>17 DEF ChangeAndQueue, Writing, TypeOK
  <2> QED BY <1>1, <1>3, <1>17, <2>1 DEF ChangeAndQueue
<1>18. ASSUME NEW z \in Scope, CrashBeforeQueueing(z) PROVE Goal
  <2>1. s # z /\ excuse'[s] # {} => excuse[s] # {} \/ Writing(s)
    BY <1>18 DEF CrashBeforeQueueing
  <2> QED BY <1>1, <1>3, <1>4, <1>18, <2>1 DEF CrashBeforeQueueing
<1>19. CASE Crash
  <2>1. excuse'[s] # {} => excuse[s] # {} \/ Writing(s)
    BY <1>19 DEF Crash
  <2> QED BY <1>1, <1>4, <1>19, <2>1 DEF Crash
<1>20. CASE Start
  <2>1. call[StartCall].at # "writing" /\ Connecting(Scope).at # "writing"
    BY <1>20, IdleTyped, ConnectingTyped, CallAssumption DEF Start, ServerInv
  <2> QED BY <1>2, <1>20, <2>1, SameWriters, CallAssumption DEF Start
<1>21. CASE StartConnects
  <2>1. Goes(StartCall, [z \in Scope |-> IF z \in DiscoverScopes THEN Queued(z) ELSE row[z]])
    BY <1>21, RowsTyped, CallAssumption, SelectionGoes DEF StartConnects
  <2>2. (Writing(s)' <=> Writing(s)) /\ (excuse'[s] # {} => excuse[s] # {})
    BY <1>21, <2>1, GoesWriters, CallAssumption DEF StartConnects
  <2> QED BY <1>1, <1>21, <2>2 DEF StartConnects
<1>22. CASE StartFails
  BY <1>2, <1>22, SameWriters, IdleTyped, CallAssumption DEF StartFails
<1>23. ASSUME UNCHANGED <<ledger, excuse, call>> PROVE Goal
  BY <1>1, <1>23 DEF Writing
<1>24. ASSUME NEW c \in Call, StoreNext(c) PROVE Goal
  <2>1. CASE s = call[c].scope
    BY <1>3, <1>24, <2>1 DEF StoreNext
  <2>2. CASE s # call[c].scope
    BY <1>1, <1>24, <2>2, NextChanges DEF Writing
  <2> QED BY <2>1, <2>2
<1> QED
  BY <1>10, <1>11, <1>12, <1>13, <1>14, <1>15, <1>16, <1>17, <1>18, <1>19, <1>20,
     <1>21, <1>22, <1>23, <1>24 DEF Next, Settles, Starts, Flushes, BackoffEnds, GateEnds, ReadFails, Listen, vars

-----------------------------------------------------------------------------
(* The truth of the rows.                                                  *)

\* Projections under way of s show its ledger, as far as they committed.
FlightsFit(s) ==
  \A c \in Call : Flying(c) /\ call[c].scope = s =>
    /\ call[c].snapshot = ledger[s]
    /\ call[c].at = "committed" => graph[s] = ledger[s]

Truthful(s, rows) ==
  rows[s].status \in {"none", "succeeded"} => graph[s] = ledger[s]

\* Nothing changes for s when a call goes on with a flush.
LEMMA GoesCause ==
  ASSUME NEW c \in Call, NEW rows, Goes(c, rows), UNCHANGED <<ledger, graph>>,
         NEW s \in Scope, FlightsFit(s), Truthful(s, rows)
  PROVE  FlightsFit(s)' /\ Truthful(s, row)'
<1>1. Truthful(s, row)'
  BY DEF Truthful, Goes
<1>2. ASSUME NEW d \in Call, Flying(d)', call'[d].scope = s
      PROVE  call'[d].snapshot = ledger'[s] /\ (call'[d].at = "committed" => graph'[s] = ledger'[s])
  <2>1. CASE d = c
    BY <1>2, <2>1, IdleTyped DEF Goes, Flying
  <2>2. CASE d # c
    BY <1>2, <2>2 DEF Goes, Flying, FlightsFit
  <2> QED BY <2>1, <2>2
<1> QED BY <1>1, <1>2 DEF FlightsFit

LEMMA CauseStep ==
  TypeOK /\ ServerInv /\ WrittenInv /\ CauseInv /\ [Next]_vars => CauseInv'
<1> SUFFICES ASSUME TypeOK, ServerInv, WrittenInv, CauseInv, [Next]_vars, NEW s \in Scope,
                    excuse'[s] = {}, ~Writing(s)'
             PROVE  FlightsFit(s)' /\ Truthful(s, row)'
  BY DEF CauseInv, FlightsFit, Truthful
<1> DEFINE Goal == FlightsFit(s)' /\ Truthful(s, row)'
<1>1. excuse[s] = {} /\ ~Writing(s) => FlightsFit(s) /\ Truthful(s, row)
  BY DEF CauseInv, FlightsFit, Truthful
<1>2. ASSUME NEW c \in Call, NEW next, call' = [call EXCEPT ![c] = next],
             ~(next.at \in {"projecting", "committed"}), UNCHANGED <<ledger, graph>>,
             FlightsFit(s), Truthful(s, row)'
      PROVE  Goal
  BY <1>2 DEF FlightsFit, Flying, TypeOK
<1>10. ASSUME NEW c \in Call, Flushes(c) PROVE Goal
  <2>1. FlightsFit(s) /\ Truthful(s, row)
    BY <1>1, <1>10, FlushesGo, GoesWriters
  <2>2. CASE ~ProjectionReturns(c)
    BY <1>10, <2>1, <2>2, FlushesGo, GoesCause
  <2>3. CASE ProjectionReturns(c)
    <3>1. Truthful(s, Succeeded(call[c].scope))
      BY <2>1, <2>3 DEF ProjectionReturns, ServerInv, Succeeded, Truthful, FlightsFit,
         Flying, TypeOK
    <3> QED BY <1>10, <2>1, <2>3, <3>1, FlushesGo, GoesCause
  <2> QED BY <2>2, <2>3
<1>11. ASSUME NEW c \in Call, ConnectFails(c) PROVE Goal
  <2>1. FlightsFit(s) /\ Truthful(s, row)
    BY <1>1, <1>11, SameWriters, IdleTyped DEF ConnectFails
  <2> QED BY <1>2, <1>11, <2>1, IdleTyped DEF ConnectFails, Truthful
<1>12. ASSUME NEW c \in Call, ProjectionCommits(c) PROVE Goal
  <2>1. /\ \A d \in Call : call'[d].at \in {call[d].at, IF d = c THEN "committed" ELSE call[d].at}
        /\ \A d \in Call : call'[d].scope = call[d].scope /\ call'[d].snapshot = call[d].snapshot
        /\ call[c].at = "projecting" /\ call'[c].at = "committed"
    BY <1>12 DEF ProjectionCommits, TypeOK, CallState
  <2>2. Writing(s) => Writing(s)'
    BY <2>1 DEF Writing
  <2>3. FlightsFit(s) /\ Truthful(s, row)
    BY <1>1, <1>12, <2>2 DEF ProjectionCommits
  <2>4. /\ ledger' = ledger /\ row' = row
        /\ graph'[s] = IF s = call[c].scope THEN call[c].snapshot ELSE graph[s]
    BY <1>12 DEF ProjectionCommits, TypeOK
  <2>5. s = call[c].scope => graph'[s] = ledger[s]
    BY <2>1, <2>3, <2>4 DEF FlightsFit, Flying
  <2>6. Truthful(s, row)'
    BY <2>3, <2>4, <2>5 DEF Truthful
  <2>7. ASSUME NEW d \in Call, Flying(d)', call'[d].scope = s
        PROVE  call'[d].snapshot = ledger'[s]
               /\ (call'[d].at = "committed" => graph'[s] = ledger'[s])
    <3>1. Flying(d) /\ call[d].scope = s /\ call[d].snapshot = ledger[s]
      BY <2>1, <2>3, <2>7 DEF Flying, FlightsFit
    <3>2. CASE d = c
      BY <2>1, <2>4, <2>5, <3>1, <3>2
    <3>3. CASE d # c
      <4>1. call'[d].at = "committed" => graph[s] = ledger[s]
        BY <2>1, <2>3, <3>1, <3>3 DEF FlightsFit
      <4> QED BY <2>1, <2>4, <2>5, <3>1, <4>1
    <3> QED BY <3>2, <3>3
  <2> QED BY <2>6, <2>7 DEF FlightsFit
<1>13. ASSUME NEW c \in Call, ProjectionFails(c) PROVE Goal
  <2>1. FlightsFit(s) /\ Truthful(s, row)
    BY <1>1, <1>13, FailureGoes, GoesWriters DEF ProjectionFails
  <2>2. Truthful(s, Failed(call[c].scope))
    BY <1>13, <2>1 DEF ProjectionFails, ServerInv, Failed, Truthful, TypeOK
  <2> QED BY <1>13, <2>1, <2>2, FailureGoes, GoesCause DEF ProjectionFails
<1>14. ASSUME NEW c \in Call, ProjectGraphScope(c) PROVE Goal
  <2> DEFINE z == call[c].scope
             rows == [row EXCEPT ![z] = Queued(z)]
  <2>1. z \in Scope /\ Goes(c, rows) /\ ledger' = ledger /\ graph' = graph
    BY <1>14, WriterGoes DEF ProjectGraphScope
  <2>2. CASE s = z
    <3>1. ~Projecting(s)
      BY <1>14, <2>1, <2>2 DEF ProjectGraphScope, ExcuseOfQueueing, TypeOK
    <3>2. FlightsFit(s)
      BY <3>1 DEF FlightsFit, Flying, Projecting
    <3>3. Truthful(s, rows)
      BY <2>1, <2>2 DEF Truthful, Queued, TypeOK
    <3> QED BY <2>1, <3>2, <3>3, GoesCause
  <2>3. CASE s # z
    <3>1. Writing(s)' <=> Writing(s)
      BY <2>1, <2>3, OtherWriters, IdleTyped DEF Goes
    <3>2. excuse'[s] = excuse[s]
      BY <1>14, <2>1, <2>3 DEF ProjectGraphScope, TypeOK
    <3>3. FlightsFit(s) /\ Truthful(s, row)
      BY <1>1, <3>1, <3>2
    <3>4. Truthful(s, rows)
      BY <2>1, <2>3, <3>3 DEF Truthful, TypeOK
    <3> QED BY <2>1, <3>3, <3>4, GoesCause
  <2> QED BY <2>2, <2>3
<1>15. ASSUME NEW c \in Call, WriterThrows(c) PROVE Goal
  <2>1. /\ call' = [call EXCEPT ![c] = Idle] /\ call'[c] = Idle
        /\ \A d \in Call : d # c => call'[d] = call[d]
        /\ call[c].scope \in Scope
        /\ UNCHANGED <<ledger, graph, row>>
        /\ excuse' = [excuse EXCEPT ![call[c].scope] = @ \cup {"unqueued"}]
    BY <1>15 DEF WriterThrows, TypeOK, ServerInv
  <2>2. s # call[c].scope /\ excuse[s] = {}
    BY <2>1 DEF TypeOK
  <2>3. Writing(s)' <=> Writing(s)
    BY <2>1, <2>2, OtherWriters, IdleTyped
  <2>4. FlightsFit(s) /\ Truthful(s, row)
    BY <1>1, <2>2, <2>3
  <2> QED BY <1>2, <2>1, <2>4, IdleTyped DEF Truthful
<1>16. ASSUME NEW c \in Call, NEW z \in Scope, StoreRows(c, z) PROVE Goal
  <2> DEFINE next == [Idle EXCEPT !.at = "writing", !.scope = z]
  <2>1. /\ call' = [call EXCEPT ![c] = next] /\ call'[c] = next
        /\ next.at = "writing" /\ next.scope = z
        /\ call[c].at = "idle"
        /\ UNCHANGED <<graph, row, excuse>>
    BY <1>16, IdleTyped DEF StoreRows, MayCall, TypeOK, Idle
  <2>2. s # z
    BY <2>1 DEF Writing
  <2>3. Writing(s) => Writing(s)'
    BY <2>1 DEF Writing, TypeOK
  <2>4. FlightsFit(s) /\ Truthful(s, row)
    BY <1>1, <2>1, <2>3
  <2>5. ledger'[s] = ledger[s]
    BY <1>16, <2>2 DEF StoreRows, Changed, TypeOK
  <2>6. \A d \in Call : call'[d].at # "writing" => call'[d] = call[d]
    BY <2>1 DEF TypeOK
  <2> QED BY <2>1, <2>4, <2>5, <2>6 DEF FlightsFit, Flying, Truthful
<1>17. ASSUME NEW z \in Scope, ChangeAndQueue(z) PROVE Goal
  <2>1. CASE s = z
    <3>1. ~Projecting(s) /\ call' = call
      BY <1>17, <2>1 DEF ChangeAndQueue, ExcuseOfQueueing, TypeOK
    <3>2. row'[s].status = "pending"
      BY <1>17, <2>1 DEF ChangeAndQueue, Queued, TypeOK
    <3> QED BY <3>1, <3>2 DEF FlightsFit, Flying, Projecting, Truthful
  <2>2. CASE s # z
    <3>1. /\ excuse'[s] = excuse[s] /\ row'[s] = row[s] /\ ledger'[s] = ledger[s]
          /\ call' = call /\ graph' = graph
      BY <1>17, <2>2 DEF ChangeAndQueue, Changed, TypeOK
    <3>2. FlightsFit(s) /\ Truthful(s, row)
      BY <1>1, <3>1 DEF Writing
    <3> QED BY <3>1, <3>2 DEF FlightsFit, Flying, Truthful
  <2> QED BY <2>1, <2>2
<1>18. ASSUME NEW z \in Scope, CrashBeforeQueueing(z) PROVE Goal
  <2>1. /\ s # z /\ ~Writing(s) /\ excuse[s] = {}
        /\ row' = row /\ graph' = graph /\ \A c \in Call : call'[c] = Idle
    BY <1>18 DEF CrashBeforeQueueing, Dies, Unqueued
  <2>2. ledger'[s] = ledger[s]
    BY <1>18, <2>1 DEF CrashBeforeQueueing, Changed, TypeOK
  <2> QED BY <1>1, <2>1, <2>2, IdleTyped DEF FlightsFit, Flying, Truthful
<1>19. CASE Crash
  <2>1. /\ ~Writing(s) /\ excuse[s] = {}
        /\ UNCHANGED <<row, graph, ledger>> /\ \A c \in Call : call'[c] = Idle
    BY <1>19 DEF Crash, Dies, Unqueued
  <2> QED BY <1>1, <2>1, IdleTyped DEF FlightsFit, Flying, Truthful
<1>20. CASE Start
  <2>1. /\ call' = [call EXCEPT ![StartCall] = Connecting(Scope)]
        /\ UNCHANGED <<ledger, graph, row, excuse>>
        /\ Connecting(Scope).at = "connecting"
    BY <1>20, ConnectingTyped DEF Start
  <2>2. ~Writing(s)
    BY <1>20, IdleTyped DEF Start, ServerInv, Writing
  <2>3. FlightsFit(s) /\ Truthful(s, row)'
    BY <1>1, <2>1, <2>2 DEF Truthful
  <2> QED BY <1>2, <2>1, <2>3, CallAssumption
<1>21. CASE StartConnects
  <2> DEFINE rows == [z \in Scope |-> IF z \in DiscoverScopes THEN Queued(z) ELSE row[z]]
  <2>1. Goes(StartCall, rows) /\ ledger' = ledger /\ graph' = graph
    BY <1>21, RowsTyped, CallAssumption, SelectionGoes DEF StartConnects
  <2>2. FlightsFit(s)
    BY <1>21, IdleTyped, CallAssumption DEF StartConnects, ServerInv, FlightsFit, Flying
  <2>3. Truthful(s, rows)
    <3>1. CASE s \in DiscoverScopes
      BY <3>1 DEF Truthful, Queued
    <3>2. CASE s \notin DiscoverScopes
      <4>1. excuse[s] = {} /\ ~Writing(s)
        BY <1>21, <3>2 DEF WrittenInv, DiscoverScopes
      <4> QED BY <1>1, <3>2, <4>1 DEF Truthful
    <3> QED BY <3>1, <3>2
  <2> QED BY <2>1, <2>2, <2>3, GoesCause, CallAssumption
<1>22. CASE StartFails
  <2>1. FlightsFit(s) /\ Truthful(s, row)
    BY <1>1, <1>22, SameWriters, IdleTyped, CallAssumption DEF StartFails
  <2> QED BY <1>2, <1>22, <2>1, IdleTyped, CallAssumption DEF StartFails, Truthful
<1>23. ASSUME NEW z \in Scope, BackoffEnds(z) PROVE Goal
  <2>1. row'[s].status = row[s].status /\ UNCHANGED <<ledger, graph, call, excuse>>
    BY <1>23 DEF BackoffEnds, TypeOK, OutboxRow
  <2> QED BY <1>1, <2>1 DEF FlightsFit, Flying, Truthful, Writing
<1>25. ASSUME NEW c \in Call, StoreNext(c) PROVE Goal
  <2>1. s # call[c].scope
    BY <1>25, NextChanges DEF Writing
  <2> QED BY <1>1, <1>25, <2>1, NextChanges DEF FlightsFit, Flying, Truthful, Writing
<1>24. ASSUME UNCHANGED <<ledger, row, graph, call, excuse>> PROVE Goal
  BY <1>1, <1>24 DEF FlightsFit, Flying, Truthful, Writing
<1> QED
  BY <1>10, <1>11, <1>12, <1>13, <1>14, <1>15, <1>16, <1>17, <1>18, <1>19, <1>20,
     <1>21, <1>22, <1>23, <1>24, <1>25 DEF Next, Settles, Starts, Flushes, GateEnds, ReadFails, Listen, vars

-----------------------------------------------------------------------------
(* The start.                                                              *)

LEMMA StartStep ==
  TypeOK /\ ServerInv /\ WrittenInv /\ StartInv /\ [Next]_vars => StartInv'
<1> SUFFICES ASSUME TypeOK, ServerInv, WrittenInv, StartInv, [Next]_vars,
                    server' = "starting",
                    Flying(StartCall)' \/ (call'[StartCall] = Idle /\ link'.connected),
                    NEW s \in Scope
             PROVE  excuse'[s] = {}
  BY DEF StartInv
<1>1. /\ Idle.at = "idle" /\ Connecting(Scope).at = "connecting"
      /\ Online.connected /\ ~Offline.connected
  BY IdleTyped, ConnectingTyped DEF Online, Offline
<1>2. server = "starting" => /\ \A c \in Call : c # StartCall => call[c] = Idle
                             /\ call[StartCall].at # "writing"
  BY CallAssumption DEF ServerInv
<1>3. server = "starting" /\ Flying(StartCall) => excuse[s] = {}
  BY DEF StartInv
<1>10. ASSUME NEW c \in Call,
              ConnectReturns(c) \/ ConnectFails(c) \/ Replay(c) \/ ProjectGraphScope(c)
                \/ StoreNext(c) \/ WriterThrows(c) \/ (\E z \in Scope : StoreRows(c, z))
       PROVE  FALSE
  <2>1. server = "starting" /\ call[c].at # "writing"
    BY <1>1, <1>2, <1>10 DEF ConnectReturns, ConnectFails, Replay, ProjectGraphScope,
       StoreNext, WriterThrows, StoreRows
  <2> QED BY <1>10, <2>1 DEF ConnectReturns, ConnectFails, Replay, MayCall,
          ProjectGraphScope, StoreNext, WriterThrows, StoreRows
<1>11. ASSUME NEW c \in Call, ProjectionCommits(c) \/ ProjectionReturns(c)
       PROVE  excuse'[s] = {}
  <2>1. server = "starting" /\ Flying(c) /\ excuse' = excuse
    BY <1>11 DEF ProjectionCommits, ProjectionReturns, Flying
  <2>2. c = StartCall
    BY <1>1, <1>2, <2>1 DEF Flying
  <2> QED BY <1>3, <2>1, <2>2
<1>12. ASSUME NEW c \in Call, ProjectionFails(c) PROVE excuse'[s] = {}
  <2>1. server = "starting" /\ Flying(c) /\ excuse' = excuse
    BY <1>12 DEF ProjectionFails, Flying
  <2>2. c = StartCall
    BY <1>1, <1>2, <2>1 DEF Flying
  <2> QED BY <1>3, <2>1, <2>2
<1>13. ASSUME (\E z \in Scope : ChangeAndQueue(z)) \/ ReadFails \/ Listen
                \/ Dies
       PROVE  FALSE
  BY <1>13 DEF ChangeAndQueue, ReadFails, Listen, Dies
<1>14. CASE Start
  <2>1. call'[StartCall].at = "connecting"
    BY <1>1, <1>14, CallAssumption DEF Start, TypeOK
  <2> QED BY <1>1, <2>1 DEF Flying
<1>15. CASE StartConnects
  <2>1. CASE s \in DiscoverScopes
    BY <1>15, <2>1 DEF StartConnects
  <2>2. CASE s \notin DiscoverScopes
    BY <1>15, <2>2 DEF StartConnects, DiscoverScopes, WrittenInv
  <2> QED BY <2>1, <2>2
<1>16. CASE StartFails
  <2>1. call'[StartCall] = Idle /\ ~link'.connected
    BY <1>1, <1>16, CallAssumption DEF StartFails, TypeOK
  <2> QED BY <1>1, <2>1 DEF Flying
<1>17. ASSUME UNCHANGED <<call, server, excuse>>, link'.connected = link.connected
       PROVE  excuse'[s] = {}
  BY <1>17 DEF StartInv, Flying
<1>18. ASSUME (\E z \in Scope : BackoffEnds(z)) \/ GateEnds \/ UNCHANGED vars
       PROVE  UNCHANGED <<call, server, excuse>> /\ link'.connected = link.connected
  BY <1>18 DEF BackoffEnds, GateEnds, vars, TypeOK
<1>19. (\E z \in Scope : CrashBeforeQueueing(z)) \/ Crash => Dies
  BY DEF CrashBeforeQueueing, Crash
<1> QED
  BY <1>10, <1>11, <1>12, <1>13, <1>14, <1>15, <1>16, <1>17, <1>18, <1>19 DEF Next, Settles, Starts

-----------------------------------------------------------------------------
(* The theorems.                                                           *)

LEMMA InitInv == Init => ServerInv /\ WrittenInv /\ CauseInv /\ StartInv
<1> SUFFICES ASSUME Init PROVE ServerInv /\ WrittenInv /\ CauseInv /\ StartInv
  OBVIOUS
<1>1. /\ \A c \in Call : call[c] = Idle /\ call[c].at = "idle"
      /\ server = "down"
      /\ \A s \in Scope : excuse[s] = {} /\ graph[s] = ledger[s]
  BY IdleTyped DEF Init
<1> QED BY <1>1 DEF ServerInv, WrittenInv, CauseInv, StartInv, Writing, Flying

\* The inductive invariant: types, callers, excuses, truth of rows, the start.
THEOREM ProjectionsCorrect == Spec => []IInv
<1>1. Init => IInv
  BY InitTyped, InitInv DEF IInv
<1>2. IInv /\ [Next]_vars => IInv'
  BY TypeStep, ServerStep, WrittenStep, CauseStep, StartStep DEF IInv
<1> QED BY <1>1, <1>2, PTL DEF Spec

\* Every variable keeps its type (all of lib/graph-store.js).
THEOREM TypeCorrect == Spec => []TypeOK
<1>1. IInv => TypeOK
  BY DEF IInv
<1> QED BY <1>1, ProjectionsCorrect, PTL

(* A row that says succeeded, of a scope with nothing to excuse, is true:  *)
(* the projection equals the ledger (flushGraphProjectionOutbox).          *)
THEOREM StaleOnlyWithCause == Spec => []StaleGraphHasACause
<1>1. IInv => StaleGraphHasACause
  BY DEF IInv, CauseInv, StaleGraphHasACause, Quiet
<1> QED BY <1>1, ProjectionsCorrect, PTL

(* When the server listens after a start that reached Neo4j, every scope   *)
(* is projected as it is or still in the outbox (initializeGraphStore).    *)
THEOREM StartsComplete == Spec => StartLeavesNothingBehind
<1>1. IInv /\ Listen /\ link.connected =>
        \A s \in Scope : graph[s] = ledger[s] \/ row[s].status \in {"pending", "processing"}
  <2> SUFFICES ASSUME IInv, Listen, link.connected, NEW s \in Scope
               PROVE  graph[s] = ledger[s] \/ row[s].status \in {"pending", "processing"}
    OBVIOUS
  <2>1. server = "starting" /\ call[StartCall] = Idle /\ \A c \in Call : call[c] = Idle
    BY DEF Listen, IInv, ServerInv
  <2>2. excuse[s] = {}
    BY <2>1 DEF IInv, StartInv
  <2>3. ~Writing(s)
    BY <2>1, IdleTyped DEF Writing
  <2>4. row[s].status \in {"none", "succeeded"} => graph[s] = ledger[s]
    BY <2>2, <2>3 DEF IInv, CauseInv
  <2>5. row[s].status \in {"none", "pending", "processing", "succeeded"}
    BY DEF IInv, TypeOK, OutboxRow
  <2> QED BY <2>4, <2>5
<1> QED BY <1>1, ProjectionsCorrect, PTL DEF StartLeavesNothingBehind, Spec
=============================================================================
