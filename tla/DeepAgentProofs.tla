--------------------------- MODULE DeepAgentProofs ---------------------------
(***************************************************************************)
(* Theorems about DeepAgent, for every value of its constants.             *)
(***************************************************************************)
EXTENDS DeepAgent, TLAPS

USE DEF Effects, Leases, ApprovalStatus, NodeSuccess, NodeTerminal, NodeStatus,
        RunTerminal, RunActive, RunStatus

-----------------------------------------------------------------------------
(* What recoverExpiredWork makes of the rows.                              *)

\* A row or lease column written with a value of its domain stays typed.
LEMMA FieldTyped ==
  ASSUME NEW row \in NodeRow, NEW s \in NodeStatus, NEW l \in Leases,
         NEW o \in Worker \cup {NoWorker}, NEW k \in Nat
  PROVE  /\ [row EXCEPT !.status = s] \in NodeRow
         /\ [row EXCEPT !.lease = l] \in NodeRow
         /\ [row EXCEPT !.owner = o] \in NodeRow
         /\ [row EXCEPT !.attempt = k] \in NodeRow
         /\ [row EXCEPT !.maxAttempts = k] \in NodeRow
<1>1. [row EXCEPT !.status = s] \in NodeRow
  BY DEF NodeRow
<1>2. [row EXCEPT !.lease = l] \in NodeRow
  BY DEF NodeRow
<1>3. [row EXCEPT !.owner = o] \in NodeRow
  BY DEF NodeRow
<1>4. [row EXCEPT !.attempt = k] \in NodeRow
  BY DEF NodeRow
<1>5. [row EXCEPT !.maxAttempts = k] \in NodeRow
  BY DEF NodeRow
<1> QED BY <1>1, <1>2, <1>3, <1>4, <1>5

\* Releasing a row, and cancelling an unstarted one, keep it typed.
LEMMA RowTyped ==
  ASSUME NEW row \in NodeRow
  PROVE  /\ \A s \in NodeStatus : Released(row, s) \in NodeRow
         /\ CancelUnstarted(row) \in NodeRow
<1>1. ASSUME NEW s \in NodeStatus PROVE Released(row, s) \in NodeRow
  <2>1. [row EXCEPT !.status = s] \in NodeRow
    BY FieldTyped
  <2>2. [[row EXCEPT !.status = s] EXCEPT !.owner = NoWorker] \in NodeRow
    BY <2>1, FieldTyped
  <2> QED BY <2>2, FieldTyped DEF Released
<1>2. [row EXCEPT !.status = "cancelled"] \in NodeRow
  BY FieldTyped
<1> QED BY <1>1, <1>2 DEF CancelUnstarted

\* Writing one typed row keeps the table typed.
LEMMA SetRowTyped ==
  ASSUME TypeOK, NEW n \in Node, NEW r \in NodeRow, SetRow(n, r)
  PROVE  node' \in [Node -> NodeRow]
BY DEF SetRow, TypeOK

\* The writes to the run row, with or without its lease, keep it typed.
LEMMA RunTyped ==
  ASSUME NEW r \in RunRow
  PROVE  /\ \A s \in RunStatus : /\ [r EXCEPT !.status = s] \in RunRow
                                /\ OpCleared(r, s) \in RunRow
         /\ \A s \in RunStatus, w \in Worker : OpClaimed(r, s, w) \in RunRow
<1>1. ASSUME NEW s \in RunStatus
      PROVE  [r EXCEPT !.status = s] \in RunRow /\ OpCleared(r, s) \in RunRow
  BY DEF RunRow, OpCleared
<1>2. ASSUME NEW s \in RunStatus, NEW w \in Worker
      PROVE  OpClaimed(r, s, w) \in RunRow
  BY DEF RunRow, OpClaimed
<1> QED BY <1>1, <1>2

\* What recoverExpiredWork leaves behind is typed, statement by statement.
LEMMA RecoveredTyped ==
  ASSUME TypeOK
  PROVE  /\ RecoveredRun \in RunRow
         /\ RecoveredNode \in [Node -> NodeRow]
         /\ RecoveredApprovals \in [Node -> SUBSET ApprovalStatus]
         /\ \A n \in Node : RowAfterLeases(n) \in NodeRow
         /\ \A n \in Node : RowAfterApprovals(n) \in NodeRow
<1>1. ASSUME NEW n \in Node
      PROVE  RowAfterLeases(n) \in NodeRow /\ RowAfterApprovals(n) \in NodeRow
  <2>1. RowAfterLeases(n) \in NodeRow
    BY RowTyped DEF TypeOK, RowAfterLeases
  <2>2. [RowAfterLeases(n) EXCEPT !.status = "failed"] \in NodeRow
    BY <2>1, FieldTyped
  <2> QED BY <2>1, <2>2 DEF RowAfterApprovals
<1>2. RunAfterLeases \in RunRow
  <2> DEFINE s == IF \E n \in Node : LeaseLost(n) /\ Unsafe(n)
                  THEN "reconciling" ELSE run.status
  <2>1. run \in RunRow /\ s \in RunStatus
    BY DEF TypeOK, RunRow
  <2>2. [run EXCEPT !.status = s] \in RunRow
    BY <2>1 DEF RunRow
  <2>3. /\ OpCleared(run, "running") \in RunRow
        /\ OpCleared(run, "replanning") \in RunRow
    BY <2>1 DEF RunRow, OpCleared
  <2> QED BY <2>2, <2>3 DEF RunAfterLeases
<1>3. RecoveredRun \in RunRow
  <2>1. OpCleared(run, "cancelled") \in RunRow
    BY RunTyped DEF TypeOK
  <2> QED BY <1>2, <2>1 DEF RecoveredRun
<1>4. RecoveredNode \in [Node -> NodeRow]
  <2>1. ASSUME NEW n \in Node
        PROVE  CancelUnstarted(RowAfterApprovals(n)) \in NodeRow
    BY <1>1, RowTyped
  <2> QED BY <1>1, <2>1 DEF RecoveredNode
<1>5. RecoveredApprovals \in [Node -> SUBSET ApprovalStatus]
  BY DEF RecoveredApprovals, TypeOK
<1> QED BY <1>1, <1>3, <1>4, <1>5

\* Claims mark the executions and replans they outdate and add one of their own.
LEMMA TasksTyped ==
  ASSUME TypeOK, NEW w \in Worker, NEW n \in Node
  PROVE  /\ {[t EXCEPT !.current = t.current /\ t.node # n] : t \in tasks} \subseteq Task
         /\ {[r EXCEPT !.current = FALSE] : r \in replanning} \subseteq Replan
         /\ [worker |-> w, node |-> n, phase |-> "executing", current |-> TRUE] \in Task
         /\ [worker |-> w, node |-> n, current |-> TRUE] \in Replan
<1>1. ASSUME NEW t \in Task
      PROVE  [t EXCEPT !.current = t.current /\ t.node # n] \in Task
  BY DEF Task
<1>2. ASSUME NEW r \in Replan
      PROVE  [r EXCEPT !.current = FALSE] \in Replan
  BY DEF Replan
<1>3. /\ [worker |-> w, node |-> n, phase |-> "executing", current |-> TRUE] \in Task
      /\ [worker |-> w, node |-> n, current |-> TRUE] \in Replan
  BY DEF Task, Replan
<1> QED BY <1>1, <1>2, <1>3 DEF TypeOK

\* The approvals claimNode asks for keep nodes and approvals typed.
LEMMA ClaimTyped ==
  ASSUME TypeOK, NEW asked \in SUBSET Node
  PROVE  /\ Waiting(asked, RecoveredNode) \in [Node -> NodeRow]
         /\ RequestApproval(asked) => approvals' \in [Node -> SUBSET ApprovalStatus]
<1>1. ASSUME NEW n \in Node
      PROVE  Released(RecoveredNode[n], "waiting_approval") \in NodeRow
  BY RecoveredTyped, RowTyped
<1>2. Waiting(asked, RecoveredNode) \in [Node -> NodeRow]
  BY <1>1, RecoveredTyped DEF Waiting
<1>3. RequestApproval(asked) => approvals' \in [Node -> SUBSET ApprovalStatus]
  BY RecoveredTyped DEF RequestApproval
<1> QED BY <1>2, <1>3

\* A stored plan is typed, since its validation is assumed.
LEMMA InitTyped == Init => TypeOK
<1> SUFFICES ASSUME Init PROVE TypeOK
  OBVIOUS
<1>1. PICK p \in Plans : node = p.rows /\ edges = p.edges
  BY DEF Init
<1>2. p \in Plan
  BY <1>1, PlanAssumption
<1>3. node \in [Node -> NodeRow] /\ edges \subseteq Node \X Node
  BY <1>1, <1>2 DEF Plan
<1>4. run \in RunRow
  BY DEF Init, RunRow
<1> QED BY <1>3, <1>4, BudgetAssumption DEF Init, TypeOK

\* Type correctness is inductive: one case per handler.
LEMMA NextTyped == TypeOK /\ [Next]_vars => TypeOK'
<1> SUFFICES ASSUME TypeOK, [Next]_vars PROVE TypeOK'
  OBVIOUS
<1>1. CASE RecoverExpiredWork
  BY <1>1, RecoveredTyped DEF RecoverExpiredWork, TypeOK, procVars
<1>2. CASE RecoverFails
  <2>1. run' \in RunRow
    BY <1>2 DEF RecoverFails, TypeOK, RunRow
  <2>2. PICK done \in SUBSET {n \in Node : n \in overdue} :
          /\ node' = [n \in Node |-> IF n \in done THEN RowAfterApprovals(n)
                                                   ELSE RowAfterLeases(n)]
          /\ approvals' = [n \in Node |->
                             IF n \in done
                             THEN (approvals[n] \ {"pending"}) \cup {"expired"}
                             ELSE approvals[n]]
          /\ overdue' = overdue \ done
    BY <1>2 DEF RecoverFails, TypeOK
  <2>3. node' \in [Node -> NodeRow]
    BY <2>2, RecoveredTyped
  <2>4. approvals' \in [Node -> SUBSET ApprovalStatus]
    BY <2>2 DEF TypeOK
  <2> QED BY <1>2, <2>1, <2>2, <2>3, <2>4 DEF RecoverFails, TypeOK, procVars
<1>3. ASSUME NEW w \in Worker, ClaimNode(w) PROVE TypeOK'
  <2> DEFINE asked == Unasked(TRUE)
  <2>1. PICK n \in Claimable :
          /\ RequestApproval(asked)
          /\ node' = [Waiting(asked, RecoveredNode) EXCEPT
                        ![n].status = "running", ![n].attempt = @ + 1,
                        ![n].owner = w, ![n].lease = "live"]
          /\ run' = [RecoveredRun EXCEPT !.status = "running"]
          /\ tasks' = {[t EXCEPT !.current = t.current /\ t.node # n] : t \in tasks}
                      \cup {[worker |-> w, node |-> n, phase |-> "executing",
                             current |-> TRUE]}
    BY <1>3 DEF ClaimNode
  <2>2. n \in Node /\ asked \in SUBSET Node
    BY DEF Claimable, Candidates, Unasked
  <2> HIDE DEF asked
  <2>3. Waiting(asked, RecoveredNode) \in [Node -> NodeRow]
    BY <2>2, ClaimTyped
  <2>4. node' \in [Node -> NodeRow]
    <3>1. ASSUME NEW row \in NodeRow
          PROVE  [row EXCEPT !.status = "running", !.attempt = @ + 1,
                             !.owner = w, !.lease = "live"] \in NodeRow
      <4>1. [row EXCEPT !.status = "running"] \in NodeRow
        BY FieldTyped
      <4>2. [row EXCEPT !.status = "running", !.attempt = @ + 1] \in NodeRow
        <5>1. [row EXCEPT !.status = "running"].attempt + 1 \in Nat
          BY <4>1 DEF NodeRow
        <5> QED BY <4>1, <5>1, FieldTyped
      <4>3. [row EXCEPT !.status = "running", !.attempt = @ + 1, !.owner = w]
              \in NodeRow
        BY <4>2, FieldTyped
      <4> QED BY <4>3, FieldTyped
    <3>2. Waiting(asked, RecoveredNode)[n] \in NodeRow
      BY <2>2, <2>3
    <3> QED BY <2>1, <2>2, <2>3, <3>1, <3>2
  <2>5. run' \in RunRow
    BY <2>1, RecoveredTyped DEF RunRow
  <2>6. tasks' \subseteq Task
    BY <2>1, <2>2, TasksTyped
  <2>7. approvals' \in [Node -> SUBSET ApprovalStatus]
    BY <2>1, <2>2, ClaimTyped
  <2> QED BY <1>3, <2>4, <2>5, <2>6, <2>7 DEF ClaimNode, TypeOK
<1>4. ASSUME NEW w \in Worker, ClaimNothing(w) PROVE TypeOK'
  <2>1. Unasked(FALSE) \in SUBSET Node
    BY DEF Unasked, Candidates
  <2>2. run' \in RunRow
    BY <1>4, RecoveredTyped DEF ClaimNothing, RunRow
  <2> QED BY <1>4, <2>1, <2>2, ClaimTyped DEF ClaimNothing, TypeOK, procVars
<1>5. ASSUME NEW w \in Worker, ClaimReplanRun(w) PROVE TypeOK'
  <2> DEFINE failed == {n \in Node : RecoveredNode[n].status = "failed"}
  <2>1. /\ [RecoveredRun EXCEPT !.status = "failed"] \in RunRow
        /\ OpClaimed(RecoveredRun, "replanning", w) \in RunRow
    BY RecoveredTyped, RunTyped
  <2>2. CASE run' = [RecoveredRun EXCEPT !.status = "failed"] /\ UNCHANGED replanning
    BY <1>5, <2>1, <2>2, RecoveredTyped DEF ClaimReplanRun, TypeOK
  <2>3. ASSUME NEW n \in failed,
               run' = OpClaimed(RecoveredRun, "replanning", w),
               replanning' = {[r EXCEPT !.current = FALSE] : r \in replanning}
                             \cup {[worker |-> w, node |-> n, current |-> TRUE]}
        PROVE  TypeOK'
    <3>1. replanning' \subseteq Replan
      BY <2>3, TasksTyped
    <3> QED BY <1>5, <2>1, <2>3, <3>1, RecoveredTyped DEF ClaimReplanRun, TypeOK
  <2> QED BY <1>5, <2>2, <2>3 DEF ClaimReplanRun
<1>6. ASSUME NEW w \in Worker, FinalizeList(w) PROVE TypeOK'
  BY <1>6, RecoveredTyped DEF FinalizeList, TypeOK
<1>7. ASSUME NEW w \in Worker, FinalizeVisit(w) PROVE TypeOK'
  <2>1. /\ [run EXCEPT !.status = "failed"] \in RunRow
        /\ OpClaimed(run, "synthesizing", w) \in RunRow
    BY RunTyped DEF TypeOK
  <2>2. /\ run' \in {run, [run EXCEPT !.status = "failed"],
                    OpClaimed(run, "synthesizing", w)}
        /\ synths' \in {synths, synths \cup {w}}
    BY <1>7 DEF FinalizeVisit
  <2> QED BY <1>7, <2>1, <2>2 DEF FinalizeVisit, TypeOK
<1>8. ASSUME NEW w \in Worker, FinalizeCancelled(w) PROVE TypeOK'
  <2>1. run' \in RunRow
    BY <1>8, RunTyped DEF FinalizeCancelled, TypeOK
  <2>2. node' \in [Node -> NodeRow]
    <3>1. ASSUME NEW n \in Node PROVE CancelUnstarted(node[n]) \in NodeRow
      BY RowTyped DEF TypeOK
    <3> QED BY <1>8, <3>1 DEF FinalizeCancelled
  <2> QED BY <1>8, <2>1, <2>2 DEF FinalizeCancelled, TypeOK
<1>9. ASSUME NEW w \in Worker, SynthesisReturns(w) PROVE TypeOK'
  BY <1>9, RunTyped DEF SynthesisReturns, TypeOK
<1>10. ASSUME NEW w \in Worker, Crash(w) PROVE TypeOK'
  BY <1>10 DEF Crash, TypeOK, dbVars
<1>11. ASSUME NEW t \in tasks, ExecutorReturns(t) PROVE TypeOK'
  <2>1. t \in Task /\ t.node \in Node
    BY DEF TypeOK, Task
  <2>2. Released(node[t.node], "succeeded") \in NodeRow
    BY <2>1, RowTyped DEF TypeOK
  <2>3. node' \in [Node -> NodeRow]
    BY <1>11, <2>1, <2>2, SetRowTyped DEF ExecutorReturns, TypeOK
  <2> QED BY <1>11, <2>3 DEF ExecutorReturns, TypeOK
<1>12. ASSUME NEW t \in tasks, ExecutorFails(t) PROVE TypeOK'
  <2> DEFINE next == IF node[t.node].attempt < node[t.node].maxAttempts THEN "queued"
                     ELSE IF Unsafe(t.node) THEN "reconciling" ELSE "failed"
  <2>1. t \in Task /\ t.node \in Node /\ next \in NodeStatus
    BY DEF TypeOK, Task
  <2>2. [t EXCEPT !.phase = "failing"] \in Task
    BY <2>1 DEF Task
  <2>3. /\ \/ node' = node
           \/ SetRow(t.node, Released(node[t.node], next))
        /\ run' = run \/ run' = [run EXCEPT !.status = "reconciling"]
                      \/ run' = [run EXCEPT !.status = @]
        /\ tasks' \subseteq tasks \cup {[t EXCEPT !.phase = "failing"]}
        /\ UNCHANGED <<edges, approvals, overdue, replanning, finalizer, synths,
                       alive, stalls>>
    BY <1>12 DEF ExecutorFails
  <2> HIDE DEF next
  <2>4. node' \in [Node -> NodeRow]
    <3>1. Released(node[t.node], next) \in NodeRow
      BY <2>1, RowTyped DEF TypeOK
    <3> QED BY <2>1, <2>3, <3>1, SetRowTyped DEF TypeOK
  <2>5. run' \in RunRow
    BY <2>3 DEF TypeOK, RunRow
  <2> QED BY <2>2, <2>3, <2>4, <2>5 DEF TypeOK
<1>13. ASSUME NEW t \in tasks, HandleNodeFailure(t) PROVE TypeOK'
  <2>1. t.worker \in Worker /\ t.node \in Node
    BY DEF TypeOK, Task
  <2> DEFINE more == {[r EXCEPT !.current = FALSE] : r \in replanning}
                     \cup {[worker |-> t.worker, node |-> t.node, current |-> TRUE]}
  <2>2. /\ [run EXCEPT !.status = "failed"] \in RunRow
        /\ OpClaimed(run, "replanning", t.worker) \in RunRow
        /\ more \subseteq Replan
    BY <2>1, RunTyped, TasksTyped DEF TypeOK
  <2>3. /\ run' \in {[run EXCEPT !.status = "failed"],
                    OpClaimed(run, "replanning", t.worker)}
        /\ replanning' \in {replanning, more}
    BY <1>13 DEF HandleNodeFailure
  <2> QED BY <1>13, <2>2, <2>3 DEF HandleNodeFailure, TypeOK
<1>14. ASSUME NEW r \in replanning, ReplanReturns(r) PROVE TypeOK'
  <2> DEFINE n == r.node
  <2>1. r \in Replan /\ n \in Node
    BY DEF TypeOK, Replan
  <2>2. Revised \in RunRow /\ OpCleared(run, "failed") \in RunRow
    <3>1. OpCleared(run, "running") \in RunRow /\ OpCleared(run, "failed") \in RunRow
      BY RunTyped DEF TypeOK
    <3>2. ASSUME NEW r2 \in RunRow PROVE [r2 EXCEPT !.replans = @ + 1] \in RunRow
      BY DEF RunRow
    <3> QED BY <3>1, <3>2 DEF Revised
  <2>3. CASE PatchRetry(n)
    <3>1. ASSUME NEW row \in NodeRow
          PROVE  [row EXCEPT !.attempt = 0, !.maxAttempts = MaxAttempts] \in NodeRow
      <4>1. [row EXCEPT !.attempt = 0] \in NodeRow
        BY FieldTyped
      <4> QED BY <4>1, FieldTyped, BudgetAssumption
    <3>2. Released(node[n], "queued") \in NodeRow
      BY <2>1, RowTyped DEF TypeOK
    <3>3. node' \in [Node -> NodeRow]
      BY <2>1, <2>3, <3>1, <3>2, SetRowTyped DEF PatchRetry
    <3> QED BY <1>14, <2>2, <2>3, <3>3 DEF ReplanReturns, PatchRetry, TypeOK
  <2>4. CASE PatchSkip(n)
    <3>1. node' \in [Node -> NodeRow]
      <4>1. Released(node[n], "skipped") \in NodeRow
        BY <2>1, RowTyped DEF TypeOK
      <4> QED BY <2>1, <2>4, <4>1, SetRowTyped DEF PatchSkip
    <3> QED BY <1>14, <2>2, <2>4, <3>1 DEF ReplanReturns, PatchSkip, TypeOK
  <2>5. CASE PatchReplace(n)
    <3>1. PICK new \in Node \ Present, mode \in PatchModes :
            /\ node' = [node EXCEPT ![n] = Released(@, "superseded"),
                                    ![new] = Replacement(n, mode)]
            /\ edges' = {e \in edges : e[1] # n}
                  \cup {<<e[1], new>> : e \in {x \in edges : x[2] = n}}
                  \cup {<<new, e[2]>> : e \in {x \in edges : x[1] = n}}
      BY <2>5 DEF PatchReplace
    <3>2. mode[1] \in Effects /\ mode[2] \in BOOLEAN
      BY PlanAssumption
    <3>3. node[n].sequence \in Nat
      BY <2>1 DEF TypeOK, NodeRow
    <3>4. Replacement(n, mode) \in NodeRow
      BY <3>2, <3>3, BudgetAssumption DEF NodeRow, Replacement
    <3>5. Released(node[n], "superseded") \in NodeRow
      BY <2>1, RowTyped DEF TypeOK
    <3>6. node' \in [Node -> NodeRow]
      BY <3>1, <3>4, <3>5 DEF TypeOK
    <3>7. edges' \subseteq Node \X Node
      BY <3>1 DEF TypeOK
    <3>8. run' \in RunRow
      BY <2>2, <2>5 DEF PatchReplace
    <3> QED BY <1>14, <3>6, <3>7, <3>8 DEF ReplanReturns, TypeOK
  <2>6. CASE PatchAbort
    BY <1>14, <2>2, <2>6 DEF ReplanReturns, PatchAbort, TypeOK
  <2>7. CASE UNCHANGED <<run, node, edges>>
    BY <1>14, <2>7 DEF ReplanReturns, TypeOK
  <2> QED BY <1>14, <2>3, <2>4, <2>5, <2>6, <2>7 DEF ReplanReturns, ApplyReplanPatch
<1>15. ASSUME NEW r \in replanning, ReplanFails(r) PROVE TypeOK'
  <2>1. OpCleared(run, "cancelled") \in RunRow /\ OpCleared(run, "failed") \in RunRow
    BY RunTyped DEF TypeOK
  <2>2. run' \in {run, OpCleared(run, "cancelled"), OpCleared(run, "failed")}
    BY <1>15 DEF ReplanFails
  <2> QED BY <1>15, <2>1, <2>2 DEF ReplanFails, TypeOK
<1>16. ASSUME NEW n \in Node, NEW d \in {"approved", "rejected"},
              DecideDeepAgentApproval(n, d)
       PROVE  TypeOK'
  <2>1. node' \in [Node -> NodeRow]
    <3>1. /\ node[n] \in NodeRow
          /\ [node[n] EXCEPT !.status = "queued"] \in NodeRow
          /\ [node[n] EXCEPT !.status = "cancelled"] \in NodeRow
      BY FieldTyped DEF TypeOK
    <3>2. \E r \in {node[n], [node[n] EXCEPT !.status = "queued"],
                    [node[n] EXCEPT !.status = "cancelled"]} : SetRow(n, r)
      BY <1>16 DEF DecideDeepAgentApproval
    <3> QED BY <3>1, <3>2, SetRowTyped
  <2>2. run' \in RunRow
    BY <1>16 DEF DecideDeepAgentApproval, TypeOK, RunRow
  <2>3. approvals' \in [Node -> SUBSET ApprovalStatus]
    BY <1>16 DEF DecideDeepAgentApproval, TypeOK
  <2> QED BY <1>16, <2>1, <2>2, <2>3 DEF DecideDeepAgentApproval, TypeOK, procVars
<1>17. ASSUME NEW n \in Node, NEW d \in {"confirmed_succeeded", "retry", "failed"},
              ResolveDeepAgentReconciliation(n, d)
       PROVE  TypeOK'
  <2>1. /\ [node[n] EXCEPT !.status = "succeeded"] \in NodeRow
        /\ [node[n] EXCEPT !.status = "failed"] \in NodeRow
        /\ [node[n] EXCEPT !.status = "queued"] \in NodeRow
    BY FieldTyped DEF TypeOK
  <2>2. [node[n] EXCEPT !.status = "queued", !.attempt = 0] \in NodeRow
    BY <2>1, FieldTyped
  <2>4. \E r \in {[node[n] EXCEPT !.status = "succeeded"],
                  [node[n] EXCEPT !.status = "failed"],
                  [node[n] EXCEPT !.status = "queued", !.attempt = 0]} : SetRow(n, r)
    BY <1>17 DEF ResolveDeepAgentReconciliation
  <2>5. node' \in [Node -> NodeRow]
    BY <2>1, <2>2, <2>4, SetRowTyped
  <2>3. run' \in RunRow
    BY <1>17 DEF ResolveDeepAgentReconciliation, TypeOK, RunRow
  <2> QED BY <1>17, <2>3, <2>5 DEF ResolveDeepAgentReconciliation, TypeOK, procVars
<1>18. CASE CancelDeepAgentRun
  BY <1>18 DEF CancelDeepAgentRun, TypeOK, RunRow, procVars
<1>19. ASSUME NEW n \in Node, LeaseLapses(n) \/ Heartbeat(n) PROVE TypeOK'
  <2>1. /\ [node[n] EXCEPT !.lease = "lapsed"] \in NodeRow
        /\ [node[n] EXCEPT !.lease = "live"] \in NodeRow
    BY FieldTyped DEF TypeOK
  <2>2. node' \in [Node -> NodeRow]
    BY <1>19, <2>1, SetRowTyped DEF LeaseLapses, Heartbeat
  <2>3. stalls' \in 0 .. MaxStalls
    BY <1>19, BudgetAssumption DEF LeaseLapses, Heartbeat, Stalled, TypeOK, procVars
  <2> QED BY <1>19, <2>2, <2>3 DEF LeaseLapses, Heartbeat, TypeOK, procVars
<1>20. ASSUME NEW n \in Node, ApprovalLapses(n) PROVE TypeOK'
  BY <1>20 DEF ApprovalLapses, TypeOK, procVars
<1>21. CASE OpLeaseLapses \/ OpHeartbeat
  <2>1. run' \in RunRow
    BY <1>21 DEF OpLeaseLapses, OpHeartbeat, TypeOK, RunRow
  <2>2. stalls' \in 0 .. MaxStalls
    BY <1>21, BudgetAssumption DEF OpLeaseLapses, OpHeartbeat, Stalled, TypeOK, procVars
  <2> QED BY <1>21, <2>1, <2>2 DEF OpLeaseLapses, OpHeartbeat, TypeOK, procVars
<1>22. CASE UNCHANGED vars
  BY <1>22 DEF TypeOK, vars, dbVars, procVars
<1> QED
  BY <1>1, <1>2, <1>3, <1>4, <1>5, <1>6, <1>7, <1>8, <1>9, <1>10, <1>11, <1>12,
     <1>13, <1>14, <1>15, <1>16, <1>17, <1>18, <1>19, <1>20, <1>21, <1>22
     DEF Next, Decide, Resolve

(* The shape of every variable, whatever the plans, budgets and bounds.    *)
THEOREM TypeCorrect == Spec => []TypeOK
BY InitTyped, NextTyped, PTL DEF Spec

-----------------------------------------------------------------------------
(* Approvals and leases: one inductive invariant.                          *)

ApprovalInv == /\ TypeOK
               /\ ApprovalsFitNodes
               /\ ApprovedBeforeRunning
               /\ LeasesOnRunningNodes

LeaseFits(row) == /\ row.status = "running" <=> row.owner # NoWorker
                  /\ row.status = "running" <=> row.lease # "none"

\* A step of a row that neither starts its node nor changes what gates it.
Calm(old, new) == /\ new.gated = old.gated /\ new.effect = old.effect
                  /\ new.status = "running" => old.status = "running"
                  /\ new.status = "absent" => old.status = "absent"
                  /\ LeaseFits(old) => LeaseFits(new)

\* A step that starts node n, or adds it to the plan.
Enters(n) == LET new == node'[n]
             IN /\ LeaseFits(new) /\ new.status # "absent"
                /\ new.effect = "non_idempotent_write" => new.gated
                /\ new.status = "running" /\ new.gated => "approved" \in approvals'[n]
                /\ new.gated = node[n].gated \/ approvals'[n] = {}

\* What a step may do to the approvals of node n.
ApprovalStep(n) ==
  /\ "approved" \in approvals[n] => "approved" \in approvals'[n]
  /\ "pending" \in approvals'[n] => node[n].gated /\ "approved" \notin approvals'[n]
  /\ node'[n].status = "absent" => approvals'[n] = {}
  /\ n \in overdue' => "pending" \in approvals'[n]

\* The invariant survives when every row changes calmly or enters properly.
LEMMA CalmStep ==
  ASSUME ApprovalInv, TypeOK',
         \A n \in Node : Calm(node[n], node'[n]) \/ Enters(n),
         \A n \in Node : ApprovalStep(n)
  PROVE  ApprovalInv'
<1>1. ApprovalsFitNodes'
  BY DEF ApprovalInv, ApprovalsFitNodes, Calm, Enters, ApprovalStep, Unsafe,
         AwaitsApproval, TypeOK
<1>2. ApprovedBeforeRunning'
  BY DEF ApprovalInv, ApprovalsFitNodes, ApprovedBeforeRunning, Calm, Enters,
         ApprovalStep, Unsafe
<1>3. LeasesOnRunningNodes'
  BY DEF ApprovalInv, LeasesOnRunningNodes, LeaseFits, Calm, Enters
<1> QED BY <1>1, <1>2, <1>3 DEF ApprovalInv

\* A step that leaves the approvals alone.
LEMMA CalmRows ==
  ASSUME ApprovalInv, TypeOK', UNCHANGED <<approvals, overdue>>,
         \A n \in Node : Calm(node[n], node'[n])
  PROVE  ApprovalInv'
<1>1. ASSUME NEW n \in Node PROVE ApprovalStep(n)
  BY DEF ApprovalInv, ApprovalsFitNodes, AwaitsApproval, ApprovalStep, Calm
<1> QED BY <1>1, CalmStep

\* Ending, releasing and cancelling a node are calm changes.
LEMMA ReleasedCalm ==
  ASSUME NEW row \in NodeRow
  PROVE  /\ \A s \in NodeStatus \ {"running", "absent"} : Calm(row, Released(row, s))
         /\ \A s \in NodeStatus \ {"running", "absent"} :
              row.status # "running" => Calm(row, [row EXCEPT !.status = s])
         /\ Calm(row, CancelUnstarted(row))
         /\ Calm(row, row)
BY DEF Calm, LeaseFits, Released, CancelUnstarted, NodeRow

\* Calm changes compose, as the statements of one transaction do.
LEMMA CalmTransitive ==
  ASSUME NEW x, NEW y, NEW z, Calm(x, y), Calm(y, z)
  PROVE  Calm(x, z)
BY DEF Calm

\* Every statement of recoverExpiredWork changes every row calmly.
LEMMA RecoveredCalm ==
  ASSUME TypeOK, NEW n \in Node
  PROVE  /\ Calm(node[n], RowAfterLeases(n))
         /\ Calm(node[n], RowAfterApprovals(n))
         /\ Calm(node[n], RecoveredNode[n])
         /\ RecoveredNode[n].status \in {"queued", "waiting_approval"} =>
              node[n].status # "absent"
<1>1. node[n] \in NodeRow /\ RowAfterLeases(n) \in NodeRow
                          /\ RowAfterApprovals(n) \in NodeRow
  BY RecoveredTyped DEF TypeOK
<1>2. Calm(node[n], RowAfterLeases(n))
  BY <1>1, ReleasedCalm DEF RowAfterLeases
<1>3. Calm(RowAfterLeases(n), RowAfterApprovals(n))
  BY <1>1, ReleasedCalm DEF RowAfterApprovals
<1>4. Calm(node[n], RowAfterApprovals(n))
  BY <1>2, <1>3, CalmTransitive
<1>5. Calm(RowAfterApprovals(n), RecoveredNode[n])
  BY <1>1, ReleasedCalm DEF RecoveredNode
<1>6. Calm(node[n], RecoveredNode[n])
  BY <1>4, <1>5, CalmTransitive
<1>7. node[n].status = "absent" => RecoveredNode[n].status = "absent"
  BY DEF RecoveredNode, RowAfterApprovals, RowAfterLeases, LeaseLost, CancelUnstarted
<1> QED BY <1>2, <1>4, <1>6, <1>7

(* What the recovery, and the requests that follow it, do to approvals.    *)
LEMMA RecoveredApprovalStep ==
  ASSUME ApprovalInv, NEW n \in Node, NEW asked \in SUBSET Node,
         \A m \in asked : node'[m].status # "absent" /\ AwaitsApproval(m),
         node'[n].status = "absent" => node[n].status = "absent",
         overdue' = {},
         \/ approvals' = RecoveredApprovals
         \/ RequestApproval(asked)
  PROVE  ApprovalStep(n)
<1>1. approvals'[n] \in {RecoveredApprovals[n], RecoveredApprovals[n] \cup {"pending"}}
      /\ (approvals'[n] # RecoveredApprovals[n] => n \in asked)
  BY DEF RequestApproval, RecoveredApprovals
<1>2. RecoveredApprovals[n] = IF n \in overdue
                              THEN (approvals[n] \ {"pending"}) \cup {"expired"}
                              ELSE approvals[n]
  BY DEF RecoveredApprovals
<1> QED BY <1>1, <1>2 DEF ApprovalStep, ApprovalInv, ApprovalsFitNodes, AwaitsApproval

\* A row for which approval is requested waits.
LEMMA AskedWaits ==
  ASSUME TypeOK, NEW asked \in SUBSET Node, NEW n \in asked
  PROVE  Waiting(asked, RecoveredNode)[n].status = "waiting_approval"
<1>1. n \in Node /\ RecoveredNode[n] \in NodeRow
  BY RecoveredTyped
<1>2. Released(RecoveredNode[n], "waiting_approval").status = "waiting_approval"
  BY <1>1 DEF Released, NodeRow
<1> QED BY <1>1, <1>2 DEF Waiting

\* So do the requests for approval that claimNode adds to it.
LEMMA ClaimCalm ==
  ASSUME TypeOK, NEW n \in Node, NEW asked \in SUBSET Node
  PROVE  Calm(node[n], Waiting(asked, RecoveredNode)[n])
<1>1. Calm(RecoveredNode[n], Released(RecoveredNode[n], "waiting_approval"))
  BY RecoveredTyped, ReleasedCalm
<1>2. Calm(node[n], RecoveredNode[n])
  BY RecoveredCalm
<1> QED BY <1>1, <1>2, CalmTransitive DEF Waiting

\* Approval is requested only for queued nodes that still need one.
LEMMA AskedAwaits ==
  ASSUME TypeOK, NEW limit \in BOOLEAN
  PROVE  /\ Unasked(limit) \in SUBSET Node
         /\ \A m \in Unasked(limit) : /\ RecoveredNode[m].status = "queued"
                                      /\ AwaitsApproval(m)
BY DEF Unasked, Candidates

\* A claim starts one node, approved if it is gated, and calms the others.
LEMMA ClaimNodeApprovals ==
  ASSUME ApprovalInv, TypeOK', NEW w \in Worker, ClaimNode(w)
  PROVE  ApprovalInv'
<1> TypeOK
  BY DEF ApprovalInv
<1> DEFINE asked == Unasked(TRUE)
<1> DEFINE rows == Waiting(asked, RecoveredNode)
<1>1. PICK n \in Claimable :
        /\ RequestApproval(asked)
        /\ node' = [rows EXCEPT
                      ![n].status = "running", ![n].attempt = @ + 1,
                      ![n].owner = w, ![n].lease = "live"]
  BY DEF ClaimNode
<1>2. n \in Node /\ ~AwaitsApproval(n) /\ asked \in SUBSET Node
  BY AskedAwaits DEF Claimable, Candidates
<1>3. /\ \A m \in asked : AwaitsApproval(m)
      /\ \A m \in asked : rows[m].status = "waiting_approval"
  <2>1. \A m \in asked : AwaitsApproval(m)
    BY AskedAwaits
  <2> HIDE DEF asked
  <2> QED BY <1>2, <2>1, AskedWaits
<1>4. overdue' = {}
  BY DEF ClaimNode
<1> HIDE DEF asked
<1>5. rows \in [Node -> NodeRow]
  BY <1>2, ClaimTyped
<1>6. \A m \in Node : Calm(node[m], rows[m])
  BY <1>2, ClaimCalm
<1> HIDE DEF rows
<1>7. \A m \in Node \ {n} : node'[m] = rows[m]
  BY <1>1, <1>2, <1>5
<1>8. /\ node'[n].status = "running" /\ node'[n].owner = w /\ node'[n].lease = "live"
      /\ node'[n].gated = rows[n].gated /\ node'[n].effect = rows[n].effect
  BY <1>1, <1>2, <1>5 DEF NodeRow
<1>9. n \notin asked
  BY <1>2, <1>3
<1>10. \A m \in Node : ApprovalStep(m)
  <2> TAKE m \in Node
  <2>1. \A k \in asked : node'[k].status # "absent" /\ AwaitsApproval(k)
    BY <1>2, <1>3, <1>7, <1>9
  <2>2. node'[m].status = "absent" => node[m].status = "absent"
    BY <1>6, <1>7, <1>8 DEF Calm
  <2> QED BY <1>1, <1>2, <1>4, <2>1, <2>2, RecoveredApprovalStep
<1>11. Enters(n)
  <2>1. node'[n].gated = node[n].gated /\ node'[n].effect = node[n].effect
    BY <1>2, <1>6, <1>8 DEF Calm
  <2>2. LeaseFits(node'[n])
    BY <1>8, PlanAssumption DEF LeaseFits
  <2>3. node[n].gated => "approved" \in approvals'[n]
    BY <1>2, <1>10 DEF AwaitsApproval, ApprovalStep
  <2> QED BY <1>2, <1>8, <2>1, <2>2, <2>3
          DEF Enters, ApprovalInv, ApprovalsFitNodes, Unsafe
<1> QED BY <1>6, <1>7, <1>10, <1>11, CalmStep

\* A patch adds a node without approvals, gated when it is a write.
LEMMA ReplanReturnsApprovals ==
  ASSUME ApprovalInv, TypeOK', NEW r \in replanning, ReplanReturns(r)
  PROVE  ApprovalInv'
<1> DEFINE n == r.node
<1>1. TypeOK /\ n \in Node /\ node[n] \in NodeRow
  BY DEF ApprovalInv, TypeOK, Replan
<1>2. UNCHANGED <<approvals, overdue>>
  BY DEF ReplanReturns
<1>3. CASE PatchRetry(n)
  <2>1. Calm(node[n], [Released(node[n], "queued") EXCEPT
                         !.attempt = 0, !.maxAttempts = MaxAttempts])
    BY <1>1 DEF Calm, LeaseFits, Released, NodeRow
  <2> QED BY <1>1, <1>2, <1>3, <2>1, CalmRows, ReleasedCalm DEF PatchRetry, SetRow, TypeOK
<1>4. CASE PatchSkip(n)
  BY <1>1, <1>2, <1>4, CalmRows, ReleasedCalm DEF PatchSkip, SetRow, TypeOK
<1>5. CASE PatchReplace(n)
  <2>1. PICK new \in Node \ Present, mode \in PatchModes :
          node' = [node EXCEPT ![n] = Released(@, "superseded"),
                               ![new] = Replacement(n, mode)]
    BY <1>5 DEF PatchReplace
  <2>2. new \in Node /\ node[new].status = "absent" /\ approvals'[new] = {}
    BY <1>2 DEF Present, ApprovalInv, ApprovalsFitNodes
  <2>3. /\ node'[new].status = "queued" /\ node'[new].owner = NoWorker
        /\ node'[new].lease = "none"
        /\ node'[new].effect = "non_idempotent_write" => node'[new].gated
    BY <1>1, <2>1, PlanAssumption DEF TypeOK, Replacement
  <2>4. Enters(new)
    BY <2>2, <2>3 DEF Enters, LeaseFits
  <2>5. \A m \in Node \ {new} : Calm(node[m], node'[m])
    BY <1>1, <2>1, ReleasedCalm DEF TypeOK
  <2>6. \A m \in Node : ApprovalStep(m)
    <3> TAKE m \in Node
    <3>1. CASE m = new
      BY <1>2, <2>2, <3>1 DEF ApprovalStep, ApprovalInv, ApprovalsFitNodes
    <3>2. CASE m # new
      BY <1>2, <2>5, <3>2
         DEF Calm, ApprovalStep, ApprovalInv, ApprovalsFitNodes, AwaitsApproval
    <3> QED BY <3>1, <3>2
  <2> QED BY <2>4, <2>5, <2>6, CalmStep
<1>6. CASE UNCHANGED node
  BY <1>1, <1>2, <1>6, CalmRows, ReleasedCalm DEF TypeOK
<1> QED BY <1>3, <1>4, <1>5, <1>6 DEF ReplanReturns, ApplyReplanPatch, PatchAbort

\* A decision meets a node that is not running and has a pending approval.
LEMMA DecideApprovals ==
  ASSUME ApprovalInv, TypeOK', NEW n \in Node, NEW d \in {"approved", "rejected"},
         DecideDeepAgentApproval(n, d)
  PROVE  ApprovalInv'
<1>1. TypeOK /\ node[n] \in NodeRow
  BY DEF ApprovalInv, TypeOK
<1>2. node[n].gated /\ "approved" \notin approvals[n]
  BY DEF DecideDeepAgentApproval, ApprovalInv, ApprovalsFitNodes, AwaitsApproval
<1>3. node[n].status # "running" /\ node[n].status # "absent"
  BY <1>2 DEF DecideDeepAgentApproval, ApprovalInv, ApprovalsFitNodes,
              ApprovedBeforeRunning
<1>4. \A m \in Node : Calm(node[m], node'[m])
  <2>1. /\ Calm(node[n], [node[n] EXCEPT !.status = "queued"])
        /\ Calm(node[n], [node[n] EXCEPT !.status = "cancelled"])
    BY <1>1, <1>3, ReleasedCalm
  <2>2. \A m \in Node : Calm(node[m], node[m])
    BY <1>1, ReleasedCalm DEF TypeOK
  <2> QED BY <1>1, <2>1, <2>2 DEF DecideDeepAgentApproval, SetRow, TypeOK
<1>5. \A m \in Node : ApprovalStep(m)
  <2> TAKE m \in Node
  <2>1. node'[m].status = "absent" => node[m].status = "absent"
    BY <1>4 DEF Calm
  <2>2. CASE m = n
    BY <1>1, <1>2, <1>3, <2>1, <2>2
       DEF DecideDeepAgentApproval, ApprovalStep, TypeOK
  <2>3. CASE m # n
    BY <1>1, <2>1, <2>3 DEF DecideDeepAgentApproval, ApprovalStep, ApprovalInv,
                            ApprovalsFitNodes, AwaitsApproval, TypeOK
  <2> QED BY <2>2, <2>3
<1> QED BY <1>4, <1>5, CalmStep

\* A recovery that throws half-way has expired only some of the approvals.
LEMMA RecoverFailsApprovals ==
  ASSUME ApprovalInv, TypeOK', RecoverFails
  PROVE  ApprovalInv'
<1>1. TypeOK
  BY DEF ApprovalInv
<1>2. PICK done \in SUBSET {n \in overdue : "expired" \notin approvals[n]} :
        /\ node' = [n \in Node |-> IF n \in done THEN RowAfterApprovals(n)
                                                 ELSE RowAfterLeases(n)]
        /\ approvals' = [n \in Node |->
                           IF n \in done
                           THEN (approvals[n] \ {"pending"}) \cup {"expired"}
                           ELSE approvals[n]]
        /\ overdue' = overdue \ done
  BY DEF RecoverFails
<1>3. \A n \in Node : Calm(node[n], node'[n])
  BY <1>1, <1>2, RecoveredCalm
<1>4. \A n \in Node : ApprovalStep(n)
  <2> TAKE n \in Node
  <2>1. node'[n].status = "absent" => node[n].status = "absent"
    BY <1>3 DEF Calm
  <2> QED BY <1>2, <2>1 DEF ApprovalStep, ApprovalInv, ApprovalsFitNodes, AwaitsApproval
<1> QED BY <1>3, <1>4, CalmStep

(* The approvals and leases are right in every reachable state: no handler *)
(* starts an unapproved node, drops a granted approval or leaves a lease on *)
(* a node that does not run.                                                *)
THEOREM ApprovalsCorrect == Spec => []ApprovalInv
<1>1. Init => ApprovalInv
  <2> SUFFICES ASSUME Init, TypeOK PROVE ApprovalInv
    <3> QED BY InitTyped
  <2>1. PICK p \in Plans : node = p.rows /\ edges = p.edges
    BY DEF Init
  <2>2. \A n \in Node : /\ node[n].status # "running"
                        /\ node[n].owner = NoWorker /\ node[n].lease = "none"
                        /\ Unsafe(n) => node[n].gated
    BY <2>1, PlanAssumption DEF Unsafe
  <2> QED BY <2>2 DEF Init, ApprovalInv, ApprovalsFitNodes, ApprovedBeforeRunning,
                      LeasesOnRunningNodes
<1>2. ApprovalInv /\ [Next]_vars => ApprovalInv'
  <2> SUFFICES ASSUME ApprovalInv, [Next]_vars, TypeOK' PROVE ApprovalInv'
    BY NextTyped DEF ApprovalInv
  <2> TypeOK
    BY DEF ApprovalInv
  <2> DEFINE SameApprovals == UNCHANGED <<approvals, overdue>>
             CalmNodes == \A n \in Node : Calm(node[n], node'[n])
  <2>1. UNCHANGED node => CalmNodes
    BY ReleasedCalm DEF TypeOK
  <2>2. ASSUME NEW n \in Node, NEW row, Calm(node[n], row), SetRow(n, row)
        PROVE  CalmNodes
    BY <2>2, ReleasedCalm DEF SetRow, TypeOK
  <2>3. ASSUME node' = RecoveredNode, approvals' = RecoveredApprovals, overdue' = {}
        PROVE  ApprovalInv'
    <3>1. CalmNodes
      BY <2>3, RecoveredCalm
    <3>2. \A n \in Node : ApprovalStep(n)
      BY <2>3, <3>1, RecoveredApprovalStep DEF Calm
    <3> QED BY <3>1, <3>2, CalmStep
  <2>4. CASE RecoverExpiredWork
    BY <2>3, <2>4 DEF RecoverExpiredWork
  <2>5. CASE RecoverFails
    BY <2>5, RecoverFailsApprovals
  <2>6. ASSUME NEW w \in Worker, ClaimNode(w) PROVE ApprovalInv'
    BY <2>6, ClaimNodeApprovals
  <2>7. ASSUME NEW w \in Worker, ClaimNothing(w) PROVE ApprovalInv'
    <3> DEFINE asked == Unasked(FALSE)
    <3>1. /\ RequestApproval(asked) /\ overdue' = {}
          /\ node' = Waiting(asked, RecoveredNode)
      BY <2>7 DEF ClaimNothing
    <3>2. /\ asked \in SUBSET Node
          /\ \A m \in asked : AwaitsApproval(m) /\ node'[m].status # "absent"
      <4>1. asked \in SUBSET Node /\ \A m \in asked : AwaitsApproval(m)
        BY AskedAwaits
      <4> HIDE DEF asked
      <4>2. \A m \in asked : node'[m].status = "waiting_approval"
        BY <3>1, <4>1, AskedWaits
      <4> QED BY <4>1, <4>2
    <3> HIDE DEF asked
    <3>3. CalmNodes
      BY <3>1, <3>2, ClaimCalm
    <3>4. \A n \in Node : ApprovalStep(n)
      BY <3>1, <3>2, <3>3, RecoveredApprovalStep DEF Calm
    <3> QED BY <3>3, <3>4, CalmStep
  <2>8. ASSUME NEW w \in Worker, ClaimReplanRun(w) \/ FinalizeList(w) PROVE ApprovalInv'
    BY <2>3, <2>8 DEF ClaimReplanRun, FinalizeList
  <2>9. ASSUME NEW w \in Worker,
               FinalizeVisit(w) \/ SynthesisReturns(w) \/ Crash(w)
        PROVE  ApprovalInv'
    <3>1. UNCHANGED node /\ SameApprovals
      BY <2>9 DEF FinalizeVisit, SynthesisReturns, Crash, dbVars
    <3> QED BY <2>1, <3>1, CalmRows
  <2>10. ASSUME NEW w \in Worker, FinalizeCancelled(w) PROVE ApprovalInv'
    <3>1. CalmNodes /\ SameApprovals
      BY <2>10, ReleasedCalm DEF FinalizeCancelled, TypeOK
    <3> QED BY <3>1, CalmRows
  <2>11. ASSUME NEW t \in tasks, ExecutorReturns(t) PROVE ApprovalInv'
    <3>1. t.node \in Node /\ node[t.node] \in NodeRow
      BY DEF TypeOK, Task
    <3>2. Calm(node[t.node], Released(node[t.node], "succeeded"))
      BY <3>1, ReleasedCalm
    <3>3. CalmNodes /\ SameApprovals
      BY <2>1, <2>2, <2>11, <3>1, <3>2 DEF ExecutorReturns
    <3> QED BY <3>3, CalmRows
  <2>12. ASSUME NEW t \in tasks, ExecutorFails(t) PROVE ApprovalInv'
    <3>1. t.node \in Node /\ node[t.node] \in NodeRow
      BY DEF TypeOK, Task
    <3>2. \A s \in {"queued", "reconciling", "failed"} :
            Calm(node[t.node], Released(node[t.node], s))
      BY <3>1, ReleasedCalm
    <3>3. CASE UNCHANGED node
      BY <2>1, <2>12, <3>3, CalmRows DEF ExecutorFails
    <3>4. CASE \E s \in {"queued", "reconciling", "failed"} :
                 SetRow(t.node, Released(node[t.node], s))
      <4>1. CalmNodes
        BY <2>2, <3>1, <3>2, <3>4
      <4> QED BY <2>12, <4>1, CalmRows DEF ExecutorFails
    <3> QED BY <2>12, <3>3, <3>4 DEF ExecutorFails
  <2>13. ASSUME NEW t \in tasks, HandleNodeFailure(t) PROVE ApprovalInv'
    BY <2>1, <2>13, CalmRows DEF HandleNodeFailure
  <2>14. ASSUME NEW r \in replanning, ReplanReturns(r) PROVE ApprovalInv'
    BY <2>14, ReplanReturnsApprovals
  <2>15. ASSUME NEW r \in replanning, ReplanFails(r) PROVE ApprovalInv'
    BY <2>1, <2>15, CalmRows DEF ReplanFails
  <2>16. ASSUME NEW n \in Node, NEW d \in {"approved", "rejected"},
                DecideDeepAgentApproval(n, d)
         PROVE  ApprovalInv'
    BY <2>16, DecideApprovals
  <2>17. ASSUME NEW n \in Node, NEW d \in {"confirmed_succeeded", "retry", "failed"},
                ResolveDeepAgentReconciliation(n, d)
         PROVE  ApprovalInv'
    <3>1. node[n] \in NodeRow /\ node[n].status = "reconciling"
      BY <2>17 DEF ResolveDeepAgentReconciliation, TypeOK
    <3>2. /\ Calm(node[n], [node[n] EXCEPT !.status = "succeeded"])
          /\ Calm(node[n], [node[n] EXCEPT !.status = "failed"])
      BY <3>1, ReleasedCalm
    <3>3. Calm(node[n], [node[n] EXCEPT !.status = "queued", !.attempt = 0])
      BY <3>1 DEF Calm, LeaseFits, NodeRow
    <3>4. \E row \in {[node[n] EXCEPT !.status = "succeeded"],
                      [node[n] EXCEPT !.status = "failed"],
                      [node[n] EXCEPT !.status = "queued", !.attempt = 0]} :
            SetRow(n, row)
      BY <2>17 DEF ResolveDeepAgentReconciliation
    <3>5. CalmNodes /\ SameApprovals
      BY <2>2, <2>17, <3>2, <3>3, <3>4 DEF ResolveDeepAgentReconciliation
    <3> QED BY <3>5, CalmRows
  <2>18. ASSUME NEW n \in Node, LeaseLapses(n) \/ Heartbeat(n) PROVE ApprovalInv'
    <3>1. node[n] \in NodeRow /\ node[n].lease \in {"live", "lapsed"}
      BY <2>18 DEF LeaseLapses, Heartbeat, TypeOK
    <3>2. \A l \in {"live", "lapsed"} : Calm(node[n], [node[n] EXCEPT !.lease = l])
      BY <3>1 DEF Calm, LeaseFits, NodeRow
    <3>3. CalmNodes /\ SameApprovals
      BY <2>2, <2>18, <3>2 DEF LeaseLapses, Heartbeat
    <3> QED BY <3>3, CalmRows
  <2>19. ASSUME NEW n \in Node, ApprovalLapses(n) PROVE ApprovalInv'
    <3>1. \A m \in Node : ApprovalStep(m)
      BY <2>19 DEF ApprovalLapses, ApprovalStep, ApprovalInv, ApprovalsFitNodes,
                   AwaitsApproval
    <3> QED BY <2>1, <2>19, <3>1, CalmStep DEF ApprovalLapses
  <2>20. CASE CancelDeepAgentRun \/ OpLeaseLapses \/ OpHeartbeat
    BY <2>1, <2>20, CalmRows DEF CancelDeepAgentRun, OpLeaseLapses, OpHeartbeat
  <2>21. CASE UNCHANGED vars
    BY <2>1, <2>21, CalmRows DEF vars, dbVars
  <2> QED
    BY <2>4, <2>5, <2>6, <2>7, <2>8, <2>9, <2>10, <2>11, <2>12, <2>13, <2>14, <2>15,
       <2>16, <2>17, <2>18, <2>19, <2>20, <2>21 DEF Next, Decide, Resolve
<1> QED BY <1>1, <1>2, PTL DEF Spec

(* A write is gated from the moment its node exists, and an approval is     *)
(* pending only while its node still needs one.                             *)
COROLLARY ApprovalsFit == Spec => []ApprovalsFitNodes
<1>1. ApprovalInv => ApprovalsFitNodes
  BY DEF ApprovalInv
<1> QED BY <1>1, ApprovalsCorrect, PTL

(* Never run without an approval, whatever patches, expiries, retries and  *)
(* lease recoveries came before.                                           *)
COROLLARY Approved == Spec => []ApprovedBeforeRunning
<1>1. ApprovalInv => ApprovedBeforeRunning
  BY DEF ApprovalInv
<1> QED BY <1>1, ApprovalsCorrect, PTL

(* A node holds a lease exactly while it is running, so recovery sees every *)
(* lease that expires.                                                      *)
COROLLARY LeasesCorrect == Spec => []LeasesOnRunningNodes
<1>1. ApprovalInv => LeasesOnRunningNodes
  BY DEF ApprovalInv
<1> QED BY <1>1, ApprovalsCorrect, PTL

-----------------------------------------------------------------------------
(* A run succeeds only over a finished plan.                               *)

Concluded(row) == row.status \in (NodeTerminal \ {"failed"}) \cup {"absent"}

Concluding(r) == r.status \in {"synthesizing", "succeeded"}

\* A step that starts no synthesis and unfinishes no node keeps the invariant.
LEMMA FinishedKept ==
  ASSUME FinishedBeforeSynthesis,
         Concluding(run') => Concluding(run),
         \A n \in Node : Concluded(node[n]) => Concluded(node'[n])
  PROVE  FinishedBeforeSynthesis'
BY DEF FinishedBeforeSynthesis, Present, Concluded, Concluding

\* Recovery starts no synthesis and unfinishes no node.
LEMMA RecoveredFinished ==
  ASSUME TypeOK
  PROVE  /\ Concluding(RecoveredRun) => Concluding(run)
         /\ \A n \in Node : Concluded(node[n]) =>
              /\ Concluded(RowAfterLeases(n))
              /\ Concluded(RowAfterApprovals(n))
              /\ Concluded(RecoveredNode[n])
<1>1. Concluding(RunAfterLeases) => Concluding(run)
  BY DEF RunAfterLeases, OpCleared, Concluding, TypeOK, RunRow
<1>2. Concluding(RecoveredRun) => Concluding(run)
  BY <1>1 DEF RecoveredRun, OpCleared, Concluding, TypeOK, RunRow
<1>3. ASSUME NEW n \in Node, Concluded(node[n])
      PROVE  /\ Concluded(RowAfterLeases(n))
             /\ Concluded(RowAfterApprovals(n))
             /\ Concluded(RecoveredNode[n])
  BY <1>3 DEF RecoveredNode, RowAfterApprovals, RowAfterLeases, LeaseLost,
              CancelUnstarted, Concluded
<1> QED BY <1>2, <1>3

\* The invariant is inductive: only a settled plan enters the synthesis.
LEMMA NextFinished ==
  ASSUME TypeOK, TypeOK', FinishedBeforeSynthesis, [Next]_vars
  PROVE  FinishedBeforeSynthesis'
<1> DEFINE Kept == \A n \in Node : Concluded(node[n]) => Concluded(node'[n])
<1>1. UNCHANGED node => Kept
  OBVIOUS
<1>2. ASSUME NEW n \in Node, NEW row, SetRow(n, row),
             Concluded(node[n]) => Concluded(row)
      PROVE  Kept
  BY <1>2 DEF SetRow, TypeOK
<1>3. ASSUME ~Concluding(run') PROVE FinishedBeforeSynthesis'
  BY <1>3 DEF FinishedBeforeSynthesis, Concluding
<1>4. CASE RecoverExpiredWork
  BY <1>4, RecoveredFinished, FinishedKept DEF RecoverExpiredWork
<1>5. CASE RecoverFails
  <2>1. Concluding(run') => Concluding(run)
    BY <1>5 DEF RecoverFails, Concluding, TypeOK, RunRow
  <2>2. Kept
    BY <1>5, RecoveredFinished DEF RecoverFails
  <2> QED BY <2>1, <2>2, FinishedKept
<1>6. ASSUME NEW w \in Worker, ClaimNode(w) \/ ClaimNothing(w)
      PROVE  FinishedBeforeSynthesis'
  <2>1. run' = [RecoveredRun EXCEPT !.status = "running"]
        \/ run' = [RecoveredRun EXCEPT !.status = "waiting_approval"]
    BY <1>6 DEF ClaimNode, ClaimNothing
  <2>2. ~Concluding(run')
    BY <2>1, RecoveredTyped DEF Concluding, RunRow
  <2> QED BY <1>3, <2>2
<1>7. ASSUME NEW w \in Worker, ClaimReplanRun(w) PROVE FinishedBeforeSynthesis'
  <2>1. run' = [RecoveredRun EXCEPT !.status = "failed"]
        \/ run' = OpClaimed(RecoveredRun, "replanning", w)
    BY <1>7 DEF ClaimReplanRun
  <2>2. ~Concluding(run')
    BY <2>1, RecoveredTyped DEF Concluding, OpClaimed, RunRow
  <2> QED BY <1>3, <2>2
<1>8. ASSUME NEW w \in Worker, FinalizeList(w) PROVE FinishedBeforeSynthesis'
  BY <1>8, RecoveredFinished, FinishedKept DEF FinalizeList
<1>9. ASSUME NEW w \in Worker, FinalizeVisit(w) PROVE FinishedBeforeSynthesis'
  <2>1. CASE Settled /\ \A n \in Node : node[n].status # "failed"
    BY <1>9, <2>1 DEF FinalizeVisit, FinishedBeforeSynthesis, Settled, Present
  <2>2. CASE Settled /\ run' = [run EXCEPT !.status = "failed"]
    BY <1>3, <2>2 DEF Concluding, TypeOK, RunRow
  <2>3. CASE UNCHANGED run
    BY <1>1, <1>9, <2>3, FinishedKept DEF FinalizeVisit
  <2> QED BY <1>9, <2>1, <2>2, <2>3 DEF FinalizeVisit
<1>10. ASSUME NEW w \in Worker, FinalizeCancelled(w) PROVE FinishedBeforeSynthesis'
  <2>1. Kept
    BY <1>10 DEF FinalizeCancelled, CancelUnstarted, Concluded, TypeOK
  <2>2. Concluding(run') => Concluding(run)
    BY <1>10 DEF FinalizeCancelled, Concluding, TypeOK, RunRow
  <2> QED BY <2>1, <2>2, FinishedKept
<1>11. ASSUME NEW w \in Worker, SynthesisReturns(w) PROVE FinishedBeforeSynthesis'
  <2>1. Concluding(run') => Concluding(run)
    BY <1>11 DEF SynthesisReturns, Concluding
  <2> QED BY <1>1, <1>11, <2>1, FinishedKept DEF SynthesisReturns
<1>12. ASSUME NEW t \in tasks, ExecutorReturns(t) \/ ExecutorFails(t)
       PROVE  FinishedBeforeSynthesis'
  <2>1. t.node \in Node
    BY DEF TypeOK, Task
  <2>2. ~Holds(t) => UNCHANGED <<node, run>>
    BY <1>12 DEF ExecutorReturns, ExecutorFails
  <2>3. Holds(t) => ~Concluded(node[t.node])
    BY DEF Holds, Concluded
  <2>4. Kept
    <3>1. CASE UNCHANGED node
      BY <3>1
    <3>2. CASE Holds(t) /\ \E row : SetRow(t.node, row)
      BY <1>2, <2>1, <2>3, <3>2
    <3> QED BY <1>12, <3>1, <3>2 DEF ExecutorReturns, ExecutorFails
  <2>5. Concluding(run') => Concluding(run)
    BY <1>12 DEF ExecutorReturns, ExecutorFails, Concluding, TypeOK, RunRow
  <2> QED BY <2>4, <2>5, FinishedKept
<1>13. ASSUME NEW t \in tasks, HandleNodeFailure(t) PROVE FinishedBeforeSynthesis'
  BY <1>3, <1>13 DEF HandleNodeFailure, OpClaimed, Concluding, TypeOK, RunRow
<1>14. ASSUME NEW r \in replanning, ReplanReturns(r) \/ ReplanFails(r)
       PROVE  FinishedBeforeSynthesis'
  <2>1. CASE OwnsReplan(r)
    <3>1. \/ run' = Revised
          \/ \E s \in {"failed", "cancelled"} : run' = OpCleared(run, s)
      BY <1>14, <2>1 DEF ReplanReturns, ReplanFails, ApplyReplanPatch, PatchRetry,
                         PatchSkip, PatchReplace, PatchAbort
    <3>2. ~Concluding(run')
      BY <3>1 DEF Revised, OpCleared, Concluding, TypeOK, RunRow
    <3> QED BY <1>3, <3>2
  <2>2. CASE ~OwnsReplan(r)
    BY <1>1, <1>14, <2>2, FinishedKept DEF ReplanReturns, ReplanFails
  <2> QED BY <2>1, <2>2
<1>15. ASSUME NEW n \in Node, NEW d \in {"approved", "rejected"},
              DecideDeepAgentApproval(n, d)
       PROVE  FinishedBeforeSynthesis'
  <2>1. ~Concluding(run')
    BY <1>15 DEF DecideDeepAgentApproval, Concluding, TypeOK, RunRow
  <2> QED BY <1>3, <2>1
<1>16. ASSUME NEW n \in Node, NEW d \in {"confirmed_succeeded", "retry", "failed"},
              ResolveDeepAgentReconciliation(n, d)
       PROVE  FinishedBeforeSynthesis'
  <2>1. ~Concluding(run')
    BY <1>16 DEF ResolveDeepAgentReconciliation, Concluding, TypeOK, RunRow
  <2> QED BY <1>3, <2>1
<1>17. ASSUME NEW n \in Node, LeaseLapses(n) \/ Heartbeat(n)
       PROVE  FinishedBeforeSynthesis'
  <2>1. \A l \in {"live", "lapsed"} :
          Concluded(node[n]) => Concluded([node[n] EXCEPT !.lease = l])
    BY DEF Concluded, TypeOK, NodeRow
  <2>2. Kept /\ UNCHANGED run
    BY <1>2, <1>17, <2>1 DEF LeaseLapses, Heartbeat
  <2> QED BY <2>2, FinishedKept
<1>18. CASE CancelDeepAgentRun \/ OpLeaseLapses \/ OpHeartbeat
  <2>1. Concluding(run') => Concluding(run)
    BY <1>18 DEF CancelDeepAgentRun, OpLeaseLapses, OpHeartbeat, Concluding, TypeOK, RunRow
  <2> QED BY <1>1, <1>18, <2>1, FinishedKept
          DEF CancelDeepAgentRun, OpLeaseLapses, OpHeartbeat
<1>19. CASE UNCHANGED <<run, node>>
  BY <1>1, <1>19, FinishedKept
<1> QED
  BY <1>4, <1>5, <1>6, <1>7, <1>8, <1>9, <1>10, <1>11, <1>12, <1>13, <1>14, <1>15,
     <1>16, <1>17, <1>18, <1>19
     DEF Next, Decide, Resolve, Crash, ApprovalLapses, vars, dbVars

(* No synthesis and no success while a node is still to run, running,      *)
(* reconciling or failed, however many steps of others the await spans.    *)
THEOREM Finished == Spec => []FinishedBeforeSynthesis
<1>1. Init => FinishedBeforeSynthesis
  BY DEF Init, FinishedBeforeSynthesis
<1>2. TypeOK /\ TypeOK' /\ FinishedBeforeSynthesis /\ [Next]_vars
        => FinishedBeforeSynthesis'
  BY NextFinished
<1> QED BY <1>1, <1>2, TypeCorrect, PTL DEF Spec

-----------------------------------------------------------------------------
(* The replan budget.                                                      *)

\* The budget is inductive: a failure checks it, and a patch checks it again.
LEMMA NextReplans ==
  ASSUME TypeOK, ReplansWithinBudget, [Next]_vars
  PROVE  ReplansWithinBudget'
<1>1. /\ run \in RunRow /\ RecoveredRun \in RunRow
      /\ MaxReplans \in Nat /\ run.replans \in Nat
  BY RecoveredTyped, BudgetAssumption DEF TypeOK, RunRow
<1>2. /\ RecoveredRun.replans = run.replans
      /\ RecoveredRun.status = "replanning" => run.status = "replanning"
  BY <1>1 DEF RecoveredRun, RunAfterLeases, OpCleared, RunRow
<1>3. ASSUME run'.replans = run.replans,
             run'.status = "replanning" => run.status = "replanning"
      PROVE  ReplansWithinBudget'
  BY <1>3 DEF ReplansWithinBudget
<1>4. ASSUME NEW s, s # "replanning",
             \/ run' = [run EXCEPT !.status = s]
             \/ run' = [RecoveredRun EXCEPT !.status = s]
             \/ run' = OpCleared(run, s)
             \/ \E w : run' = OpClaimed(run, s, w)
      PROVE  ReplansWithinBudget'
  <2>1. run'.replans = run.replans /\ run'.status = s
    BY <1>1, <1>2, <1>4 DEF OpCleared, OpClaimed, RunRow
  <2> QED BY <1>3, <1>4, <2>1
<1>5. CASE run' \in {run, RecoveredRun}
  BY <1>2, <1>3, <1>5
<1>6. CASE RecoverExpiredWork \/ RecoverFails
  BY <1>4, <1>5, <1>6 DEF RecoverExpiredWork, RecoverFails
<1>7. ASSUME NEW w \in Worker, ClaimNode(w) \/ ClaimNothing(w)
      PROVE  ReplansWithinBudget'
  BY <1>4, <1>7 DEF ClaimNode, ClaimNothing
<1>8. ASSUME NEW w \in Worker, ClaimReplanRun(w) PROVE ReplansWithinBudget'
  <2>1. CASE run' = OpClaimed(RecoveredRun, "replanning", w)
    <3>1. run'.replans = run.replans
      BY <1>1, <1>2, <2>1 DEF OpClaimed, RunRow
    <3>2. run.status = "replanning"
      BY <1>2, <1>8 DEF ClaimReplanRun
    <3> QED BY <1>3, <3>1, <3>2
  <2> QED BY <1>4, <1>8, <2>1 DEF ClaimReplanRun
<1>9. ASSUME NEW w \in Worker,
             FinalizeList(w) \/ FinalizeVisit(w) \/ FinalizeCancelled(w)
      PROVE  ReplansWithinBudget'
  BY <1>4, <1>5, <1>9 DEF FinalizeList, FinalizeVisit, FinalizeCancelled
<1>10. ASSUME NEW w \in Worker, SynthesisReturns(w) PROVE ReplansWithinBudget'
  BY <1>4, <1>5, <1>10 DEF SynthesisReturns
<1>11. ASSUME NEW t \in tasks, ExecutorReturns(t) \/ ExecutorFails(t)
       PROVE  ReplansWithinBudget'
  <2>1. \/ run' \in {run, [run EXCEPT !.status = "reconciling"]}
        \/ run' = [run EXCEPT !.status = @]
    BY <1>11 DEF ExecutorReturns, ExecutorFails
  <2>2. [run EXCEPT !.status = @] = run
    BY <1>1 DEF RunRow
  <2> QED BY <1>4, <1>5, <2>1, <2>2
<1>12. ASSUME NEW t \in tasks, HandleNodeFailure(t) PROVE ReplansWithinBudget'
  <2>1. CASE MayReplan /\ run' = OpClaimed(run, "replanning", t.worker)
    <3>1. run'.replans = run.replans
      BY <1>1, <2>1 DEF OpClaimed, RunRow
    <3> QED BY <1>1, <2>1, <3>1 DEF MayReplan, ReplansWithinBudget
  <2> QED BY <1>4, <1>12, <2>1 DEF HandleNodeFailure
<1>13. ASSUME NEW r \in replanning, ReplanReturns(r) PROVE ReplansWithinBudget'
  <2>1. CASE run' = Revised /\ ~PatchRefused
    <3>1. run'.replans = run.replans + 1 /\ run'.status = "running"
      BY <1>1, <2>1 DEF Revised, OpCleared, RunRow
    <3>2. run.replans < MaxReplans
      BY <1>1, <2>1 DEF PatchRefused
    <3> QED BY <1>1, <3>1, <3>2 DEF ReplansWithinBudget
  <2>2. CASE run' = OpCleared(run, "failed") \/ run' = run
    BY <1>4, <1>5, <2>2
  <2> QED BY <1>13, <2>1, <2>2
          DEF ReplanReturns, ApplyReplanPatch, PatchRetry, PatchSkip, PatchReplace,
              PatchAbort
<1>14. ASSUME NEW r \in replanning, ReplanFails(r) PROVE ReplansWithinBudget'
  BY <1>4, <1>5, <1>14 DEF ReplanFails
<1>15. CASE Decide \/ Resolve
  BY <1>4, <1>15 DEF Decide, Resolve, DecideDeepAgentApproval,
                     ResolveDeepAgentReconciliation
<1>16. CASE CancelDeepAgentRun \/ OpLeaseLapses \/ OpHeartbeat
  <2>1. run'.replans = run.replans /\ run'.status = run.status
    BY <1>1, <1>16 DEF CancelDeepAgentRun, OpLeaseLapses, OpHeartbeat, RunRow
  <2> QED BY <1>3, <2>1
<1> QED
  BY <1>5, <1>6, <1>7, <1>8, <1>9, <1>10, <1>11, <1>12, <1>13, <1>14, <1>15, <1>16
     DEF Next, Crash, LeaseLapses, Heartbeat, ApprovalLapses, vars, dbVars

(* No interleaving of failures, takeovers and late planner answers revises *)
(* the plan more often than max_replans, or asks a planner in vain.        *)
THEOREM ReplansBounded == Spec => []ReplansWithinBudget
<1>1. Init => ReplansWithinBudget
  BY BudgetAssumption DEF Init, ReplansWithinBudget
<1>2. TypeOK /\ ReplansWithinBudget /\ [Next]_vars => ReplansWithinBudget'
  BY NextReplans
<1> QED BY <1>1, <1>2, TypeCorrect, PTL DEF Spec

-----------------------------------------------------------------------------
(* Who starts a node, and when.                                            *)

Started(n) == node[n].status # "running" /\ node'[n].status = "running"

\* Of all the handlers only claimNode makes a node running.
LEMMA OnlyClaimsStart ==
  ASSUME ApprovalInv, TypeOK', [Next]_vars, NEW n \in Node, Started(n)
  PROVE  \E w \in Worker : ClaimNode(w)
<1> SUFFICES ASSUME \A w \in Worker : ~ClaimNode(w) PROVE FALSE
  OBVIOUS
<1>1. TypeOK /\ node[n] \in NodeRow
  BY DEF ApprovalInv, TypeOK
<1>2. ~Calm(node[n], node'[n]) /\ node'[n] # node[n]
  BY DEF Calm, Started
<1>3. node' # RecoveredNode
  BY <1>1, <1>2, RecoveredCalm
<1>4. ASSUME NEW m \in Node, NEW row, SetRow(m, row) PROVE m = n /\ row.status = "running"
  BY <1>1, <1>2, <1>4 DEF SetRow, TypeOK, Started
<1>5. \A x \in NodeRow, s \in NodeStatus : Released(x, s).status = s
  BY DEF Released, NodeRow
<1>6. ~RecoverExpiredWork /\ ~RecoverFails
  BY <1>1, <1>2, <1>3, RecoveredCalm DEF RecoverExpiredWork, RecoverFails
<1>7. \A w \in Worker : ~ClaimNothing(w)
  <2>1. ASSUME NEW w \in Worker, ClaimNothing(w) PROVE FALSE
    BY <1>1, <1>2, <2>1, AskedAwaits, ClaimCalm DEF ClaimNothing
  <2> QED BY <2>1
<1>8. \A w \in Worker : ~ClaimReplanRun(w) /\ ~FinalizeList(w)
  BY <1>3 DEF ClaimReplanRun, FinalizeList
<1>9. \A w \in Worker : ~FinalizeCancelled(w)
  BY <1>1, <1>2, ReleasedCalm DEF FinalizeCancelled, TypeOK
<1>10. \A t \in tasks : ~ExecutorReturns(t) /\ ~ExecutorFails(t)
  <2> TAKE t \in tasks
  <2>1. t.node \in Node /\ node[t.node] \in NodeRow
    BY <1>1 DEF TypeOK, Task
  <2>2. \A s \in {"succeeded", "queued", "reconciling", "failed"} :
          ~SetRow(t.node, Released(node[t.node], s))
    BY <1>4, <1>5, <2>1
  <2> QED BY <1>2, <2>2 DEF ExecutorReturns, ExecutorFails
<1>11. \A r \in replanning : ~ReplanReturns(r)
  <2> SUFFICES ASSUME NEW r \in replanning, ReplanReturns(r) PROVE FALSE
    OBVIOUS
  <2>1. r.node \in Node /\ node[r.node] \in NodeRow
    BY <1>1 DEF TypeOK, Replan
  <2>2. CASE PatchRetry(r.node)
    <3>1. [Released(node[r.node], "queued") EXCEPT
             !.attempt = 0, !.maxAttempts = MaxAttempts].status = "queued"
      BY <2>1 DEF Released, NodeRow
    <3> QED BY <1>4, <2>1, <2>2, <3>1 DEF PatchRetry
  <2>3. CASE PatchSkip(r.node)
    BY <1>4, <1>5, <2>1, <2>3 DEF PatchSkip
  <2>4. CASE PatchReplace(r.node)
    <3>1. node'[n] \in {node[n], Released(node[n], "superseded")}
          \/ node'[n].status = "queued"
      BY <1>1, <2>1, <2>4 DEF PatchReplace, Replacement, TypeOK
    <3> QED BY <1>1, <1>2, <1>5, <3>1 DEF Started
  <2> QED BY <1>2, <2>2, <2>3, <2>4 DEF ReplanReturns, ApplyReplanPatch, PatchAbort
<1>12. ~Decide
  <2> SUFFICES ASSUME NEW m \in Node, NEW d \in {"approved", "rejected"},
                      DecideDeepAgentApproval(m, d)
               PROVE  FALSE
    BY DEF Decide
  <2>1. \E s \in {"queued", "cancelled"} :
          SetRow(m, [node[m] EXCEPT !.status = s]) \/ SetRow(m, node[m])
    BY DEF DecideDeepAgentApproval
  <2>2. node[m] \in NodeRow
    BY <1>1 DEF TypeOK
  <2> QED BY <1>2, <1>4, <2>1, <2>2 DEF NodeRow, Started
<1>13. ~Resolve
  <2> SUFFICES ASSUME NEW m \in Node,
                      NEW d \in {"confirmed_succeeded", "retry", "failed"},
                      ResolveDeepAgentReconciliation(m, d)
               PROVE  FALSE
    BY DEF Resolve
  <2>1. \/ SetRow(m, [node[m] EXCEPT !.status = "succeeded"])
        \/ SetRow(m, [node[m] EXCEPT !.status = "failed"])
        \/ SetRow(m, [node[m] EXCEPT !.status = "queued", !.attempt = 0])
    BY DEF ResolveDeepAgentReconciliation
  <2>2. node[m] \in NodeRow
    BY <1>1 DEF TypeOK
  <2>3. /\ [node[m] EXCEPT !.status = "queued", !.attempt = 0].status = "queued"
        /\ \A s \in {"succeeded", "failed"} : [node[m] EXCEPT !.status = s].status = s
    BY <2>2 DEF NodeRow
  <2> QED BY <1>4, <2>1, <2>3
<1>14. \A m \in Node : ~LeaseLapses(m) /\ ~Heartbeat(m)
  <2> SUFFICES ASSUME NEW m \in Node, NEW l \in {"live", "lapsed"},
                      SetRow(m, [node[m] EXCEPT !.lease = l])
               PROVE  FALSE
    BY DEF LeaseLapses, Heartbeat
  <2>1. node[m] \in NodeRow
    BY <1>1 DEF TypeOK
  <2> QED BY <1>4, <2>1 DEF NodeRow, Started
<1> QED
  BY <1>2, <1>6, <1>7, <1>8, <1>9, <1>10, <1>11, <1>12, <1>13, <1>14
     DEF Next, FinalizeVisit, SynthesisReturns, Crash, HandleNodeFailure, ReplanFails,
         CancelDeepAgentRun, ApprovalLapses, OpLeaseLapses, OpHeartbeat, vars, dbVars

(* Every start is one of claimNode's, in a run nobody asked to cancel and  *)
(* with its dependencies done.                                             *)
THEOREM StartsCorrect == Spec => StartsAreJustified
<1>1. ASSUME ApprovalInv, TypeOK', [Next]_vars, NEW n \in Node, Started(n)
      PROVE  /\ ~run.cancel
             /\ \A e \in edges : e[2] = n => node'[e[1]].status \in NodeSuccess
  <2>1. PICK w \in Worker : ClaimNode(w)
    BY <1>1, OnlyClaimsStart
  <2> DEFINE rows == Waiting(Unasked(TRUE), RecoveredNode)
  <2>2. PICK c \in Claimable :
          node' = [rows EXCEPT ![c].status = "running", ![c].attempt = @ + 1,
                               ![c].owner = w, ![c].lease = "live"]
    BY <2>1 DEF ClaimNode
  <2>3. TypeOK /\ c \in Node /\ c \in Candidates /\ Unasked(TRUE) \in SUBSET Node
    BY <1>1, AskedAwaits DEF ApprovalInv, Claimable, Candidates
  <2>4. /\ RecoveredNode[c].status \in {"queued", "waiting_approval"}
        /\ DependenciesReady(c) /\ ~RecoveredRun.cancel
    BY <2>3 DEF Candidates
  <2>5. RecoveredRun.cancel = run.cancel
    BY <2>3 DEF RecoveredRun, RunAfterLeases, OpCleared, TypeOK, RunRow
  <2>6. rows \in [Node -> NodeRow]
    BY <2>3, ClaimTyped
  <2>7. \A m \in Node \ {c} : node'[m] = rows[m]
    BY <2>2, <2>3, <2>6
  <2>8. c = n
    <3>1. Calm(node[n], rows[n])
      BY <2>3, ClaimCalm
    <3> QED BY <1>1, <2>7, <3>1 DEF Calm, Started
  <2>9. ASSUME NEW e \in edges, e[2] = n PROVE node'[e[1]].status \in NodeSuccess
    <3>1. e[1] \in Node /\ RecoveredNode[e[1]].status \in NodeSuccess
      BY <2>3, <2>4, <2>8, <2>9 DEF DependenciesReady, TypeOK
    <3>2. e[1] # c
      BY <2>4, <3>1
    <3>3. e[1] \notin Unasked(TRUE)
      BY <2>3, <3>1, AskedAwaits
    <3> QED BY <2>7, <3>1, <3>2, <3>3 DEF Waiting
  <2> QED BY <2>4, <2>5, <2>9
<1>2. ApprovalInv /\ TypeOK' /\ [Next]_vars =>
        [\A n \in Node :
           node[n].status # "running" /\ node'[n].status = "running"
           => /\ ~run.cancel
              /\ \A e \in edges : e[2] = n => node'[e[1]].status \in NodeSuccess]_vars
  BY <1>1 DEF Started
<1> QED BY <1>2, ApprovalsCorrect, TypeCorrect, PTL DEF Spec, StartsAreJustified
-----------------------------------------------------------------------------
(* Who ends a node, and how.                                               *)

Committed(n) == /\ node[n].status = "running"
                /\ node'[n].status \in {"succeeded", "failed"}

\* The outcome of a running node is written by an execution that holds it.
LEMMA CommitsHold ==
  ASSUME TypeOK, [Next]_vars, NEW n \in Node, Committed(n)
  PROVE  \E t \in tasks : t.node = n /\ Holds(t) /\ t \notin tasks'
<1> SUFFICES ASSUME \A t \in tasks : ~(t.node = n /\ Holds(t) /\ t \notin tasks')
             PROVE  FALSE
  OBVIOUS
<1>1. node[n] \in NodeRow /\ node[n].status = "running"
  BY DEF TypeOK, Committed
<1>2. node'[n].status \in {"succeeded", "failed"} /\ node'[n] # node[n]
  BY <1>1 DEF Committed
<1>3. ASSUME NEW m \in Node, NEW row, SetRow(m, row)
      PROVE  m = n /\ row.status \in {"succeeded", "failed"}
  BY <1>1, <1>2, <1>3 DEF SetRow, TypeOK
<1>4. \A x \in NodeRow, s \in NodeStatus : Released(x, s).status = s
  BY DEF Released, NodeRow
<1>5. RowAfterLeases(n).status \in {"running", "queued", "reconciling"}
  BY <1>1, <1>4 DEF RowAfterLeases
<1>6. /\ RowAfterApprovals(n) = RowAfterLeases(n)
      /\ RecoveredNode[n] = RowAfterLeases(n) \/ RecoveredNode[n].status = "cancelled"
  BY <1>5, RecoveredTyped DEF RowAfterApprovals, RecoveredNode, CancelUnstarted, NodeRow
<1>7. node' # RecoveredNode
  BY <1>2, <1>5, <1>6
<1>8. ASSUME NEW asked \in SUBSET Node
      PROVE  Waiting(asked, RecoveredNode)[n].status \notin {"succeeded", "failed"}
  BY <1>4, <1>5, <1>6, RecoveredTyped DEF Waiting
<1>9. ~RecoverExpiredWork /\ ~RecoverFails
  BY <1>2, <1>5, <1>6, <1>7 DEF RecoverExpiredWork, RecoverFails
<1>10. \A w \in Worker : ~ClaimNothing(w)
  BY <1>2, <1>8, AskedAwaits DEF ClaimNothing
<1>11. \A w \in Worker : ~ClaimNode(w)
  <2> SUFFICES ASSUME NEW w \in Worker, ClaimNode(w) PROVE FALSE
    OBVIOUS
  <2> DEFINE rows == Waiting(Unasked(TRUE), RecoveredNode)
  <2>1. PICK m \in Claimable :
          node' = [rows EXCEPT ![m].status = "running", ![m].attempt = @ + 1,
                               ![m].owner = w, ![m].lease = "live"]
    BY DEF ClaimNode
  <2>2. m \in Node /\ Unasked(TRUE) \in SUBSET Node
    BY AskedAwaits DEF Claimable, Candidates
  <2>3. rows \in [Node -> NodeRow] /\ rows[n].status \notin {"succeeded", "failed"}
    BY <1>8, <2>2, ClaimTyped
  <2> HIDE DEF rows
  <2>4. CASE m = n
    <3>1. rows[n] \in NodeRow
      BY <2>3
    <3>2. node'[n].status = "running"
      BY <2>1, <2>3, <2>4, <3>1 DEF NodeRow
    <3> QED BY <1>2, <3>2
  <2>5. CASE m # n
    BY <1>2, <2>1, <2>2, <2>3, <2>5
  <2> QED BY <2>4, <2>5
<1>12. \A w \in Worker : ~ClaimReplanRun(w) /\ ~FinalizeList(w)
  BY <1>7 DEF ClaimReplanRun, FinalizeList
<1>13. \A w \in Worker : ~FinalizeCancelled(w)
  BY <1>1, <1>2 DEF FinalizeCancelled, CancelUnstarted
<1>14. \A t \in tasks : ~ExecutorReturns(t)
  <2> SUFFICES ASSUME NEW t \in tasks, ExecutorReturns(t) PROVE FALSE
    OBVIOUS
  <2>1. t.node \in Node /\ t \notin tasks'
    BY DEF TypeOK, Task, ExecutorReturns
  <2>2. Holds(t) /\ t.node = n
    BY <1>2, <1>3, <2>1 DEF ExecutorReturns
  <2> QED BY <2>1, <2>2
<1>15. \A t \in tasks : ~ExecutorFails(t)
  <2> SUFFICES ASSUME NEW t \in tasks, ExecutorFails(t) PROVE FALSE
    OBVIOUS
  <2>1. t \in Task /\ t.node \in Node /\ t.phase = "executing"
    BY DEF TypeOK, Task, ExecutorFails
  <2>2. [t EXCEPT !.phase = "failing"] # t
    BY <2>1 DEF Task
  <2>3. Holds(t) /\ t.node = n
    BY <1>2, <1>3, <2>1 DEF ExecutorFails
  <2>4. t \notin tasks'
    BY <2>2, <2>3 DEF ExecutorFails
  <2> QED BY <2>3, <2>4
<1>16. \A r \in replanning : ~ReplanReturns(r)
  <2> SUFFICES ASSUME NEW r \in replanning, ReplanReturns(r) PROVE FALSE
    OBVIOUS
  <2>1. r.node \in Node /\ node[r.node] \in NodeRow
    BY DEF TypeOK, Replan
  <2>2. CASE PatchRetry(r.node)
    <3>1. [Released(node[r.node], "queued") EXCEPT
             !.attempt = 0, !.maxAttempts = MaxAttempts].status = "queued"
      BY <2>1 DEF Released, NodeRow
    <3> QED BY <1>3, <2>1, <2>2, <3>1 DEF PatchRetry
  <2>3. CASE PatchSkip(r.node)
    <3>1. Released(node[r.node], "skipped").status = "skipped"
      BY <1>4, <2>1
    <3> QED BY <1>3, <2>1, <2>3, <3>1 DEF PatchSkip
  <2>4. CASE PatchReplace(r.node)
    <3>1. node'[n] \in {node[n], Released(node[n], "superseded")}
          \/ node'[n].status = "queued"
      BY <2>1, <2>4 DEF PatchReplace, Replacement, TypeOK
    <3>2. Released(node[n], "superseded").status = "superseded"
      BY <1>1, <1>4
    <3> QED BY <1>2, <3>1, <3>2
  <2> QED BY <1>2, <2>2, <2>3, <2>4 DEF ReplanReturns, ApplyReplanPatch, PatchAbort
<1>17. ~Decide
  <2> SUFFICES ASSUME NEW m \in Node, NEW d \in {"approved", "rejected"},
                      DecideDeepAgentApproval(m, d)
               PROVE  FALSE
    BY DEF Decide
  <2>1. \E s \in {"queued", "cancelled"} :
          SetRow(m, [node[m] EXCEPT !.status = s]) \/ SetRow(m, node[m])
    BY DEF DecideDeepAgentApproval
  <2>2. node[m] \in NodeRow
    BY DEF TypeOK
  <2>3. \A s \in {"queued", "cancelled"} : [node[m] EXCEPT !.status = s].status = s
    BY <2>2 DEF NodeRow
  <2> QED BY <1>1, <1>3, <2>1, <2>3
<1>18. ~Resolve
  <2> SUFFICES ASSUME NEW m \in Node,
                      NEW d \in {"confirmed_succeeded", "retry", "failed"},
                      ResolveDeepAgentReconciliation(m, d)
               PROVE  FALSE
    BY DEF Resolve
  <2>1. node[m].status = "reconciling" /\ \E row : SetRow(m, row)
    BY DEF ResolveDeepAgentReconciliation
  <2> QED BY <1>1, <1>3, <2>1
<1>19. \A m \in Node : ~LeaseLapses(m) /\ ~Heartbeat(m)
  <2> SUFFICES ASSUME NEW m \in Node, NEW l \in {"live", "lapsed"},
                      SetRow(m, [node[m] EXCEPT !.lease = l])
               PROVE  FALSE
    BY DEF LeaseLapses, Heartbeat
  <2>1. [node[n] EXCEPT !.lease = l].status = "running"
    BY <1>1 DEF NodeRow
  <2> QED BY <1>3, <2>1
<1> QED
  BY <1>2, <1>9, <1>10, <1>11, <1>12, <1>13, <1>14, <1>15, <1>16, <1>17, <1>18, <1>19
     DEF Next, FinalizeVisit, SynthesisReturns, Crash, HandleNodeFailure, ReplanFails,
         CancelDeepAgentRun, ApprovalLapses, OpLeaseLapses, OpHeartbeat, vars, dbVars

(* Nobody but the holder of its lease writes the outcome of a running node. *)
THEOREM HolderCommits == Spec => OnlyHolderCommits
<1>1. TypeOK /\ [Next]_vars =>
        [\A n \in Node :
           node[n].status = "running" /\ node'[n].status \in {"succeeded", "failed"}
           => \E t \in tasks : /\ t.node = n /\ t.worker = node[n].owner
                               /\ t \notin tasks']_vars
  <2> SUFFICES ASSUME TypeOK, [Next]_vars, NEW n \in Node, Committed(n)
               PROVE  \E t \in tasks : /\ t.node = n /\ t.worker = node[n].owner
                                       /\ t \notin tasks'
    BY DEF Committed
  <2> QED BY CommitsHold DEF Holds
<1> QED BY <1>1, TypeCorrect, PTL DEF Spec, OnlyHolderCommits

-----------------------------------------------------------------------------
(* The plan stays an acyclic graph, and a waiting node waits for somebody. *)

DagInv == /\ \A e \in edges : {e[1], e[2]} \subseteq Present
          /\ Acyclic(edges)
          /\ \A n \in Node : node[n].status = "waiting_approval"
                             => "pending" \in approvals[n]

\* A row stays in the plan, and is left waiting only if it waited already.
Steady(old, new) ==
  /\ new.status = "absent" => old.status = "absent"
  /\ new.status = "waiting_approval" => old.status = "waiting_approval"

\* Node n stays in the plan, and waits only for a pending approval.
Anchored(n) == /\ node'[n].status = "absent" => node[n].status = "absent"
               /\ node'[n].status = "waiting_approval" => "pending" \in approvals'[n]

\* Every other status than these two is steady, and so is an unstarted row's end.
LEMMA SteadyRow ==
  ASSUME NEW row \in NodeRow
  PROVE  /\ \A s \in NodeStatus \ {"waiting_approval", "absent"} :
              /\ Steady(row, Released(row, s))
              /\ Steady(row, [row EXCEPT !.status = s])
         /\ Steady(row, CancelUnstarted(row))
         /\ Steady(row, row)
BY DEF Steady, Released, CancelUnstarted, NodeRow

\* Nodes that change steadily keep the approvals they wait for.
LEMMA SteadyStep ==
  ASSUME DagInv, UNCHANGED approvals, NEW n \in Node, Steady(node[n], node'[n])
  PROVE  Anchored(n)
BY DEF DagInv, Steady, Anchored

\* The same when a handler writes one row.
LEMMA SteadySetRow ==
  ASSUME TypeOK, DagInv, UNCHANGED approvals, NEW n \in Node,
         NEW m \in Node, NEW row, SetRow(m, row), Steady(node[m], row)
  PROVE  Anchored(n)
<1>1. Steady(node[n], node'[n])
  BY SteadyRow DEF SetRow, TypeOK
<1> QED BY <1>1, SteadyStep

\* A node that still waits after a recovery had an approval that is not overdue.
LEMMA RecoveredSteady ==
  ASSUME TypeOK, NEW n \in Node
  PROVE  /\ Steady(node[n], RowAfterLeases(n))
         /\ Steady(node[n], RowAfterApprovals(n))
         /\ RowAfterApprovals(n).status = "waiting_approval" => n \notin overdue
         /\ Steady(node[n], RecoveredNode[n])
         /\ RecoveredNode[n].status = "waiting_approval" => n \notin overdue
<1>1. /\ node[n] \in NodeRow
      /\ RowAfterLeases(n) \in NodeRow /\ RowAfterApprovals(n) \in NodeRow
  BY RecoveredTyped DEF TypeOK
<1>2. Steady(node[n], RowAfterLeases(n))
  BY <1>1, SteadyRow DEF RowAfterLeases
<1>3. Steady(RowAfterLeases(n), RowAfterApprovals(n))
  BY <1>1, SteadyRow DEF RowAfterApprovals
<1>4. RowAfterApprovals(n).status = "waiting_approval" => n \notin overdue
  BY <1>1 DEF RowAfterApprovals, NodeRow
<1>5. Steady(RowAfterApprovals(n), RecoveredNode[n])
  BY <1>1, SteadyRow DEF RecoveredNode
<1> QED BY <1>2, <1>3, <1>4, <1>5 DEF Steady

\* A recovery, whatever approvals are asked for after it.
LEMMA RecoveredAnchored ==
  ASSUME TypeOK, DagInv, NEW asked \in SUBSET Node, NEW n \in Node,
         \/ node' = RecoveredNode /\ approvals' = RecoveredApprovals
         \/ /\ RequestApproval(asked)
            /\ \/ node'[n] = Waiting(asked, RecoveredNode)[n]
               \/ node'[n].status = "running"
  PROVE  Anchored(n)
<1>1. /\ Steady(node[n], RecoveredNode[n])
      /\ RecoveredNode[n].status = "waiting_approval" => n \notin overdue
  BY RecoveredSteady
<1>2. RecoveredNode[n].status = "waiting_approval" => "pending" \in RecoveredApprovals[n]
  BY <1>1 DEF Steady, DagInv, RecoveredApprovals
<1>3. CASE node' = RecoveredNode /\ approvals' = RecoveredApprovals
  BY <1>1, <1>2, <1>3 DEF Anchored, Steady
<1>4. CASE RequestApproval(asked) /\ node'[n].status = "running"
  BY <1>4 DEF Anchored
<1>5. CASE RequestApproval(asked) /\ node'[n] = Waiting(asked, RecoveredNode)[n]
  <2>1. /\ "pending" \in RecoveredApprovals[n] => "pending" \in approvals'[n]
        /\ n \in asked => "pending" \in approvals'[n]
    BY <1>5 DEF RequestApproval
  <2>2. CASE n \in asked
    <3>1. node'[n].status = "waiting_approval"
      BY <1>5, <2>2, AskedWaits
    <3> QED BY <2>1, <2>2, <3>1 DEF Anchored
  <2>3. CASE n \notin asked
    BY <1>1, <1>2, <1>5, <2>1, <2>3 DEF Anchored, Steady, Waiting
  <2> QED BY <2>2, <2>3
<1> QED BY <1>3, <1>4, <1>5

\* Where the edges stay, rows that stay in the plan keep it acyclic.
LEMMA AnchoredStep ==
  ASSUME DagInv, UNCHANGED edges, edges \subseteq Node \X Node,
         \A n \in Node : Anchored(n)
  PROVE  DagInv'
<1>1. \A e \in edges : {e[1], e[2]} \subseteq Present'
  BY DEF DagInv, Anchored, Present
<1>2. Acyclic(edges)'
  BY DEF DagInv, Acyclic
<1> QED BY <1>1, <1>2 DEF DagInv, Anchored

\* The edges once n's successors depend on its replacement.
Redirected(E, n, new) ==
  {e \in E : e[1] # n}
    \cup {<<e[1], new>> : e \in {x \in E : x[2] = n}}
    \cup {<<new, e[2]>> : e \in {x \in E : x[1] = n}}

\* Edges into a node, after the redirection, come from edges before it.
LEMMA RedirectedFrom ==
  ASSUME NEW E \in SUBSET (Node \X Node), NEW n \in Node, NEW new \in Node,
         NEW e \in Redirected(E, n, new)
  PROVE  \/ e \in E /\ e[1] # n
         \/ e[2] = new /\ <<e[1], n>> \in E
         \/ e[1] = new /\ <<n, e[2]>> \in E
<1>1. CASE \E d \in E : d[2] = n /\ e = <<d[1], new>>
  <2>1. PICK d \in E : d[2] = n /\ e = <<d[1], new>>
    BY <1>1
  <2>2. d = <<e[1], n>> /\ e[2] = new
    BY <2>1
  <2> QED BY <2>1, <2>2
<1>2. CASE \E d \in E : d[1] = n /\ e = <<new, d[2]>>
  <2>1. PICK d \in E : d[1] = n /\ e = <<new, d[2]>>
    BY <1>2
  <2>2. d = <<n, e[2]>> /\ e[1] = new
    BY <2>1
  <2> QED BY <2>1, <2>2
<1> QED BY <1>1, <1>2 DEF Redirected

\* A replacement that no edge touched takes over a node without closing a cycle.
LEMMA RedirectedAcyclic ==
  ASSUME NEW E \in SUBSET (Node \X Node), Acyclic(E), NEW n \in Node,
         NEW new \in Node, new # n, \A e \in E : e[1] # new /\ e[2] # new
  PROVE  Acyclic(Redirected(E, n, new))
<1> SUFFICES ASSUME NEW S \in (SUBSET Node) \ {{}}
             PROVE  \E m \in S : \A e \in Redirected(E, n, new) :
                                   e[2] = m => e[1] \notin S
  BY DEF Acyclic
<1>1. CASE new \notin S
  <2>1. PICK m \in S : \A e \in E : e[2] = m => e[1] \notin S
    BY DEF Acyclic
  <2>2. ASSUME NEW e \in Redirected(E, n, new), e[2] = m PROVE e[1] \notin S
    <3>1. e \in E \/ e[2] = new \/ e[1] = new
      BY RedirectedFrom
    <3> QED BY <1>1, <2>1, <2>2, <3>1
  <2> QED BY <2>2
<1>2. CASE new \in S
  <2> DEFINE Old == (S \ {new}) \cup {n}
  <2>1. Old \in (SUBSET Node) \ {{}}
    OBVIOUS
  <2>2. PICK m \in Old : \A e \in E : e[2] = m => e[1] \notin Old
    BY <2>1 DEF Acyclic
  <2>3. CASE m = n
    <3>1. ASSUME NEW e \in Redirected(E, n, new), e[2] = new PROVE e[1] \notin S
      <4>1. <<e[1], n>> \in E
        <5>1. /\ \A d \in E : d[2] # new
              /\ <<n, new>> \notin E
          OBVIOUS
        <5> QED BY <3>1, <5>1, RedirectedFrom
      <4>2. e[1] \notin Old /\ e[1] # new
        BY <2>2, <2>3, <4>1
      <4> QED BY <4>2
    <3> QED BY <1>2, <3>1
  <2>4. CASE m # n
    <3>1. m \in S /\ m # new
      BY <2>4
    <3>2. ASSUME NEW e \in Redirected(E, n, new), e[2] = m PROVE e[1] \notin S
      <4>1. <<n, m>> \notin E
        BY <2>2
      <4>2. e \in E
        BY <3>1, <3>2, <4>1, RedirectedFrom
      <4>3. e[1] \notin Old /\ e[1] # new
        BY <2>2, <3>2, <4>2
      <4> QED BY <4>3
    <3> QED BY <3>1, <3>2
  <2> QED BY <2>3, <2>4
<1> QED BY <1>1, <1>2

\* A replan leaves every node in the plan, and the plan acyclic.
LEMMA ReplanReturnsDag ==
  ASSUME TypeOK, TypeOK', DagInv, NEW r \in replanning, ReplanReturns(r)
  PROVE  DagInv'
<1> DEFINE n == r.node
<1>1. n \in Node /\ node[n] \in NodeRow /\ edges \subseteq Node \X Node
  BY DEF TypeOK, Replan
<1>2. UNCHANGED approvals
  BY DEF ReplanReturns
<1>3. CASE PatchRetry(n)
  <2>1. Steady(node[n], [Released(node[n], "queued") EXCEPT
                           !.attempt = 0, !.maxAttempts = MaxAttempts])
    BY <1>1 DEF Steady, Released, NodeRow
  <2>2. \A m \in Node : Anchored(m)
    BY <1>1, <1>2, <1>3, <2>1, SteadySetRow DEF PatchRetry
  <2> QED BY <1>1, <1>3, <2>2, AnchoredStep DEF PatchRetry
<1>4. CASE PatchSkip(n)
  <2>1. Steady(node[n], Released(node[n], "skipped"))
    BY <1>1, SteadyRow
  <2>2. \A m \in Node : Anchored(m)
    BY <1>1, <1>2, <1>4, <2>1, SteadySetRow DEF PatchSkip
  <2> QED BY <1>1, <1>4, <2>2, AnchoredStep DEF PatchSkip
<1>5. CASE PatchReplace(n)
  <2>1. PICK new \in Node \ Present, mode \in PatchModes :
          /\ node' = [node EXCEPT ![n] = Released(@, "superseded"),
                                  ![new] = Replacement(n, mode)]
          /\ edges' = Redirected(edges, n, new)
    BY <1>5 DEF PatchReplace, Redirected
  <2>2. \A m \in Node : Anchored(m)
    <3>1. Steady(node[n], Released(node[n], "superseded"))
      BY <1>1, SteadyRow
    <3>2. node'[new].status = "queued"
      BY <2>1 DEF TypeOK, Replacement
    <3>3. \A m \in Node \ {new} : Steady(node[m], node'[m])
      BY <1>1, <2>1, <3>1, SteadyRow DEF TypeOK
    <3>4. Anchored(new)
      BY <3>2 DEF Anchored
    <3>5. \A m \in Node \ {new} : Anchored(m)
      BY <1>2, <3>3, SteadyStep
    <3> QED BY <3>4, <3>5
  <2>3. \A e \in edges : e[1] # new /\ e[2] # new
    BY <2>1 DEF DagInv
  <2>4. n \in Present' /\ new \in Present' /\ Present \subseteq Present'
    <3>1. node'[new].status = "queued"
      BY <2>1 DEF TypeOK, Replacement
    <3>2. Present \subseteq Present'
      BY <2>2 DEF Anchored, Present
    <3>3. n # new => node'[n].status = "superseded"
      <4>1. Released(node[n], "superseded").status = "superseded"
        BY <1>1 DEF Released, NodeRow
      <4> QED BY <1>1, <2>1, <4>1 DEF TypeOK
    <3> QED BY <1>1, <2>1, <3>1, <3>2, <3>3 DEF Present
  <2>5. \A e \in edges' : {e[1], e[2]} \subseteq Present'
    <3> SUFFICES ASSUME NEW e \in Redirected(edges, n, new)
                 PROVE  {e[1], e[2]} \subseteq Present'
      BY <2>1
    <3>1. \/ e \in edges
          \/ e[2] = new /\ <<e[1], n>> \in edges
          \/ e[1] = new /\ <<n, e[2]>> \in edges
      BY <1>1, <2>1, RedirectedFrom
    <3>2. \A x, y : <<x, y>> \in edges => x \in Present' /\ y \in Present'
      BY <2>4 DEF DagInv
    <3>3. e \in edges => {e[1], e[2]} \subseteq Present'
      BY <2>4 DEF DagInv
    <3> QED BY <2>4, <3>1, <3>2, <3>3
  <2>6. Acyclic(edges)'
    <3>1. n # new => Acyclic(Redirected(edges, n, new))
      BY <1>1, <2>1, <2>3, RedirectedAcyclic DEF DagInv
    <3>2. n = new => Redirected(edges, n, new) = edges
      BY <2>3 DEF Redirected
    <3>3. Acyclic(edges')
      BY <2>1, <3>1, <3>2 DEF DagInv
    <3> QED BY <3>3 DEF Acyclic
  <2> QED BY <2>2, <2>5, <2>6 DEF DagInv, Anchored
<1>6. CASE UNCHANGED <<node, edges>>
  <2>1. \A m \in Node : Anchored(m)
    BY <1>2, <1>6 DEF Anchored, DagInv
  <2> QED BY <1>1, <1>6, <2>1, AnchoredStep
<1> QED BY <1>3, <1>4, <1>5, <1>6 DEF ReplanReturns, ApplyReplanPatch, PatchAbort

\* Every step keeps the plan acyclic and its waiting nodes asking.
LEMMA NextDag ==
  ASSUME TypeOK, TypeOK', DagInv, [Next]_vars
  PROVE  DagInv'
<1> DEFINE Held == edges' = edges /\ \A n \in Node : Anchored(n)
<1>1. edges \subseteq Node \X Node /\ \A n \in Node : node[n] \in NodeRow
  BY DEF TypeOK
<1>2. Held => DagInv'
  BY <1>1, AnchoredStep
<1>3. UNCHANGED <<node, approvals>> => \A n \in Node : Anchored(n)
  BY DEF Anchored, DagInv
<1>4. node' = RecoveredNode /\ approvals' = RecoveredApprovals
      => \A n \in Node : Anchored(n)
  <2>1. {} \in SUBSET Node
    OBVIOUS
  <2> QED BY <2>1, RecoveredAnchored
<1>5. ASSUME NEW m \in Node, NEW row, SetRow(m, row), Steady(node[m], row),
             UNCHANGED approvals
      PROVE  \A n \in Node : Anchored(n)
  BY <1>5, SteadySetRow
<1>6. CASE RecoverExpiredWork
  BY <1>2, <1>4, <1>6 DEF RecoverExpiredWork
<1>7. CASE RecoverFails
  <2>1. PICK done \in SUBSET {n \in overdue : "expired" \notin approvals[n]} :
          /\ node' = [n \in Node |-> IF n \in done THEN RowAfterApprovals(n)
                                                   ELSE RowAfterLeases(n)]
          /\ approvals' = [n \in Node |->
                             IF n \in done
                             THEN (approvals[n] \ {"pending"}) \cup {"expired"}
                             ELSE approvals[n]]
    BY <1>7 DEF RecoverFails
  <2>2. ASSUME NEW n \in Node PROVE Anchored(n)
    <3>1. /\ Steady(node[n], RowAfterLeases(n))
          /\ Steady(node[n], RowAfterApprovals(n))
          /\ RowAfterApprovals(n).status = "waiting_approval" => n \notin overdue
      BY RecoveredSteady
    <3>2. CASE n \in done
      BY <2>1, <3>1, <3>2 DEF Anchored, Steady
    <3>3. CASE n \notin done
      BY <2>1, <3>1, <3>3 DEF Anchored, Steady, DagInv
    <3> QED BY <3>2, <3>3
  <2> QED BY <1>2, <1>7, <2>2 DEF RecoverFails
<1>8. ASSUME NEW w \in Worker, ClaimNode(w) PROVE DagInv'
  <2> DEFINE asked == Unasked(TRUE)
             rows == Waiting(asked, RecoveredNode)
  <2>1. PICK n \in Claimable :
          /\ RequestApproval(asked)
          /\ node' = [rows EXCEPT
                        ![n].status = "running", ![n].attempt = @ + 1,
                        ![n].owner = w, ![n].lease = "live"]
    BY <1>8 DEF ClaimNode
  <2>2. n \in Node /\ asked \in SUBSET Node
    BY AskedAwaits DEF Claimable, Candidates
  <2> HIDE DEF asked
  <2>3. rows \in [Node -> NodeRow]
    BY <2>2, ClaimTyped
  <2>4. \A m \in Node : node'[m] = rows[m] \/ node'[m].status = "running"
    <3> HIDE DEF rows
    <3>1. rows[n] \in NodeRow
      BY <2>2, <2>3
    <3> QED BY <2>1, <2>2, <2>3, <3>1 DEF NodeRow
  <2>5. \A m \in Node : Anchored(m)
    BY <2>1, <2>2, <2>4, RecoveredAnchored
  <2> QED BY <1>2, <1>8, <2>5 DEF ClaimNode
<1>9. ASSUME NEW w \in Worker, ClaimNothing(w) PROVE DagInv'
  <2> DEFINE asked == Unasked(FALSE)
  <2>1. /\ RequestApproval(asked) /\ asked \in SUBSET Node
        /\ node' = Waiting(asked, RecoveredNode)
    BY <1>9, AskedAwaits DEF ClaimNothing
  <2> HIDE DEF asked
  <2>2. \A m \in Node : Anchored(m)
    BY <2>1, RecoveredAnchored
  <2> QED BY <1>2, <1>9, <2>2 DEF ClaimNothing, dbVars
<1>10. ASSUME NEW w \in Worker, ClaimReplanRun(w) \/ FinalizeList(w) PROVE DagInv'
  BY <1>2, <1>4, <1>10 DEF ClaimReplanRun, FinalizeList
<1>11. ASSUME NEW w \in Worker,
              FinalizeVisit(w) \/ SynthesisReturns(w) \/ Crash(w)
       PROVE  DagInv'
  BY <1>2, <1>3, <1>11 DEF FinalizeVisit, SynthesisReturns, Crash, dbVars
<1>12. ASSUME NEW w \in Worker, FinalizeCancelled(w) PROVE DagInv'
  <2>1. \A n \in Node : Steady(node[n], node'[n])
    BY <1>1, <1>12, SteadyRow DEF FinalizeCancelled
  <2>2. \A n \in Node : Anchored(n)
    BY <1>12, <2>1, SteadyStep DEF FinalizeCancelled
  <2> QED BY <1>2, <1>12, <2>2 DEF FinalizeCancelled
<1>13. ASSUME NEW t \in tasks, ExecutorReturns(t) \/ ExecutorFails(t) PROVE DagInv'
  <2>1. t.node \in Node /\ node[t.node] \in NodeRow
    BY DEF TypeOK, Task
  <2>2. \A s \in {"succeeded", "queued", "reconciling", "failed"} :
          Steady(node[t.node], Released(node[t.node], s))
    BY <2>1, SteadyRow
  <2>3. \/ UNCHANGED node
        \/ \E s \in {"succeeded", "queued", "reconciling", "failed"} :
             SetRow(t.node, Released(node[t.node], s))
    BY <1>13 DEF ExecutorReturns, ExecutorFails
  <2>4. UNCHANGED <<edges, approvals>>
    BY <1>13 DEF ExecutorReturns, ExecutorFails
  <2>5. \A n \in Node : Anchored(n)
    BY <1>3, <1>5, <2>1, <2>2, <2>3, <2>4
  <2> QED BY <1>2, <2>4, <2>5
<1>14. ASSUME NEW t \in tasks, HandleNodeFailure(t) PROVE DagInv'
  BY <1>2, <1>3, <1>14 DEF HandleNodeFailure
<1>15. ASSUME NEW r \in replanning, ReplanReturns(r) \/ ReplanFails(r) PROVE DagInv'
  BY <1>2, <1>3, <1>15, ReplanReturnsDag DEF ReplanFails
<1>16. CASE Decide
  <2>1. PICK m \in Node, d \in {"approved", "rejected"} : DecideDeepAgentApproval(m, d)
    BY <1>16 DEF Decide
  <2>2. ASSUME NEW n \in Node PROVE Anchored(n)
    <3>1. CASE n = m
      <4>1. /\ node'[m].status # "waiting_approval"
            /\ node'[m].status = "absent" => node[m].status = "absent"
        BY <1>1, <2>1 DEF DecideDeepAgentApproval, SetRow, NodeRow, TypeOK
      <4> QED BY <3>1, <4>1 DEF Anchored
    <3>2. CASE n # m
      <4>1. node'[n] = node[n] /\ approvals'[n] = approvals[n]
        BY <2>1, <3>2 DEF DecideDeepAgentApproval, SetRow, TypeOK
      <4> QED BY <4>1 DEF Anchored, DagInv
    <3> QED BY <3>1, <3>2
  <2> QED BY <1>2, <2>1, <2>2 DEF DecideDeepAgentApproval
<1>17. CASE Resolve
  <2>1. PICK m \in Node, d \in {"confirmed_succeeded", "retry", "failed"} :
          ResolveDeepAgentReconciliation(m, d)
    BY <1>17 DEF Resolve
  <2>2. \E row \in {[node[m] EXCEPT !.status = "succeeded"],
                    [node[m] EXCEPT !.status = "failed"],
                    [node[m] EXCEPT !.status = "queued", !.attempt = 0]} :
          SetRow(m, row)
    BY <2>1 DEF ResolveDeepAgentReconciliation
  <2>3. /\ Steady(node[m], [node[m] EXCEPT !.status = "succeeded"])
        /\ Steady(node[m], [node[m] EXCEPT !.status = "failed"])
        /\ Steady(node[m], [node[m] EXCEPT !.status = "queued", !.attempt = 0])
    BY <1>1 DEF Steady, NodeRow
  <2>4. UNCHANGED <<edges, approvals>>
    BY <2>1 DEF ResolveDeepAgentReconciliation
  <2>5. \A n \in Node : Anchored(n)
    BY <1>5, <2>2, <2>3, <2>4
  <2> QED BY <1>2, <2>4, <2>5
<1>18. ASSUME NEW m \in Node, LeaseLapses(m) \/ Heartbeat(m) PROVE DagInv'
  <2>1. \A l \in {"live", "lapsed"} : Steady(node[m], [node[m] EXCEPT !.lease = l])
    BY <1>1 DEF Steady, NodeRow
  <2>2. \E l \in {"live", "lapsed"} : SetRow(m, [node[m] EXCEPT !.lease = l])
    BY <1>18 DEF LeaseLapses, Heartbeat
  <2>3. UNCHANGED <<edges, approvals>>
    BY <1>18 DEF LeaseLapses, Heartbeat
  <2>4. \A n \in Node : Anchored(n)
    BY <1>5, <2>1, <2>2, <2>3
  <2> QED BY <1>2, <2>3, <2>4
<1>19. ASSUME NEW m \in Node, ApprovalLapses(m) PROVE DagInv'
  BY <1>2, <1>3, <1>19 DEF ApprovalLapses
<1>20. CASE CancelDeepAgentRun \/ OpLeaseLapses \/ OpHeartbeat \/ UNCHANGED vars
  BY <1>2, <1>3, <1>20 DEF CancelDeepAgentRun, OpLeaseLapses, OpHeartbeat, vars, dbVars
<1> QED
  BY <1>6, <1>7, <1>8, <1>9, <1>10, <1>11, <1>12, <1>13, <1>14, <1>15, <1>16, <1>17,
     <1>18, <1>19, <1>20 DEF Next

(* The plan stays an acyclic graph of its nodes through every replanning,  *)
(* and a node waits for an approval only while one is pending.             *)
THEOREM PlanStaysADag == Spec => []DagInv
<1>1. Init => DagInv
  <2> SUFFICES ASSUME Init PROVE DagInv
    OBVIOUS
  <2>1. PICK p \in Plans : node = p.rows /\ edges = p.edges
    BY DEF Init
  <2>2. p.edges \subseteq Node \X Node /\ Acyclic(p.edges)
    BY PlanAssumption DEF Plan
  <2>3. \A e \in p.edges : {e[1], e[2]} \subseteq Present
    BY <2>1, <2>2, PlanAssumption DEF Present
  <2>4. \A n \in Node : node[n].status # "waiting_approval"
    BY <2>1, PlanAssumption
  <2> QED BY <2>1, <2>2, <2>3, <2>4 DEF DagInv
<1>2. TypeOK /\ TypeOK' /\ DagInv /\ [Next]_vars => DagInv'
  BY NextDag
<1> QED BY <1>1, <1>2, TypeCorrect, PTL DEF Spec

(* Patches, expiries and recoveries never leave an unfinished run with     *)
(* nodes that wait for nothing.                                            *)
COROLLARY NeverADeadEnd == Spec => []NoDeadEnd
<1>1. TypeOK /\ DagInv => NoDeadEnd
  <2> SUFFICES ASSUME TypeOK, DagInv, ~Settled,
                      \A n \in Present : node[n].status \in NodeSuccess
                                            \cup {"queued", "waiting_approval"},
                      \A n \in Node : "pending" \notin approvals[n]
               PROVE  \E n \in Present :
                        /\ node[n].status = "queued"
                        /\ \A e \in edges : e[2] = n =>
                             node[e[1]].status \in NodeSuccess
    BY DEF NoDeadEnd
  <2> DEFINE Queued == {n \in Node : node[n].status = "queued"}
  <2>1. \A n \in Present : node[n].status \in NodeSuccess \/ n \in Queued
    BY DEF DagInv, Present
  <2>2. Queued \in (SUBSET Node) \ {{}}
    BY <2>1 DEF Settled, Present
  <2>3. PICK n \in Queued : \A e \in edges : e[2] = n => e[1] \notin Queued
    BY <2>2 DEF DagInv, Acyclic
  <2>4. \A e \in edges : e[2] = n => node[e[1]].status \in NodeSuccess
    BY <2>1, <2>3 DEF DagInv
  <2> QED BY <2>3, <2>4 DEF Present
<1> QED BY <1>1, TypeCorrect, PlanStaysADag, PTL
=============================================================================
