------------------------------ MODULE DeepAgent ------------------------------
(***************************************************************************)
(* The persistent Deep Agent runtime of lib/deep-agent-runtime.js: one     *)
(* durable run, the DAG of its nodes, and the worker processes that lease  *)
(* nodes from the shared SQLite file, execute them, replan after failures  *)
(* and synthesize the result, while a user approves, cancels and           *)
(* reconciles.                                                             *)
(*                                                                         *)
(* A handler is one step up to its next await.  Two handlers are cut       *)
(* between statements as well, because another process may act between     *)
(* them: a failing node (its row first, its run afterwards) and the        *)
(* finalizer (it lists the runs, then visits them one by one, awaiting the *)
(* synthesis of the earlier ones).  Runs share no row, so the module       *)
(* follows one run; the other runs appear as the delays between steps.     *)
(*                                                                         *)
(* Next to some operators stands a variant with a plausible mistake, named *)
(* for the mistake and used by no action: the checks substitute it to show *)
(* that a property would notice.                                           *)
(*                                                                         *)
(* Time is abstract: a lease or an approval is "live" until a clock step   *)
(* makes it lapse.  The back-off of a retry is a delay of the next claim.  *)
(***************************************************************************)
EXTENDS Integers, FiniteSets

CONSTANTS
  Node,           \* the node rows the run may ever own (maxNodesPerRun)
  Worker,         \* worker processes; a restarted process is another element
  NoWorker,       \* an empty lease_owner or operation_owner
  Plans,          \* the validated plans a run may be created with
  PatchModes,     \* <<effect_mode, needs approval>> of replacement nodes
  MaxAttempts,    \* config.deepAgentRuntime.maxAttemptsPerNode
  MaxReplans,     \* config.deepAgentRuntime.maxReplans
  MaxConcurrency, \* config.deepAgentRuntime.maxConcurrency, per worker
  AutoReplan,     \* config.deepAgentRuntime.autoReplan
  MaxStalls       \* bound: leases that lapse under a live but stalled worker

Effects == {"read_only", "idempotent_write", "non_idempotent_write"}
Leases  == {"none", "live", "lapsed"}
ApprovalStatus == {"pending", "approved", "rejected", "expired"}

NodeSuccess  == {"succeeded", "skipped", "superseded"}
NodeTerminal == NodeSuccess \cup {"failed", "cancelled"}
NodeStatus   == NodeTerminal \cup
                {"absent", "queued", "waiting_approval", "running", "reconciling"}

RunTerminal == {"succeeded", "failed", "cancelled"}
RunActive   == {"queued", "running", "waiting_approval"}
RunStatus   == RunTerminal \cup RunActive \cup
               {"replanning", "synthesizing", "reconciling"}

NodeRow == [status: NodeStatus, effect: Effects, gated: BOOLEAN,
            sequence: Nat, attempt: Nat, maxAttempts: Nat,
            owner: Worker \cup {NoWorker}, lease: Leases]

RunRow == [status: RunStatus, cancel: BOOLEAN, replans: Nat,
           opOwner: Worker \cup {NoWorker}, opLease: Leases]

\* A plan as it is stored: a row per node and the dependency edges.
Plan == [rows: [Node -> NodeRow], edges: SUBSET (Node \X Node)]

(* validatePlan walks the dependencies and refuses a plan with a cycle:    *)
(* every set of nodes has one that depends on no other of the set.         *)
Acyclic(E) ==
  \A S \in (SUBSET Node) \ {{}} :
    \E n \in S : \A e \in E : e[2] = n => e[1] \notin S

(* What validatePlan and normalizePlanNode establish of a stored plan: its *)
(* nodes are queued and unleased, every non-idempotent write is gated, its *)
(* edges join nodes of the plan and have no cycle.                         *)
ASSUME PlanAssumption ==
  /\ NoWorker \notin Worker
  /\ Plans \subseteq Plan
  /\ \A p \in Plans : \A n \in Node :
       LET row == p.rows[n]
       IN /\ row.status \in {"absent", "queued"}
          /\ row.effect = "non_idempotent_write" => row.gated
          /\ row.attempt = 0 /\ row.owner = NoWorker /\ row.lease = "none"
  /\ \A p \in Plans : \A e \in p.edges : \A i \in {1, 2} :
       p.rows[e[i]].status = "queued"
  /\ \A p \in Plans : Acyclic(p.edges)
  /\ PatchModes \subseteq {m \in Effects \X BOOLEAN :
                             m[1] = "non_idempotent_write" => m[2]}

ASSUME BudgetAssumption ==
  /\ MaxAttempts \in Nat \ {0}
  /\ MaxReplans \in Nat
  /\ MaxConcurrency \in Nat \ {0}
  /\ MaxStalls \in Nat
  /\ AutoReplan \in BOOLEAN

VARIABLES
  run,        \* the row of deep_agent_runs
  node,       \* the rows of deep_agent_nodes
  edges,      \* the rows of deep_agent_edges, <<from, to>>
  approvals,  \* statuses of a node's approvals; UNIQUE(node_id, status)
  overdue,    \* nodes whose pending approval is past its expires_at
  tasks,      \* executions in flight in the worker processes
  replanning, \* replan operations in flight in the worker processes
  finalizer,  \* what a process's finalizer holds of the listed run row
  synths,     \* processes awaiting the synthesis of the run
  alive,      \* worker processes that have not crashed
  stalls      \* leases lapsed so far under a live worker

dbVars   == <<run, node, edges, approvals, overdue>>
procVars == <<tasks, replanning, finalizer, synths, alive, stalls>>
vars     == <<dbVars, procVars>>

(* An execution remembers its worker and its node; "current" tells whether *)
(* the node's latest claim is still its own, a fact the code does not keep *)
(* (a lease names the process, not the attempt).                           *)
Task == [worker: Worker, node: Node, phase: {"executing", "failing"},
         current: BOOLEAN]
Replan == [worker: Worker, node: Node, current: BOOLEAN]

TypeOK ==
  /\ run \in RunRow
  /\ node \in [Node -> NodeRow]
  /\ edges \subseteq Node \X Node
  /\ approvals \in [Node -> SUBSET ApprovalStatus]
  /\ overdue \subseteq Node
  /\ tasks \subseteq Task
  /\ replanning \subseteq Replan
  /\ finalizer \in [Worker -> {"idle", "listed", "listed_cancelled"}]
  /\ synths \subseteq Worker
  /\ alive \subseteq Worker
  /\ stalls \in 0 .. MaxStalls

-----------------------------------------------------------------------------
(* Rows.                                                                   *)

\* The row with its lease cleared and a new status.
Released(row, status) ==
  [row EXCEPT !.status = status, !.owner = NoWorker, !.lease = "none"]

OpCleared(r, status) ==
  [r EXCEPT !.status = status, !.opOwner = NoWorker, !.opLease = "none"]

OpClaimed(r, status, w) ==
  [r EXCEPT !.status = status, !.opOwner = w, !.opLease = "live"]

\* The row of node n becomes r.
SetRow(n, r) == node' = [node EXCEPT ![n] = r]

Present == {n \in Node : node[n].status # "absent"}

-----------------------------------------------------------------------------
(* recoverExpiredWork, as the tables it leaves behind.                     *)

Unsafe(n) == node[n].effect = "non_idempotent_write"

LeaseLostUnlessUnsafe(n) ==
  node[n].status = "running" /\ node[n].lease = "lapsed" /\ ~Unsafe(n)

LeaseLost(n) == node[n].status = "running" /\ node[n].lease = "lapsed"

CancelUnstarted(row) ==
  IF row.status \in {"queued", "waiting_approval"}
  THEN [row EXCEPT !.status = "cancelled"]
  ELSE row

\* An approval that expires a second time meets UNIQUE(node_id, status).
Wedged == \E n \in overdue : "expired" \in approvals[n]

RunAfterLeasesKeepingSynthesis ==
  LET s == IF \E n \in Node : LeaseLost(n) /\ Unsafe(n)
           THEN "reconciling" ELSE run.status
  IN  IF s = "replanning" /\ run.opLease # "live"
      THEN OpCleared(run, "replanning") ELSE [run EXCEPT !.status = s]

RunAfterLeases ==
  LET s == IF \E n \in Node : LeaseLost(n) /\ Unsafe(n)
           THEN "reconciling" ELSE run.status
      stale == run.opLease # "live"
  IN  CASE s = "synthesizing" /\ stale -> OpCleared(run, "running")
        [] s = "replanning" /\ stale   -> OpCleared(run, "replanning")
        [] OTHER                       -> [run EXCEPT !.status = s]

RowAfterLeases(n) ==
  IF LeaseLost(n)
  THEN Released(node[n], IF Unsafe(n) THEN "reconciling" ELSE "queued")
  ELSE node[n]

RowStillWaiting(n) == RowAfterLeases(n)

RowAfterApprovals(n) ==
  LET row == RowAfterLeases(n)
  IN  IF n \in overdue /\ row.status = "waiting_approval"
      THEN [row EXCEPT !.status = "failed"]
      ELSE row

SweepingActive == run.cancel /\ RunAfterLeases.status \in RunActive

\* A cancelled run that has not ended yet.
Sweeping == run.cancel /\ RunAfterLeases.status \notin RunTerminal

RecoveredNode ==
  [n \in Node |-> IF Sweeping THEN CancelUnstarted(RowAfterApprovals(n))
                              ELSE RowAfterApprovals(n)]

RecoveredRun ==
  IF /\ Sweeping
     /\ RunAfterLeases.opLease # "live"
     /\ \A n \in Node : RowAfterLeases(n).status # "running"
  THEN OpCleared(run, "cancelled")
  ELSE RunAfterLeases

RecoveredApprovals ==
  [n \in Node |-> IF n \in overdue
                  THEN (approvals[n] \ {"pending"}) \cup {"expired"}
                  ELSE approvals[n]]

RecoverExpiredWork ==
  /\ ~Wedged
  /\ run' = RecoveredRun
  /\ node' = RecoveredNode
  /\ approvals' = RecoveredApprovals
  /\ overdue' = {}
  /\ UNCHANGED <<edges, procVars>>

(* The same call outside a transaction when an approval cannot be marked   *)
(* expired: the statements before the failing one stay done, those after   *)
(* it, and the caller's own work, never run.                               *)
RecoverFails ==
  /\ Wedged
  /\ run' = IF \E n \in Node : LeaseLost(n) /\ Unsafe(n)
            THEN [run EXCEPT !.status = "reconciling"] ELSE run
  /\ \E done \in SUBSET {n \in overdue : "expired" \notin approvals[n]} :
       /\ node' = [n \in Node |-> IF n \in done THEN RowAfterApprovals(n)
                                                ELSE RowAfterLeases(n)]
       /\ approvals' = [n \in Node |->
                          IF n \in done
                          THEN (approvals[n] \ {"pending"}) \cup {"expired"}
                          ELSE approvals[n]]
       /\ overdue' = overdue \ done
  /\ UNCHANGED <<edges, procVars>>

-----------------------------------------------------------------------------
(* claimNode: recovery, the approvals asked for on the way, and the claim  *)
(* of the first node that is ready, in one transaction.                    *)

DependenciesReady(n) ==
  \A e \in edges : e[2] = n => RecoveredNode[e[1]].status \in NodeSuccess

Candidates ==
  IF RecoveredRun.status \in RunActive /\ ~RecoveredRun.cancel
  THEN {n \in Node : /\ RecoveredNode[n].status \in {"queued", "waiting_approval"}
                     /\ DependenciesReady(n)}
  ELSE {}

AwaitsAnyDecision(n) == node[n].gated /\ approvals[n] = {}

AwaitsApproval(n) == node[n].gated /\ "approved" \notin approvals[n]

Claimable == {n \in Candidates : ~AwaitsApproval(n)}

\* The candidates passed over before n for which approval is requested.
Unasked(limit) ==
  {n \in Candidates : /\ AwaitsApproval(n)
                      /\ RecoveredNode[n].status = "queued"
                      /\ limit => \A m \in Claimable :
                           node[n].sequence < node[m].sequence}

RequestApproval(asked) ==
  approvals' = [n \in Node |-> IF n \in asked
                               THEN RecoveredApprovals[n] \cup {"pending"}
                               ELSE RecoveredApprovals[n]]

Waiting(asked, rows) ==
  [n \in Node |-> IF n \in asked THEN Released(rows[n], "waiting_approval")
                                 ELSE rows[n]]

\* Work the process already has in flight (workerState.active).
Busy(w) == Cardinality({t \in tasks : t.worker = w})
           + Cardinality({r \in replanning : r.worker = w})

ClaimNode(w) ==
  /\ w \in alive
  /\ Busy(w) < MaxConcurrency
  /\ ~Wedged
  /\ \E n \in Claimable :
       /\ \A m \in Claimable : node[n].sequence <= node[m].sequence
       /\ RequestApproval(Unasked(TRUE))
       /\ node' = [Waiting(Unasked(TRUE), RecoveredNode) EXCEPT
                     ![n].status = "running", ![n].attempt = @ + 1,
                     ![n].owner = w, ![n].lease = "live"]
       /\ run' = [RecoveredRun EXCEPT !.status = "running"]
       /\ tasks' = {[t EXCEPT !.current = t.current /\ t.node # n] : t \in tasks}
                   \cup {[worker |-> w, node |-> n, phase |-> "executing",
                          current |-> TRUE]}
  /\ overdue' = {}
  /\ UNCHANGED <<edges, replanning, finalizer, synths, alive, stalls>>

\* The same transaction when nothing can be claimed but approvals are asked.
ClaimNothing(w) ==
  /\ w \in alive
  /\ Busy(w) < MaxConcurrency
  /\ ~Wedged
  /\ Claimable = {}
  /\ Unasked(FALSE) # {}
  /\ RequestApproval(Unasked(FALSE))
  /\ node' = Waiting(Unasked(FALSE), RecoveredNode)
  /\ run' = [RecoveredRun EXCEPT !.status = "waiting_approval"]
  /\ overdue' = {}
  /\ UNCHANGED <<edges, procVars>>

-----------------------------------------------------------------------------
(* executeClaimedNode and handleNodeFailure.                               *)

HoldsAnyLease(t) == node[t.node].status = "running"

Holds(t) == node[t.node].status = "running" /\ node[t.node].owner = t.worker

\* The executor resolves; a result after the lease was lost is discarded.
ExecutorReturns(t) ==
  /\ t.phase = "executing"
  /\ IF Holds(t)
     THEN SetRow(t.node, Released(node[t.node], "succeeded"))
     ELSE UNCHANGED node
  /\ tasks' = tasks \ {t}
  /\ UNCHANGED <<run, edges, approvals, overdue, replanning, finalizer, synths,
                 alive, stalls>>

(* The executor throws: an attempt is left, or the write needs             *)
(* reconciling, or the node fails, its run still to be told.               *)
ExecutorFails(t) ==
  LET row == node[t.node]
      next == IF row.attempt < row.maxAttempts THEN "queued"
              ELSE IF Unsafe(t.node) THEN "reconciling" ELSE "failed"
  IN /\ t.phase = "executing"
     /\ IF Holds(t)
        THEN /\ SetRow(t.node, Released(row, next))
             /\ run' = [run EXCEPT !.status =
                          IF next = "reconciling" THEN next ELSE @]
             /\ tasks' = (tasks \ {t}) \cup
                         (IF next = "failed" THEN {[t EXCEPT !.phase = "failing"]}
                                             ELSE {})
        ELSE tasks' = tasks \ {t} /\ UNCHANGED <<run, node>>
     /\ UNCHANGED <<edges, approvals, overdue, replanning, finalizer, synths,
                    alive, stalls>>

MayReplan == AutoReplan /\ run.replans < MaxReplans

\* The second half: the run starts replanning, whatever its status, or fails.
HandleNodeFailure(t) ==
  /\ t.phase = "failing"
  /\ tasks' = tasks \ {t}
  /\ IF MayReplan
     THEN /\ run' = OpClaimed(run, "replanning", t.worker)
          /\ replanning' = {[r EXCEPT !.current = FALSE] : r \in replanning}
                           \cup {[worker |-> t.worker, node |-> t.node,
                                  current |-> TRUE]}
     ELSE /\ run' = [run EXCEPT !.status = "failed"]
          /\ UNCHANGED replanning
  /\ UNCHANGED <<node, edges, approvals, overdue, finalizer, synths, alive, stalls>>

-----------------------------------------------------------------------------
(* claimReplanRun, executeReplanOperation and applyReplanPatch.            *)

\* A replan whose owner is gone is taken over for the latest failed node.
ClaimReplanRun(w) ==
  /\ w \in alive
  /\ Busy(w) < MaxConcurrency
  /\ ~Wedged
  /\ RecoveredRun.status = "replanning" /\ ~RecoveredRun.cancel
  /\ RecoveredRun.opOwner = NoWorker
  /\ node' = RecoveredNode
  /\ approvals' = RecoveredApprovals
  /\ overdue' = {}
  /\ LET failed == {n \in Node : RecoveredNode[n].status = "failed"}
     IN \/ /\ failed = {}
           /\ run' = [RecoveredRun EXCEPT !.status = "failed"]
           /\ UNCHANGED replanning
        \/ \E n \in failed :
             /\ run' = OpClaimed(RecoveredRun, "replanning", w)
             /\ replanning' = {[r EXCEPT !.current = FALSE] : r \in replanning}
                              \cup {[worker |-> w, node |-> n, current |-> TRUE]}
  /\ UNCHANGED <<edges, tasks, finalizer, synths, alive, stalls>>

OwnsReplan(r) == run.status = "replanning" /\ run.opOwner = r.worker

\* What applyReplanPatch refuses; a malformed patch is refused as well.
PatchRefused == run.cancel \/ run.replans >= MaxReplans

Revised == [OpCleared(run, "running") EXCEPT !.replans = @ + 1]

PatchRetry(n) ==
  /\ SetRow(n, [Released(node[n], "queued") EXCEPT
                  !.attempt = 0, !.maxAttempts = MaxAttempts])
  /\ run' = Revised
  /\ UNCHANGED edges

PatchSkip(n) ==
  /\ SetRow(n, Released(node[n], "skipped"))
  /\ run' = Revised
  /\ UNCHANGED edges

Replacement(n, mode) ==
  [status |-> "queued", effect |-> mode[1], gated |-> mode[2],
   sequence |-> node[n].sequence, attempt |-> 0, maxAttempts |-> MaxAttempts,
   owner |-> NoWorker, lease |-> "none"]

\* One replacement node stands for the validated sub-graph of the patch.
PatchReplace(n) ==
  \E new \in Node \ Present, mode \in PatchModes :
    /\ node' = [node EXCEPT ![n] = Released(@, "superseded"),
                            ![new] = Replacement(n, mode)]
    /\ edges' = {e \in edges : e[1] # n}
                \cup {<<e[1], new>> : e \in {x \in edges : x[2] = n}}
                \cup {<<new, e[2]>> : e \in {x \in edges : x[1] = n}}
    /\ run' = Revised

PatchAbort ==
  /\ run' = OpCleared(run, "failed")
  /\ UNCHANGED <<node, edges>>

ApplyReplanPatch(n) ==
  /\ ~PatchRefused
  /\ PatchRetry(n) \/ PatchSkip(n) \/ PatchReplace(n) \/ PatchAbort

\* The planner answers; an answer after the operation was lost is discarded.
ReplanReturns(r) ==
  /\ IF OwnsReplan(r)
     THEN ApplyReplanPatch(r.node)
     ELSE UNCHANGED <<run, node, edges>>
  /\ replanning' = replanning \ {r}
  /\ UNCHANGED <<approvals, overdue, tasks, finalizer, synths, alive, stalls>>

\* The planner throws or its patch is refused.
ReplanFails(r) ==
  /\ IF OwnsReplan(r)
     THEN run' = OpCleared(run, IF run.cancel THEN "cancelled" ELSE "failed")
     ELSE UNCHANGED run
  /\ replanning' = replanning \ {r}
  /\ UNCHANGED <<node, edges, approvals, overdue, tasks, finalizer, synths,
                 alive, stalls>>

-----------------------------------------------------------------------------
(* finalizeReadyRuns: list the active runs, visit each, synthesize.        *)

FinalizeList(w) ==
  /\ w \in alive /\ finalizer[w] = "idle"
  /\ ~Wedged
  /\ RecoveredRun.status \in RunActive
  /\ run' = RecoveredRun
  /\ node' = RecoveredNode
  /\ approvals' = RecoveredApprovals
  /\ overdue' = {}
  /\ finalizer' = [finalizer EXCEPT ![w] =
                     IF RecoveredRun.cancel THEN "listed_cancelled" ELSE "listed"]
  /\ UNCHANGED <<edges, tasks, replanning, synths, alive, stalls>>

SettledWhenIdle ==
  \A n \in Present : node[n].status \notin {"queued", "running"}

Settled == \A n \in Present : node[n].status \in NodeTerminal

\* A visit to a run that was listed without a cancel request.
FinalizeVisit(w) ==
  /\ finalizer[w] = "listed"
  /\ finalizer' = [finalizer EXCEPT ![w] = "idle"]
  /\ \/ /\ ~Settled
        /\ UNCHANGED <<run, synths>>
     \/ /\ Settled
        /\ \E n \in Node : node[n].status = "failed"
        /\ run' = [run EXCEPT !.status = "failed"]
        /\ UNCHANGED synths
     \/ /\ Settled
        /\ \A n \in Node : node[n].status # "failed"
        /\ IF run.status \in RunActive
           THEN /\ run' = OpClaimed(run, "synthesizing", w)
                /\ synths' = synths \cup {w}
           ELSE UNCHANGED <<run, synths>>
  /\ UNCHANGED <<node, edges, approvals, overdue, tasks, replanning, alive, stalls>>

\* A visit to a run that was listed with one.
FinalizeCancelled(w) ==
  /\ finalizer[w] = "listed_cancelled"
  /\ finalizer' = [finalizer EXCEPT ![w] = "idle"]
  /\ node' = [n \in Node |-> CancelUnstarted(node[n])]
  /\ run' = IF \A n \in Node : node[n].status # "running"
            THEN [run EXCEPT !.status = "cancelled"] ELSE run
  /\ UNCHANGED <<edges, approvals, overdue, tasks, replanning, synths, alive, stalls>>

\* synthesizeRun resolves; it falls back to the node results, never throws.
SynthesisReturns(w) ==
  /\ w \in synths
  /\ synths' = synths \ {w}
  /\ run' = IF run.status = "synthesizing" /\ run.opOwner = w
            THEN OpCleared(run, IF run.cancel THEN "cancelled" ELSE "succeeded")
            ELSE run
  /\ UNCHANGED <<node, edges, approvals, overdue, tasks, replanning, finalizer,
                 alive, stalls>>

-----------------------------------------------------------------------------
(* The user and the administrator.                                         *)

DecideDeepAgentApproval(n, decision) ==
  /\ "pending" \in approvals[n]
  /\ decision \notin approvals[n]
  /\ approvals' = [approvals EXCEPT ![n] = (@ \ {"pending"}) \cup {decision}]
  /\ overdue' = overdue \ {n}
  /\ IF decision = "approved"
     THEN /\ SetRow(n, IF node[n].status = "waiting_approval"
                       THEN [node[n] EXCEPT !.status = "queued"] ELSE node[n])
          /\ run' = [run EXCEPT !.status = "running"]
     ELSE /\ SetRow(n, [node[n] EXCEPT !.status = "cancelled"])
          /\ run' = [run EXCEPT !.status = "cancelled"]
  /\ UNCHANGED <<edges, procVars>>

CancelDeepAgentRun ==
  /\ run.status \in RunActive \cup {"replanning", "reconciling"}
  /\ run' = [run EXCEPT !.cancel = TRUE]
  /\ UNCHANGED <<node, edges, approvals, overdue, procVars>>

ResolveDeepAgentReconciliation(n, decision) ==
  /\ node[n].status = "reconciling"
  /\ SetRow(n, CASE decision = "confirmed_succeeded" ->
                      [node[n] EXCEPT !.status = "succeeded"]
                 [] decision = "retry" ->
                      [node[n] EXCEPT !.status = "queued", !.attempt = 0]
                 [] decision = "failed" ->
                      [node[n] EXCEPT !.status = "failed"])
  /\ run' = [run EXCEPT !.status = IF decision = "failed" THEN "failed" ELSE "running"]
  /\ UNCHANGED <<edges, approvals, overdue, procVars>>

-----------------------------------------------------------------------------
(* The clock, the lease heartbeats and crashes.                            *)

\* The timers of startLeaseHeartbeat: one per execution, one per operation.
NodeRenewed(n) == \E t \in tasks : t.node = n /\ Holds(t)

OpRenewed ==
  \/ run.status = "replanning" /\ \E r \in replanning : r.worker = run.opOwner
  \/ run.status = "synthesizing" /\ run.opOwner \in synths

\* A lease that a timer renews lapses only under a process that stalls.
Stalled(renewed) ==
  IF renewed THEN stalls < MaxStalls /\ stalls' = stalls + 1
             ELSE UNCHANGED stalls

LeaseLapses(n) ==
  /\ node[n].status = "running" /\ node[n].lease = "live"
  /\ SetRow(n, [node[n] EXCEPT !.lease = "lapsed"])
  /\ Stalled(NodeRenewed(n))
  /\ UNCHANGED <<run, edges, approvals, overdue, tasks, replanning, finalizer,
                 synths, alive>>

OpLeaseLapses ==
  /\ run.opLease = "live"
  /\ run' = [run EXCEPT !.opLease = "lapsed"]
  /\ Stalled(OpRenewed)
  /\ UNCHANGED <<node, edges, approvals, overdue, tasks, replanning, finalizer,
                 synths, alive>>

ApprovalLapses(n) ==
  /\ "pending" \in approvals[n] /\ n \notin overdue
  /\ overdue' = overdue \cup {n}
  /\ UNCHANGED <<run, node, edges, approvals, procVars>>

Heartbeat(n) ==
  /\ node[n].lease = "lapsed" /\ NodeRenewed(n)
  /\ SetRow(n, [node[n] EXCEPT !.lease = "live"])
  /\ UNCHANGED <<run, edges, approvals, overdue, procVars>>

OpHeartbeat ==
  /\ run.opLease = "lapsed" /\ OpRenewed
  /\ run' = [run EXCEPT !.opLease = "live"]
  /\ UNCHANGED <<node, edges, approvals, overdue, procVars>>

(* A process dies with everything it awaits; its rows stay as they are.    *)
(* Bound: one process survives (the service manager restarts workers).     *)
Crash(w) ==
  /\ w \in alive /\ alive # {w}
  /\ alive' = alive \ {w}
  /\ tasks' = {t \in tasks : t.worker # w}
  /\ replanning' = {r \in replanning : r.worker # w}
  /\ synths' = synths \ {w}
  /\ finalizer' = [finalizer EXCEPT ![w] = "idle"]
  /\ UNCHANGED <<dbVars, stalls>>

-----------------------------------------------------------------------------
\* createDeepAgentRun has committed the plan; nothing has run yet.
Init ==
  /\ run = [status |-> "queued", cancel |-> FALSE, replans |-> 0,
            opOwner |-> NoWorker, opLease |-> "none"]
  /\ \E p \in Plans : node = p.rows /\ edges = p.edges
  /\ approvals = [n \in Node |-> {}]
  /\ overdue = {}
  /\ tasks = {} /\ replanning = {} /\ synths = {}
  /\ finalizer = [w \in Worker |-> "idle"]
  /\ alive = Worker
  /\ stalls = 0

Decide == \E n \in Node, d \in {"approved", "rejected"} :
            DecideDeepAgentApproval(n, d)

Resolve == \E n \in Node, d \in {"confirmed_succeeded", "retry", "failed"} :
             ResolveDeepAgentReconciliation(n, d)

Next ==
  \/ RecoverExpiredWork
  \/ RecoverFails
  \/ \E w \in Worker : \/ ClaimNode(w)
                       \/ ClaimNothing(w)
                       \/ ClaimReplanRun(w)
                       \/ FinalizeList(w)
                       \/ FinalizeVisit(w)
                       \/ FinalizeCancelled(w)
                       \/ SynthesisReturns(w)
                       \/ Crash(w)
  \/ \E t \in tasks : \/ ExecutorReturns(t)
                      \/ ExecutorFails(t)
                      \/ HandleNodeFailure(t)
  \/ \E r \in replanning : ReplanReturns(r) \/ ReplanFails(r)
  \/ Decide
  \/ Resolve
  \/ CancelDeepAgentRun
  \/ \E n \in Node : LeaseLapses(n) \/ Heartbeat(n) \/ ApprovalLapses(n)
  \/ OpLeaseLapses
  \/ OpHeartbeat

Spec == Init /\ [][Next]_vars

(* A surviving process keeps polling and its timers keep firing; promises  *)
(* settle.  Nothing is assumed of the user, of the administrator or of a   *)
(* stalled process.                                                        *)
UnrenewedLeaseLapses ==
  \/ \E n \in Node : ~NodeRenewed(n) /\ LeaseLapses(n)
  \/ ~OpRenewed /\ OpLeaseLapses

Fairness ==
  /\ WF_vars(RecoverExpiredWork /\ dbVars' # dbVars)
  /\ WF_vars(RecoverFails /\ dbVars' # dbVars)
  /\ WF_vars(UnrenewedLeaseLapses)
  /\ \A w \in Worker : /\ WF_vars(ClaimNode(w))
                       /\ WF_vars(ClaimReplanRun(w))
                       /\ WF_vars(FinalizeList(w))
                       /\ WF_vars(FinalizeVisit(w) \/ FinalizeCancelled(w))
                       /\ WF_vars(SynthesisReturns(w))
                       /\ WF_vars(\E t \in tasks : t.worker = w /\
                            (ExecutorReturns(t) \/ ExecutorFails(t)))
                       /\ WF_vars(\E t \in tasks : t.worker = w /\ HandleNodeFailure(t))
                       /\ WF_vars(\E r \in replanning : r.worker = w /\
                            (ReplanReturns(r) \/ ReplanFails(r)))

FairSpec == Spec /\ Fairness

-----------------------------------------------------------------------------
(* Properties that hold.                                                   *)

(* A node that needs approval, and any non-idempotent write, never runs    *)
(* without a recorded human approval, whatever patches, expiries, retries  *)
(* and lease recoveries came before (claimNode, requestApproval).          *)
ApprovedBeforeRunning ==
  \A n \in Node : node[n].status = "running" /\ (node[n].gated \/ Unsafe(n))
                  => "approved" \in approvals[n]

(* Approvals and plan agree: a write is gated from the moment its node     *)
(* exists, an approval is pending only while its node still needs one, so  *)
(* no late decision meets a running node, and only pending ones expire.    *)
ApprovalsFitNodes ==
  /\ \A n \in Node : Unsafe(n) => node[n].gated
  /\ \A n \in Node : "pending" \in approvals[n] => AwaitsApproval(n)
  /\ \A n \in Node : node[n].status = "absent" => approvals[n] = {}
  /\ \A n \in overdue : "pending" \in approvals[n]

(* A run is synthesized, and succeeds, only over a finished plan: no node  *)
(* is still to run, running, reconciling or failed, however long the       *)
(* synthesis was awaited (finalizeReadyRuns).                              *)
FinishedBeforeSynthesis ==
  run.status \in {"synthesizing", "succeeded"} =>
    \A n \in Present : node[n].status \in NodeTerminal \ {"failed"}

(* A lease is on a running node and on no other: recoverExpiredWork looks  *)
(* for expired leases among running nodes only, so a lease elsewhere would *)
(* hold its node for ever.                                                 *)
LeasesOnRunningNodes ==
  \A n \in Node : /\ node[n].status = "running" <=> node[n].owner # NoWorker
                  /\ node[n].status = "running" <=> node[n].lease # "none"

(* Concurrent failures, takeovers and late answers together never revise   *)
(* the plan more often than max_replans, and no planner is asked when the  *)
(* budget is spent (handleNodeFailure checks before the planner is         *)
(* awaited, applyReplanPatch after it).                                    *)
ReplansWithinBudget ==
  /\ run.replans <= MaxReplans
  /\ run.status = "replanning" => run.replans < MaxReplans

(* With no failed, cancelled or reconciling node and no approval pending,  *)
(* an unfinished active run always has a node a worker can start or ask    *)
(* approval for: patches never leave a node waiting for nothing.           *)
NoDeadEnd ==
  (/\ run.status \in RunActive /\ ~run.cancel
   /\ \A n \in Present : node[n].status \in NodeSuccess
                           \cup {"queued", "waiting_approval"}
   /\ \A n \in Node : "pending" \notin approvals[n]
   /\ ~Settled)
  => \E n \in Present :
       /\ \/ node[n].status = "queued"
          \/ node[n].status = "waiting_approval" /\ ~AwaitsApproval(n)
       /\ \A e \in edges : e[2] = n => node[e[1]].status \in NodeSuccess

(* The outcome of a running node is written by an execution of the process *)
(* that holds its lease, never by a process that lost it to another one    *)
(* (executeClaimedNode, handleNodeFailure).                                *)
OnlyHolderCommits ==
  [][\A n \in Node :
       node[n].status = "running" /\ node'[n].status \in {"succeeded", "failed"}
       => \E t \in tasks : /\ t.node = n /\ t.worker = node[n].owner
                           /\ t \notin tasks']_vars

(* A node starts only in a run without a cancel request and only when all  *)
(* its dependencies have succeeded or were skipped or superseded, even     *)
(* when the same transaction recovers leases and cancels nodes.            *)
StartsAreJustified ==
  [][\A n \in Node :
       node[n].status # "running" /\ node'[n].status = "running"
       => /\ ~run.cancel
          /\ \A e \in edges : e[2] = n => node'[e[1]].status \in NodeSuccess]_vars

(* A lapsed lease is eventually renewed or its node recovered, even while  *)
(* another row makes recoverExpiredWork throw.                             *)
LapsedLeaseIsRecovered ==
  \A n \in Node : (node[n].lease = "lapsed") ~> (node[n].lease # "lapsed")

(* A requested cancellation ends the run, through crashes, replanning and  *)
(* synthesis, unless recoverExpiredWork throws for ever.                   *)
CancelEndsRun ==
  [](~Wedged) => (run.cancel ~> run.status \in RunTerminal)

(* A run whose nodes have all succeeded, were skipped or superseded is     *)
(* eventually ended, whichever worker dies while synthesizing it.          *)
FinishedRunEnds ==
  [](~Wedged) =>
    ((run.status \in RunActive /\ \A n \in Present : node[n].status \in NodeSuccess)
       ~> run.status \in RunTerminal)

-----------------------------------------------------------------------------
(* What the documentation, the tests and the code's messages say, and the  *)
(* code does not do.                                                       *)

(* docs/deep-agent-runtime.md:116: a write whose outcome is unknown must   *)
(* be reconciled, never retried automatically; handleNodeFailure requeues  *)
(* it while an attempt is left.                                            *)
UncertainWriteIsReconciled ==
  [][\A n \in Node : node[n].status = "running" /\ Unsafe(n)
                     => node'[n].status # "queued"]_vars

(* docs/deep-agent-runtime.md:113: a rejection ends its node and its run;  *)
(* decideDeepAgentApproval lets a later approval set the run running.      *)
RejectedRunNeverSucceeds ==
  run.status = "succeeded" => \A n \in Node : "rejected" \notin approvals[n]

(* docs/deep-agent-runtime.md:112: an approval past its expiry fails its   *)
(* node; a second expiry on one node meets UNIQUE(node_id, status), and    *)
(* recoverExpiredWork throws there from then on.                           *)
OverdueApprovalExpires ==
  \A n \in Node : (n \in overdue) ~> (n \notin overdue)

(* test/deep-agent-runtime.test.js:121: a worker cannot commit a late      *)
(* result after losing its node lease; the lease names the process, so an  *)
(* execution that lost it commits when its process claims the node again.  *)
LateResultIsDiscarded ==
  [][\A t \in tasks \ tasks' :
       node[t.node].status = "running" /\ node'[t.node].status = "succeeded"
       => t.current]_vars
=============================================================================
