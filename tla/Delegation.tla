----------------------------- MODULE Delegation -----------------------------
(***************************************************************************)
(* A call of delegate_parallel_tasks (lib/subagent-runtime.js): a row for  *)
(* each task, and workers that take the next task from a cursor they share,*)
(* run a child agent, which uses the sandbox of the conversation, and      *)
(* record how it ended.  Before and after the call the turn itself uses    *)
(* the sandbox.                                                            *)
(***************************************************************************)
EXTENDS Sandbox

CONSTANT MaxTasks  \* config.subagentRuntime.maxTasksPerCall

ASSUME TasksAssumption == MaxTasks \in Nat

VARIABLES
  batch,  \* the call: its state, how many tasks, the cursor, the abort signal
  rows,   \* status in agent_task_runs, by sequence
  on,     \* the task of each worker, 0 for none
  given   \* how often each task was taken, and the result it returned

batchVars == <<batch, rows, on, given>>

Task == 1..MaxTasks

EndStates == {"success", "error", "cancelled"}

-----------------------------------------------------------------------------
\* Too few, too many, or one that has no instruction.
Accepted(n, whole) == n \in 2..MaxTasks /\ whole

InsertTasks(n) == [t \in Task |-> IF t <= n THEN "queued" ELSE "none"]

UpdateTask(t, status) == rows' = [rows EXCEPT ![t] = status]

DelegateParallelTasks(n, whole) ==
  /\ batch.at = "idle" /\ \A w \in Worker : ~Busy(w)
  /\ batch' = [batch EXCEPT !.at = IF Accepted(n, whole) THEN "running" ELSE "thrown", !.tasks = n]
  /\ rows' = IF Accepted(n, whole) THEN InsertTasks(n) ELSE rows
  /\ UNCHANGED <<on, given, sandboxVars>>

\* As if it were advanced when the task has ended.
CursorKept == batch.cursor

\* Nothing is awaited between the reading of the cursor and its next value.
NextCursor == batch.cursor + 1

TakesTask(w) ==
  /\ batch.at = "running" /\ on[w] = 0 /\ batch.cursor < batch.tasks
  /\ LET t == batch.cursor + 1
     IN  /\ on' = [on EXCEPT ![w] = t]
         /\ UpdateTask(t, "running")
         /\ given' = [given EXCEPT ![t].taken = IF @ < 2 THEN @ + 1 ELSE @]
  /\ batch' = [batch EXCEPT !.cursor = NextCursor]
  /\ UNCHANGED sandboxVars

\* The signal names the end of a child that fails; it stops none.
Outcomes == {"success", IF batch.aborted THEN "cancelled" ELSE "error"}

TaskEnds(w) ==
  /\ on[w] # 0 /\ ~Busy(w)
  /\ \E outcome \in Outcomes :
       /\ UpdateTask(on[w], outcome)
       /\ given' = [given EXCEPT ![on[w]].result = outcome]
  /\ on' = [on EXCEPT ![w] = 0]
  /\ UNCHANGED <<batch, sandboxVars>>

BatchReplies ==
  /\ batch.at = "running" /\ batch.cursor >= batch.tasks /\ \A w \in Worker : on[w] = 0
  /\ batch' = [batch EXCEPT !.at = "replied"]
  /\ UNCHANGED <<rows, on, given, sandboxVars>>

Aborts ==
  /\ batch.at = "running" /\ ~batch.aborted
  /\ batch' = [batch EXCEPT !.aborted = TRUE]
  /\ UNCHANGED <<rows, on, given, sandboxVars>>

\* The rows of a call that died with its process are never ended.
BatchLost ==
  /\ SandboxForgotten
  /\ batch' = [batch EXCEPT !.at = IF @ = "running" THEN "lost" ELSE @]
  /\ on' = [w \in Worker |-> 0]
  /\ UNCHANGED <<rows, given>>

\* Tools of a child while it has a task, of the turn when no batch runs.
CallsTool(w) ==
  /\ batch.at = "running" => on[w] # 0
  /\ EnsureSandboxSession(w)
  /\ UNCHANGED batchVars

-----------------------------------------------------------------------------
BatchInit ==
  /\ SandboxInit
  /\ batch = [at |-> "idle", tasks |-> 0, cursor |-> 0, aborted |-> FALSE]
  /\ rows = [t \in Task |-> "none"]
  /\ on = [w \in Worker |-> 0]
  /\ given = [t \in Task |-> [taken |-> 0, result |-> "none"]]

ToolSteps ==
  \E w \in Worker : CallsTool(w) \/ (CallProceeds(w) /\ UNCHANGED batchVars)

BatchSteps ==
  \/ \E n \in 0..(MaxTasks + 1), whole \in BOOLEAN : DelegateParallelTasks(n, whole)
  \/ \E w \in Worker : TakesTask(w) \/ TaskEnds(w)
  \/ BatchReplies \/ Aborts \/ BatchLost

SandboxEnds == \E s \in Sandboxes : SandboxExpires(s) /\ UNCHANGED batchVars

BatchNext == ToolSteps \/ BatchSteps \/ SandboxEnds

BatchSpec == BatchInit /\ [][BatchNext]_<<batchVars, sandboxVars>>

BatchTypeOK ==
  /\ SandboxTypeOK
  /\ batch \in [at : {"idle", "running", "thrown", "replied", "lost"}, tasks : 0..(MaxTasks + 1),
                cursor : 0..MaxTasks, aborted : BOOLEAN]
  /\ rows \in [Task -> {"none", "queued", "running"} \cup EndStates]
  /\ on \in [Worker -> {0} \cup Task]
  /\ given \in [Task -> [taken : 0..2, result : {"none"} \cup EndStates]]

(* Each task is run by one worker and once, its row says running exactly   *)
(* while it is, and the reply holds of every task the result that its row  *)
(* records, in the order they were asked for (mapWithConcurrency,          *)
(* runChildTask).                                                          *)
EachTaskOnce ==
  /\ \A t \in Task : given[t].taken <= 1
  /\ batch.at = "running" =>
       \A t \in Task : (rows[t] = "running") = (\E w \in Worker : on[w] = t)
  /\ batch.at = "replied" =>
       \A t \in 1..batch.tasks : rows[t] \in EndStates /\ given[t].result = rows[t]
=============================================================================
