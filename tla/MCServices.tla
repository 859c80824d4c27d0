----------------------------- MODULE MCServices ------------------------------
(***************************************************************************)
(* What an agent's turn calls upon, as TLC checks it: the jobs and writes  *)
(* of the headless memory, what the memory recalls, runs of the agent that *)
(* share a prefix, a batch of subagents in a sandbox, the sandbox alone,   *)
(* or turns that use the tools of a capability.  A behaviour is of one of  *)
(* these parts; the rest stands still.                                     *)
(***************************************************************************)
EXTENDS MCMemoryService, MemoryTools, AgentRun, Delegation, Capabilities

VARIABLE part

(* A scene of a story, a confirmed event and one that may have been, which *)
(* are about two entities; and an edge between them.                       *)
CONSTANTS scene, fact, rumour, anna, ben

KindOf == [e \in Event |-> CASE e = scene -> "fiction" [] e = fact -> "confirmed" [] OTHER -> "tentative"]

AboutOf == [e \in Event |-> CASE e = scene -> {anna} [] e = fact -> Name [] OTHER -> {ben}]

Edges == {[ends |-> {anna, ben}, event |-> rumour]}

Strategy(planner, corrective, counts, ordered, filter) ==
  [planner |-> planner, corrective |-> corrective, counts |-> counts, ordered |-> ordered, filter |-> filter]

Questions == {Strategy(FALSE, FALSE, TRUE, FALSE, "off"), Strategy(TRUE, TRUE, FALSE, FALSE, "active"),
              Strategy(FALSE, FALSE, FALSE, FALSE, "shadow"), Strategy(TRUE, FALSE, FALSE, TRUE, "active")}

\* The grades that tell the properties' cases apart, for each event.
Rankings ==
  {grade \in [Event -> Grades] :
     /\ grade[rumour] \in {"none", "near"}
     /\ grade[fact] \in {"catalog", "linked", "aside"}
     /\ grade[scene] \in {"none", "near", "strong", "linked"}}

-----------------------------------------------------------------------------
serviceVars == <<vars, toolVars, runVars, batchVars, sandboxVars, capabilityVars, part>>

MCInit ==
  /\ part \in {"jobs", "recall", "runs", "subagents", "sandbox", "capabilities"}
  /\ Init /\ MemoryToolsInit /\ RunInit /\ BatchInit /\ CapabilityInit
  /\ part # "capabilities" => ~hashed
  /\ part # "runs" => prefix = "none" /\ \A c \in Caller : ~runs[c].tools

\* Children call tools while their batch runs; the life of the sandbox is
\* the last part's.
Subagents == BatchSteps \/ (batch.at = "running" /\ ToolSteps)

SandboxAlone == ToolSteps \/ SandboxEnds \/ BatchLost

MCNext ==
  \/ /\ part = "jobs" /\ Next
     /\ UNCHANGED <<toolVars, runVars, batchVars, sandboxVars, capabilityVars, part>>
  \/ /\ part = "recall" /\ MemoryToolsNext
     /\ UNCHANGED <<vars, runVars, batchVars, sandboxVars, capabilityVars, part>>
  \/ /\ part = "runs" /\ RunNext
     /\ UNCHANGED <<vars, toolVars, batchVars, sandboxVars, capabilityVars, part>>
  \/ /\ part = "subagents" /\ Subagents
     /\ UNCHANGED <<vars, toolVars, runVars, capabilityVars, part>>
  \/ /\ part = "sandbox" /\ SandboxAlone
     /\ UNCHANGED <<vars, toolVars, runVars, capabilityVars, part>>
  \/ /\ part = "capabilities" /\ CapabilityNext
     /\ UNCHANGED <<vars, toolVars, runVars, batchVars, sandboxVars, part>>

\* Runs that have not begun are not to be waited for in the other parts.
MCSpec ==
  /\ MCInit /\ [][MCNext]_serviceVars
  /\ Fairness
  /\ WF_runVars(part = "runs" /\ RunProceeds)

MCTypeOK == TypeOK /\ MemoryToolsTypeOK /\ RunTypeOK /\ BatchTypeOK /\ CapabilityTypeOK
=============================================================================
