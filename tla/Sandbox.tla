------------------------------ MODULE Sandbox -------------------------------
(***************************************************************************)
(* The sandbox of one conversation (lib/sandbox-runtime.js), remote and    *)
(* with a time to live: the row of its session, the session that the       *)
(* process keeps in memory, and the calls of tools that find or make a     *)
(* sandbox and read or write files in it.  A call of several at a time     *)
(* is known by who makes it, and so are the files it writes.               *)
(***************************************************************************)
EXTENDS Naturals, FiniteSets

CONSTANTS
  Worker,        \* who calls tools of the sandbox, one call at a time each
  MaxSandboxes,  \* bound: sandboxes ever created
  MaxDeaths      \* bound: deaths of the process

ASSUME SandboxAssumption == MaxSandboxes \in Nat /\ MaxDeaths \in Nat

VARIABLES
  session,    \* the row of sandbox_sessions, and sessionCache
  sandboxes,  \* the remote sandboxes, in the order of their creation
  calls,      \* tool calls under way
  ran         \* how many were created, how often the process died, and whether
              \* a living sandbox refused a call or two were made at a time

sandboxVars == <<session, sandboxes, calls, ran>>

Sandboxes == 1..MaxSandboxes

\* Sandbox 0 stands for none.
NoCall == [at |-> "idle", sandbox |-> 0]

Busy(w) == calls[w].at # "idle"

Remote == {s \in Sandboxes : s <= ran.created}

\* A sandbox that answers what the process asks of it.
Answering(s) == s \in sandboxes.alive

-----------------------------------------------------------------------------
SessionUsed(w) ==
  /\ session.cached # 0
  /\ calls' = [calls EXCEPT ![w] = [at |-> "using", sandbox |-> session.cached]]
  /\ UNCHANGED session

\* As if the row's sandbox were not asked for.
SessionMade(w) ==
  /\ session.cached = 0
  /\ session' = [session EXCEPT !.status = "creating"]
  /\ calls' = [calls EXCEPT ![w] = [at |-> "creating", sandbox |-> 0]]

\* makeRuntime connects to the sandbox of the row, if it has one.
SessionMissed(w) ==
  /\ session.cached = 0
  /\ session' = [session EXCEPT !.status = "creating"]
  /\ calls' = [calls EXCEPT ![w] = [at |-> IF session.sandbox # 0 THEN "connecting" ELSE "creating",
                                    sandbox |-> session.sandbox]]

EnsureSandboxSession(w) ==
  /\ ~Busy(w)
  /\ SessionUsed(w) \/ SessionMissed(w)
  /\ UNCHANGED <<sandboxes, ran>>

SessionReady(w, s) ==
  /\ session' = [status |-> "ready", sandbox |-> s, cached |-> s]
  /\ calls' = [calls EXCEPT ![w] = [at |-> "using", sandbox |-> s]]

Connected(w) ==
  /\ calls[w].at = "connecting" /\ Answering(calls[w].sandbox)
  /\ SessionReady(w, calls[w].sandbox)
  /\ UNCHANGED <<sandboxes, ran>>

\* The sandbox has expired, or cannot be reached.
ConnectFails(w) ==
  /\ calls[w].at = "connecting"
  /\ calls' = [calls EXCEPT ![w] = [at |-> "creating", sandbox |-> 0]]
  /\ ran' = [ran EXCEPT !.scattered = @ \/ Answering(calls[w].sandbox)]
  /\ UNCHANGED <<session, sandboxes>>

Created(w) ==
  /\ calls[w].at = "creating" /\ ran.created < MaxSandboxes
  /\ LET s == ran.created + 1
     IN  /\ SessionReady(w, s)
         /\ sandboxes' = [sandboxes EXCEPT !.alive = @ \cup {s}]
         /\ ran' = [ran EXCEPT !.created = s,
                      !.scattered = @ \/ \E v \in Worker \ {w} : calls[v].at \in {"connecting", "creating"}]

CreateThrows(w) ==
  /\ calls[w].at = "creating"
  /\ session' = [session EXCEPT !.status = "error"]
  /\ calls' = [calls EXCEPT ![w] = NoCall]
  /\ UNCHANGED <<sandboxes, ran>>

\* The tool reads, writes or runs a command; what it wrote stays when it fails.
ToolEnds(w) ==
  /\ calls[w].at = "using"
  /\ calls' = [calls EXCEPT ![w] = NoCall]
  /\ \/ UNCHANGED sandboxes
     \/ /\ Answering(calls[w].sandbox)
        /\ sandboxes' = [sandboxes EXCEPT !.written = @ \cup {calls[w].sandbox}]
  /\ UNCHANGED <<session, ran>>

\* The time to live is counted by the service, whatever the process does.
SandboxExpires(s) ==
  /\ Answering(s)
  /\ sandboxes' = [alive |-> sandboxes.alive \ {s}, written |-> sandboxes.written \ {s}]
  /\ UNCHANGED <<session, calls, ran>>

\* The process is restarted: the row stays, the cache and the calls do not.
SandboxForgotten ==
  /\ ran.deaths < MaxDeaths
  /\ session' = [session EXCEPT !.cached = 0]
  /\ calls' = [w \in Worker |-> NoCall]
  /\ ran' = [ran EXCEPT !.deaths = @ + 1]
  /\ UNCHANGED sandboxes

-----------------------------------------------------------------------------
SandboxInit ==
  /\ session = [status |-> "none", sandbox |-> 0, cached |-> 0]
  /\ sandboxes = [alive |-> {}, written |-> {}]
  /\ calls = [w \in Worker |-> NoCall]
  /\ ran = [created |-> 0, deaths |-> 0, scattered |-> FALSE]

CallProceeds(w) ==
  Connected(w) \/ ConnectFails(w) \/ Created(w) \/ CreateThrows(w) \/ ToolEnds(w)

SandboxTypeOK ==
  /\ session \in [status : {"none", "creating", "ready", "error"},
                  sandbox : {0} \cup Remote, cached : {0} \cup Remote]
  /\ sandboxes \in [alive : SUBSET Remote, written : SUBSET Remote]
  /\ calls \in [Worker -> [at : {"idle", "connecting", "creating", "using"}, sandbox : {0} \cup Remote]]
  /\ ran \in [created : 0..MaxSandboxes, deaths : 0..MaxDeaths, scattered : BOOLEAN]

(* What one tool call wrote, the next one finds: a sandbox that lives and  *)
(* has files is the one the next call gets, also after a restart, unless   *)
(* two calls made a sandbox each at the same time or a living one refused  *)
(* the connection (ensureSandboxSession, makeRuntime).                     *)
FilesStay ==
  ~ran.scattered => \A s \in sandboxes.written :
      session.sandbox = s /\ session.cached \in {0, s}
=============================================================================
