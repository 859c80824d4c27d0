------------------------------ MODULE AgentRun ------------------------------
(***************************************************************************)
(* One run of the agent (lib/pi-runtime.js): turns of a model, which       *)
(* answers in pieces that the page shows as they come, and the tools it    *)
(* asks for in between.  A run without tools asks Ark (lib/providers/      *)
(* ark.js) in a context of its stable prompt that runs of the same agent   *)
(* share (lib/prefix-cache.js), and asks again in full when that fails.    *)
(*                                                                         *)
(* A piece of text is <<where, i>>, the i-th of the request that was made  *)
(* there, or 0 when the text came whole at the end of the request.  The    *)
(* row of the cache is its state as readers see it: "expired" is ready     *)
(* past its time, "cooling" is invalid and changed in the last minutes.    *)
(***************************************************************************)
EXTENDS Naturals, Sequences

CONSTANTS
  Caller,         \* runs, whose requests have the same cache key
  MaxModelTurns,  \* config.agentLoop.maxModelTurns, and
  MaxToolCalls,   \* config.agentLoop.maxToolCalls, or the limits of the run
  MaxAsked,       \* bound: tool calls in one answer
  MaxPieces       \* bound: pieces of one answer

ASSUME LoopAssumption ==
  /\ MaxModelTurns \in Nat \ {0} /\ MaxToolCalls \in Nat \ {0}
  /\ MaxAsked \in Nat /\ MaxPieces \in Nat

VARIABLES prefix, runs

runVars == <<prefix, runs>>

CacheRows == {"none", "ready", "expired", "invalid", "cooling"}

Places == {"idle", "creating", "context", "regular", "native", "tools", "done", "failed"}

Requests == {"context", "regular", "native"}

Texts == {<<>>} \cup {<<<<w, 0>>>> : w \in Requests}
           \cup {[i \in 1..n |-> <<w, i>>] : n \in 1..MaxPieces, w \in Requests}

NoRun(tools) == [tools |-> tools, at |-> "idle", turns |-> 0, calls |-> 0, left |-> 0,
                 made |-> FALSE, said |-> 0, shown |-> <<>>, text |-> <<>>]

-----------------------------------------------------------------------------
(* The row of the cache.                                                   *)

Cooldown == prefix = "cooling"
Usable == prefix = "ready"

MarkUsed == IF prefix \in {"invalid", "cooling"} THEN "cooling" ELSE prefix

Expires == prefix = "ready" /\ prefix' = "expired" /\ UNCHANGED runs
CooldownEnds == prefix = "cooling" /\ prefix' = "invalid" /\ UNCHANGED runs

-----------------------------------------------------------------------------
(* What happens to a run.                                                  *)

AtMost(n, limit) == IF n > limit THEN limit ELSE n

\* turn_start clears what is shown; counts past their limits are all alike.
TurnStarts(r, where) ==
  [r EXCEPT !.at = where, !.turns = AtMost(@ + 1, MaxModelTurns + 1), !.said = 0, !.shown = <<>>]

Asks(r, where) == [r EXCEPT !.at = where, !.said = 0]

Shows(r, i) == [r EXCEPT !.shown = Append(@, <<r.at, i>>)]

Ended(r, text) == [r EXCEPT !.at = IF text = <<>> THEN "failed" ELSE "done", !.text = text,
                            !.made = FALSE, !.said = 0]

Thrown(r) == [r EXCEPT !.at = "failed", !.made = FALSE, !.said = 0]

\* One more piece of the request under way.
Says(r) == [Shows(r, r.said + 1) EXCEPT !.said = @ + 1]

Pieces(r) == [i \in 1..r.said |-> <<r.at, i>>]

\* An answer without pieces has its text in the last event, shown as one piece.
Answered(r) ==
  IF r.said = 0 THEN Ended(Shows(r, 0), <<<<r.at, 0>>>>) ELSE Ended(r, Pieces(r))

\* A limit that only tools which really ran can reach.
StopsAfterTools(r) == r.turns >= MaxModelTurns /\ r.calls <= MaxToolCalls

Stops(r) == r.turns >= MaxModelTurns

-----------------------------------------------------------------------------
(* A run without tools.                                                    *)

RunBegins(c) ==
  /\ runs[c].at = "idle" /\ ~runs[c].tools
  /\ \E cached \in BOOLEAN :
       LET where == IF ~cached \/ Cooldown THEN "regular"
                    ELSE IF Usable THEN "context" ELSE "creating"
       IN  runs' = [runs EXCEPT ![c] = TurnStarts(@, where)]
  /\ UNCHANGED prefix

ContextCreated(c) ==
  /\ runs[c].at = "creating"
  /\ prefix' = "ready"
  /\ runs' = [runs EXCEPT ![c] = [Asks(@, "context") EXCEPT !.made = TRUE]]

CreateFails(c) ==
  /\ runs[c].at = "creating"
  /\ prefix' = "cooling"
  /\ runs' = [runs EXCEPT ![c] = Asks(@, "regular")]

Piece(c) ==
  /\ runs[c].at \in Requests /\ runs[c].said < MaxPieces
  /\ runs' = [runs EXCEPT ![c] = Says(@)]
  /\ UNCHANGED prefix

ContextAnswers(c) ==
  /\ runs[c].at = "context"
  /\ prefix' = IF runs[c].made THEN prefix ELSE MarkUsed
  /\ runs' = [runs EXCEPT ![c] = Answered(@)]

FallsBack(c) ==
  /\ prefix' = "cooling"
  /\ runs' = [runs EXCEPT ![c] = [Asks(@, "regular") EXCEPT !.made = FALSE]]

FallsBackAnyway(c) == runs[c].at = "context" /\ FallsBack(c)

\* What the page has seen cannot be taken back.
ContextFails(c) ==
  /\ runs[c].at = "context"
  /\ IF runs[c].said > 0 THEN runs' = [runs EXCEPT ![c] = Thrown(@)] /\ UNCHANGED prefix
                         ELSE FallsBack(c)

RegularAnswers(c) ==
  /\ runs[c].at = "regular"
  /\ runs' = [runs EXCEPT ![c] = Answered(@)]
  /\ UNCHANGED prefix

RequestFails(c) ==
  /\ runs[c].at \in {"regular", "native"}
  /\ runs' = [runs EXCEPT ![c] = Thrown(@)]
  /\ UNCHANGED prefix

-----------------------------------------------------------------------------
(* A run with tools.                                                       *)

NativeBegins(c) ==
  /\ runs[c].at = "idle" /\ runs[c].tools
  /\ runs' = [runs EXCEPT ![c] = TurnStarts(@, "native")]
  /\ UNCHANGED prefix

NativeAnswers(c) ==
  /\ runs[c].at = "native"
  /\ runs' = [runs EXCEPT ![c] = Ended(@, Pieces(@))]
  /\ UNCHANGED prefix

NativeAsks(c) ==
  /\ runs[c].at = "native"
  /\ \E n \in 1..MaxAsked :
       runs' = [runs EXCEPT ![c] = [@ EXCEPT !.at = "tools", !.left = n, !.text = Pieces(runs[c]), !.said = 0]]
  /\ UNCHANGED prefix

TurnEnds(r) == IF Stops(r) THEN Ended(r, r.text) ELSE [TurnStarts(r, "native") EXCEPT !.text = <<>>]

\* A call past the limit is answered at once; it counts like any other.
ToolReturns(c) ==
  /\ runs[c].at = "tools"
  /\ LET r == [runs[c] EXCEPT !.calls = AtMost(@ + 1, MaxToolCalls + 1), !.left = @ - 1]
     IN  runs' = [runs EXCEPT ![c] = IF r.left = 0 THEN TurnEnds(r) ELSE r]
  /\ UNCHANGED prefix

-----------------------------------------------------------------------------
RunInit ==
  /\ prefix \in CacheRows
  /\ runs \in [Caller -> {NoRun(FALSE), NoRun(TRUE)}]

Proceeds(c) ==
  \/ RunBegins(c) \/ ContextCreated(c) \/ CreateFails(c) \/ ContextAnswers(c) \/ ContextFails(c)
  \/ RegularAnswers(c) \/ RequestFails(c)
  \/ NativeBegins(c) \/ NativeAnswers(c) \/ NativeAsks(c) \/ ToolReturns(c)

RunNext ==
  \/ \E c \in Caller : Proceeds(c) \/ Piece(c)
  \/ Expires \/ CooldownEnds

\* Requests and tools have timeouts, so what is awaited settles.
RunProceeds == \E c \in Caller : Proceeds(c)

RunSpec == RunInit /\ [][RunNext]_runVars /\ WF_runVars(RunProceeds)

RunTypeOK ==
  /\ prefix \in CacheRows
  /\ runs \in [Caller -> [tools : BOOLEAN, at : Places, turns : 0..(MaxModelTurns + 1),
                          calls : 0..(MaxToolCalls + 1), left : 0..MaxAsked, made : BOOLEAN,
                          said : 0..MaxPieces, shown : Texts, text : Texts]]

(* The page shows the text of one request, from its start and nothing      *)
(* twice, and when the run ends it has shown the very text that is saved,  *)
(* whichever of three places emitted it and whatever failed on the way     *)
(* (streamText, regularResponseStream, adapterProviderStream).             *)
ShownOnce ==
  \A c \in Caller : /\ runs[c].shown \in Texts
                    /\ runs[c].at = "done" => runs[c].shown = runs[c].text

(* A run that begins answers or fails, also when the model goes on asking  *)
(* for tools it may not call any more (shouldStopAfterTurn).               *)
RunEnds ==
  \A c \in Caller : (runs[c].at # "idle") ~> (runs[c].at \in {"done", "failed"})
=============================================================================
