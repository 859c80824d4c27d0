----------------------------- MODULE MemoryTools ------------------------------
(***************************************************************************)
(* lib/memory-tools.js: after the turn's own retrieval (module Recall) the *)
(* model may search the memory by queries of its own, one retrieval after  *)
(* the other, and expand what it has seen along the graph.  Both draw on   *)
(* one budget of calls, which a new turn gets anew.                        *)
(***************************************************************************)
EXTENDS Recall

CONSTANTS
  MaxQueries,      \* agentMemoryMaxQueries
  MaxMemoryCalls,  \* agentMemoryMaxCalls
  MaxToolEvents,   \* MAX_TOOL_EVENTS
  ToolFanOut       \* MAX_ENTITY_EVENT_FANOUT

ASSUME MemoryToolsAssumption ==
  {MaxQueries, MaxMemoryCalls, MaxToolEvents, ToolFanOut} \subseteq Nat

VARIABLE tools

toolVars == <<recallVars, tools>>

(* calls: callsUsed; left: how many queries of a search have not returned; *)
(* merged: the events that those before them found.                        *)
NoTools == [calls |-> 0, left |-> 0, merged |-> {}]

MemoryToolsTypeOK ==
  /\ RecallTypeOK
  /\ tools \in [calls : 0 .. MaxMemoryCalls, left : 0 .. MaxQueries, merged : SUBSET Event]

-----------------------------------------------------------------------------
(* memory_search.                                                          *)

Searching == tools.left > 0

\* A search has no planner and no filter; its words may count or order.
Plain == {q \in Question : ~q.planner /\ q.filter = "off"}

\* runBudgeted.
SpendsCall == tools.calls < MaxMemoryCalls /\ tools' = [tools EXCEPT !.calls = @ + 1]

(* The n queries that the turn has not searched before are retrieved one   *)
(* after the other, as a question is.  A call that is refused changes      *)
(* nothing that matters here, though its queries count as searched.        *)
MemorySearch(n, q) ==
  /\ recall.at = "given" /\ ~Searching /\ tools.calls < MaxMemoryCalls
  /\ tools' = [calls |-> tools.calls + 1, left |-> n, merged |-> {}]
  /\ Ask(q)

\* toolResult; the claims and edges that go with the events are left out.
ToolResult(read, events) ==
  [Forgets(recall) EXCEPT !.at = "given", !.read = read, !.matched = events,
                          !.claims = {}, !.edges = FALSE, !.status = "none"]

\* mergeRetrievals: what was found first stays when there is too much.
Merges(found) ==
  LET all  == tools.merged \cup found
      size == IF Cardinality(all) < MaxToolEvents THEN Cardinality(all) ELSE MaxToolEvents
  IN {m \in SUBSET all : tools.merged \subseteq m /\ Cardinality(m) = size}

\* The claims are read by now, and no gate assesses what was retrieved.
Retrieved == recall.at = "claims"

NextQuery(q) ==
  /\ tools.left > 1 /\ Retrieved /\ Ask(q)
  /\ \E merged \in Merges(recall.matched) :
       tools' = [tools EXCEPT !.left = @ - 1, !.merged = merged]

SearchReturns ==
  /\ tools.left = 1 /\ Retrieved
  /\ \E merged \in Merges(recall.matched) :
       recall' = ToolResult(recall.read \cup merged, merged)
  /\ tools' = [tools EXCEPT !.left = 0, !.merged = {}]
  /\ UNCHANGED <<live, standing, projected, changes>>

-----------------------------------------------------------------------------
(* memory_expand.                                                          *)

\* listGraph: event_entities and entity_edges of SQLite, of active events.
LinkedTo(n) == {e \in live : n \in About[e]}

EdgesAt(names) == {d \in Edge : d.event \in live /\ d.ends \cap names # {}}

Within(names, hops) ==
  LET Hop(ns) == ns \cup UNION {d.ends : d \in EdgesAt(ns)}
  IN CASE hops = 0 -> names [] hops = 1 -> Hop(names) [] OTHER -> Hop(Hop(names))

(* expandActiveGraph: the entities asked for and those of the events, with *)
(* all their events, unless these are too many, and the evidence of the    *)
(* edges within the hops.  All is read at once.                            *)
Expansion(ids, names, hops) ==
  LET asked  == names \cup UNION {About[e] : e \in ids \cap live}
      linked == UNION {LinkedTo(n) : n \in {m \in asked : Cardinality(LinkedTo(m)) <= ToolFanOut}}
      edges  == IF hops = 0 THEN {} ELSE EdgesAt(Within(asked, hops - 1))
  IN (ids \cap live) \cup linked \cup {d.event : d \in edges}

\* The oldest events are kept, when there are too many.
MemoryExpand(ids, names, hops) ==
  LET all  == Expansion(ids, names, hops)
      size == IF Cardinality(all) < MaxToolEvents THEN Cardinality(all) ELSE MaxToolEvents
  IN /\ recall.at = "given" /\ ~Searching /\ SpendsCall
     /\ ids # {} \/ names # {}
     /\ \E kept \in {k \in SUBSET all : Cardinality(k) = size} :
          recall' = ToolResult(live, kept)
     /\ UNCHANGED <<live, standing, projected, changes>>

-----------------------------------------------------------------------------
MemoryToolsInit == RecallInit /\ tools = NoTools

MemoryToolsNext ==
  \/ ~Searching /\ tools' = NoTools /\ \E q \in Question : Ask(q)
  \/ Retrieves /\ UNCHANGED tools
  \/ ~Searching /\ (GivesClaims \/ IsAssessed) /\ UNCHANGED tools
  \/ MemoryChanges /\ UNCHANGED tools
  \/ \E n \in 1 .. MaxQueries, q \in Plain : MemorySearch(n, q)
  \/ \E q \in Plain : NextQuery(q)
  \/ SearchReturns
  \/ \E ids \in SUBSET recall.matched, names \in SUBSET Name, hops \in 0 .. 2 :
       MemoryExpand(ids, names, hops)

MemoryToolsSpec == MemoryToolsInit /\ [][MemoryToolsNext]_toolVars
=============================================================================
