------------------------------- MODULE Recall -------------------------------
(***************************************************************************)
(* retrieveMemory of lib/memory.js and the gate behind it: what of the     *)
(* memory is given to the model with a question.  The events of the scope  *)
(* are read once; the graph, a planner, a filter and the vectors of        *)
(* follow-up questions are awaited one after the other, while the memory   *)
(* goes on changing; the claims are read last.                             *)
(*                                                                         *)
(* A step ends at an await.  The ranking is a grade for each event, which  *)
(* keeps what its thresholds tell apart:                                   *)
(*   none     not in the catalog                                           *)
(*   catalog  only similar enough for the catalog                          *)
(*   near     similar enough for its details                               *)
(*   strong   similar enough without a planner                             *)
(*   linked   found by its words or by the graph                           *)
(*   named    an entity of the question, or a member of an ordered list    *)
(*   aside    linked, but cut from the catalog by the intent or the limit  *)
(*                                                                         *)
(* An operator named for a mistake stands before the one it mistakes; no   *)
(* action uses it, the checks substitute it.                               *)
(***************************************************************************)
EXTENDS Naturals, FiniteSets

CONSTANTS
  Event,         \* events of the scope, each with one claim of its own
  Kind,          \* memory space and canonicality of each: see Kinds
  Plans,         \* events whose claim is a plan
  Name,          \* entities of the graph
  About,         \* event_entities: the entities of each event
  Edge,          \* entity_edges: [ends, event]
  FanOut,        \* GRAPH_ENTITY_EVENT_FANOUT_LIMIT
  Question,      \* questions, each with the strategy of its scene
  Ranking,       \* the grades a question may give
  MaxFollowUps,  \* plannerMaxFollowUpQueries
  TopK,          \* eventTopK
  MinFilter,     \* contextFilterMinCandidates
  MinKeep,       \* contextFilterMinKeep
  MaxWritten     \* bound: changes of the memory

Kinds == {"confirmed", "tentative", "canon", "fiction"}

Grades == {"none", "catalog", "near", "strong", "linked", "named", "aside"}

(* What a scene's profile sets; counts: the question is how many there are *)
(* in a month; ordered: it asks for an order.                              *)
Strategies == [planner : BOOLEAN, corrective : BOOLEAN, ordered : BOOLEAN, counts : BOOLEAN,
               filter : {"off", "shadow", "active"}]

ASSUME RecallAssumption ==
  /\ Kind \in [Event -> Kinds] /\ Plans \subseteq Event
  /\ About \in [Event -> SUBSET Name]
  /\ Edge \subseteq [ends : SUBSET Name, event : Event]
  /\ Question \subseteq Strategies /\ Question # {}
  /\ Ranking \subseteq [Event -> Grades]
  /\ {FanOut, MaxFollowUps, TopK, MinFilter, MinKeep, MaxWritten} \subseteq Nat
  /\ MinKeep > 0

VARIABLES
  live,       \* events that are active and have no transaction_to
  standing,   \* events whose claim is active and has no transaction_to
  projected,  \* the events that Neo4j has, since its last projection
  recall,     \* the retrieval under way, or the last one
  changes

recallVars == <<live, standing, projected, recall, changes>>

(* read and rows: what was read of SQLite and of the graph; chosen:        *)
(* selectedIds; found and worded: the chosen ones that a named entity led  *)
(* to, and those that share words with a follow-up; matched: eventMatches, *)
(* before the filter and after it.                                         *)
Retrieval ==
  [at: {"idle", "graph", "planner", "vectors", "filter", "claims", "gate", "given"},
   question: Question, read: SUBSET Event, rows: SUBSET Event, grade: [Event -> Grades],
   chosen: SUBSET Event, found: SUBSET Event, worded: SUBSET Event,
   before: SUBSET Event, matched: SUBSET Event, claims: SUBSET Event, edges: BOOLEAN,
   status: {"none", "supported", "supplemental", "partial", "conflicted", "insufficient"}]

RecallTypeOK ==
  /\ {live, standing, projected} \subseteq SUBSET Event
  /\ recall \in Retrieval
  /\ changes \in 0 .. MaxWritten

-----------------------------------------------------------------------------
(* The scored candidates of a retrieval r.                                 *)
InCatalog(r, e) == e \in r.read /\ r.grade[e] \notin {"none", "aside"}

Catalog(r) == {e \in Event : InCatalog(r, e)}

Direct(r, e) == r.grade[e] \in {"linked", "named", "aside"}

ProvisionalVectorOnly(r, e) == Kind[e] = "fiction" /\ ~Direct(r, e)

ExpansionEligible(r, e) ==
  \/ Direct(r, e)
  \/ r.grade[e] \in {"near", "strong"} /\ ~ProvisionalVectorOnly(r, e)

PlannerEligible(r, e) ==
  /\ InCatalog(r, e) /\ ~ProvisionalVectorOnly(r, e)
  /\ ExpansionEligible(r, e) \/ Kind[e] = "confirmed"

Mandatory(r) == {e \in Catalog(r) : ExpansionEligible(r, e) /\ r.grade[e] = "named"}

Strict(r) ==
  {e \in Catalog(r) : ExpansionEligible(r, e) /\ (Direct(r, e) \/ r.grade[e] = "strong")}

\* A mistake: what the graph still has is taken as it is.
KnownToTheGraph(r, events) == events

\* Only what was read of SQLite counts.
Known(r, events) == events \cap r.read

\* The events of an entity, and whether it is in too many of them.
EventsOf(r, n) == {e \in r.rows : n \in About[e]}

Specific(r, n) == Cardinality(EventsOf(r, n)) <= FanOut

(* What the entities that the planner asks for lead to, of those that the  *)
(* catalog showed it: the evidence of their edges, and the events of both  *)
(* ends.                                                                   *)
FoundFrom(r, names) ==
  LET visible == UNION {About[e] : e \in Catalog(r) \cap r.rows}
      asked   == {n \in names \cap visible : Specific(r, n)}
      edges   == {d \in Edge : d.event \in r.rows /\ d.ends \cap asked # {}}
      reached == {n \in asked \cup UNION {d.ends : d \in edges} : Specific(r, n)}
  IN Known(r, {d.event : d \in edges} \cup UNION {EventsOf(r, n) : n \in reached})

\* A mistake: what resembles a follow-up question is as good as what says it.
AnyMatch(e, words) == TRUE

\* What a follow-up question may bring by its vector alone, without its words.
FollowUpMatches(e, words) == Kind[e] \in {"tentative", "fiction"} => e \in words

(* The cut at eventTopK, direct evidence first unless the order counts;    *)
(* then the filter, if there is enough to filter.  What is not used again  *)
(* is forgotten.                                                           *)
Cut(r, events) ==
  {top \in SUBSET events :
     /\ Cardinality(top) = IF Cardinality(events) < TopK THEN Cardinality(events) ELSE TopK
     /\ \/ r.question.ordered
        \/ \A e \in events \ top, t \in top : Direct(r, e) => Direct(r, t)}

Selects(r) ==
  \E top \in Cut(r, Known(r, r.chosen)) :
    recall' = [r EXCEPT !.before = top, !.matched = top, !.rows = {}, !.chosen = {},
                 !.at = IF r.question.filter # "off" /\ Cardinality(top) >= MinFilter
                        THEN "filter" ELSE "claims"]

-----------------------------------------------------------------------------
\* The question is embedded and the events are read.
Ask(q) ==
  /\ recall.at \in {"idle", "given"}
  /\ recall' = [recall EXCEPT !.at = "graph", !.question = q, !.read = live, !.rows = {},
       !.grade = [e \in Event |-> "none"], !.chosen = {}, !.found = {}, !.worded = {},
       !.before = {}, !.matched = {}, !.claims = {}, !.edges = FALSE, !.status = "none"]
  /\ UNCHANGED <<live, standing, projected, changes>>

\* What Neo4j has, or, when it cannot be read, SQLite as it is by then.
GraphReadings == {projected, live}

\* The router and the walk through associations grade only what was read.
GradesOf(read) == {grade \in Ranking : \A e \in Event \ read : grade[e] = "none"}

(* The graph is read and the events are graded.  The planner is asked if   *)
(* it is on and has a catalog, or is to correct an empty one; else the     *)
(* strict thresholds decide.                                               *)
ReadGraph(rows, grade) ==
  LET r == [recall EXCEPT !.rows = rows, !.grade = grade]
  IN /\ recall.at = "graph"
     /\ rows \in GraphReadings /\ grade \in GradesOf(recall.read)
     /\ IF r.question.planner /\ (Catalog(r) # {} \/ r.question.corrective)
        THEN recall' = [r EXCEPT !.at = "planner"]
        ELSE Selects([r EXCEPT !.chosen = Mandatory(r) \cup Strict(r)])
     /\ UNCHANGED <<live, standing, projected, changes>>

PlannerFails ==
  /\ recall.at = "planner"
  /\ Selects([recall EXCEPT !.chosen = Mandatory(recall) \cup Strict(recall)])
  /\ UNCHANGED <<live, standing, projected, changes>>

PlannerWantsNothing ==
  /\ recall.at = "planner"
  /\ Selects([recall EXCEPT !.chosen = Mandatory(recall)])
  /\ UNCHANGED <<live, standing, projected, changes>>

(* callRetrievalPlanner: the events it asks for, the entities whose links  *)
(* it asks for, and whether it has follow-up questions.                    *)
Answers == [ids : SUBSET recall.read, names : SUBSET Name, follows : BOOLEAN]

\* The follow-up questions are embedded.
PlannerExpands(answer) ==
  LET found  == FoundFrom(recall, answer.names)
      chosen == Mandatory(recall) \cup {e \in answer.ids : PlannerEligible(recall, e)} \cup found
      r      == [recall EXCEPT !.chosen = chosen, !.found = found]
  IN /\ recall.at = "planner"
     /\ IF answer.follows /\ MaxFollowUps > 0 THEN recall' = [r EXCEPT !.at = "vectors"] ELSE Selects(r)
     /\ UNCHANGED <<live, standing, projected, changes>>

\* Each follow-up question brings its two best matches among all events read.
FollowUps(best, words) ==
  /\ recall.at = "vectors"
  /\ best \subseteq recall.read /\ words \subseteq best
  /\ \A e \in best : FollowUpMatches(e, words)
  /\ Cardinality(best) <= 2 * MaxFollowUps
  /\ Selects([recall EXCEPT !.chosen = @ \cup best, !.worded = words])
  /\ UNCHANGED <<live, standing, projected, changes>>

-----------------------------------------------------------------------------
(* callMemoryContextFilter, and what the server puts back: the direct      *)
(* evidence, a minimum, and everything when the evidence is insufficient.  *)
ProtectedEvents(r) ==
  IF r.question.ordered THEN r.matched ELSE {e \in r.matched : Direct(r, e)}

\* A mistake: what the model keeps is kept, and a minimum.
KeptByModel(r, kept) ==
  {keep \in SUBSET r.matched : kept \subseteq keep /\ Cardinality(keep) >= 1}

Readded(r, kept) ==
  LET least == kept \cup ProtectedEvents(r)
      size  == IF MinKeep < Cardinality(r.matched) THEN MinKeep ELSE Cardinality(r.matched)
  IN {keep \in SUBSET r.matched :
        /\ least \subseteq keep
        /\ Cardinality(keep) = IF Cardinality(least) < size THEN size ELSE Cardinality(least)}

\* callMemoryContextFilter keeps some of what it was given.
Proposals == SUBSET recall.matched

FilterAnswers(kept, sufficient) ==
  /\ recall.at = "filter" /\ kept \in Proposals
  /\ IF sufficient /\ recall.question.filter = "active"
     THEN \E keep \in Readded(recall, kept) : recall' = [recall EXCEPT !.at = "claims", !.matched = keep]
     ELSE recall' = [recall EXCEPT !.at = "claims"]
  /\ UNCHANGED <<live, standing, projected, changes>>

FilterFails ==
  /\ recall.at = "filter"
  /\ recall' = [recall EXCEPT !.at = "claims"]
  /\ UNCHANGED <<live, standing, projected, changes>>

\* The grades and the reasons stay in the retrieval's diagnostics.
Forgets(r) ==
  [r EXCEPT !.grade = [e \in Event |-> "none"], !.found = {}, !.worded = {}, !.before = {}]

\* The question asks how many there are in a month.
Counts(r) == r.question.counts

(* The claims that stand by now: those of the events that were selected,   *)
(* and the others that the question or a follow-up finds; and whether an   *)
(* edge of the graph goes with them.  What is counted is known; without    *)
(* any evidence the model is not asked.                                    *)
ReadClaims(others, edges) ==
  LET r == [Forgets(recall) EXCEPT !.claims = standing \cap (recall.matched \cup others),
                                   !.edges = edges]
  IN /\ recall.at = "claims"
     /\ \/ /\ Counts(r)
           /\ recall' = [r EXCEPT !.at = "given", !.status = "supported"]
        \/ /\ ~Counts(r) /\ r.claims \cup r.matched = {} /\ ~edges
           /\ recall' = [r EXCEPT !.at = "given", !.status = "insufficient"]
        \/ /\ ~Counts(r) /\ (r.claims \cup r.matched # {} \/ edges)
           /\ recall' = [r EXCEPT !.at = "gate"]
     /\ UNCHANGED <<live, standing, projected, changes>>

-----------------------------------------------------------------------------
(* assessMemoryAnswerability: what the model finds, corrected: a conflict  *)
(* counts before all else, plans alone do not prove, and nor does nothing. *)
(* supports and conflicts: whether it names a claim that it was given.     *)
Corrected(r, status, supports, conflicts) ==
  CASE conflicts -> "conflicted"
    [] ~conflicts /\ status = "supported" /\ r.claims # {} /\ r.claims \subseteq Plans -> "partial"
    [] ~conflicts /\ status = "supported" /\ ~supports /\ r.matched = {} /\ ~r.edges -> "insufficient"
    [] OTHER -> status

Assess(status, supports, conflicts) ==
  /\ recall.at = "gate" /\ (recall.claims = {} => ~supports /\ ~conflicts)
  /\ status \in {"supported", "supplemental", "partial", "conflicted", "insufficient"}
  /\ recall' = [recall EXCEPT !.at = "given", !.status = Corrected(recall, status, supports, conflicts)]
  /\ UNCHANGED <<live, standing, projected, changes>>

AssessFails ==
  /\ recall.at = "gate"
  /\ recall' = [recall EXCEPT !.at = "given", !.status = "insufficient"]
  /\ UNCHANGED <<live, standing, projected, changes>>

-----------------------------------------------------------------------------
(* The memory changes meanwhile: an event ends, with its claim or after    *)
(* it, and Neo4j follows later.                                            *)
Writes == changes < MaxWritten /\ changes' = changes + 1

EventEnds(e) ==
  /\ Writes /\ e \in live
  /\ live' = live \ {e} /\ standing' = standing \ {e}
  /\ UNCHANGED <<projected, recall>>

ClaimEnds(e) ==
  /\ Writes /\ e \in standing
  /\ standing' = standing \ {e}
  /\ UNCHANGED <<live, projected, recall>>

Projects ==
  /\ projected # live
  /\ projected' = live
  /\ UNCHANGED <<live, standing, recall, changes>>

-----------------------------------------------------------------------------
RecallInit ==
  /\ live = Event /\ standing = Event /\ projected = Event
  /\ recall = [at |-> "idle", question |-> CHOOSE q \in Question : TRUE, read |-> {}, rows |-> {},
       grade |-> [e \in Event |-> "none"], chosen |-> {}, found |-> {}, worded |-> {},
       before |-> {}, matched |-> {}, claims |-> {}, edges |-> FALSE, status |-> "none"]
  /\ changes = 0

\* The steps of a retrieval, of the gate behind it, and of others.
Retrieves ==
  \/ \E rows \in GraphReadings, grade \in GradesOf(recall.read) : ReadGraph(rows, grade)
  \/ PlannerFails
  \/ PlannerWantsNothing
  \/ \E answer \in Answers : PlannerExpands(answer)
  \/ \E best \in SUBSET recall.read : \E words \in SUBSET best : FollowUps(best, words)
  \/ \E kept \in Proposals, sufficient \in BOOLEAN : FilterAnswers(kept, sufficient)
  \/ FilterFails

GivesClaims == \E others \in SUBSET Event, edges \in BOOLEAN : ReadClaims(others, edges)

IsAssessed ==
  \/ \E status \in {"supported", "supplemental", "partial", "conflicted", "insufficient"},
        supports, conflicts \in BOOLEAN : Assess(status, supports, conflicts)
  \/ AssessFails

MemoryChanges ==
  \/ \E e \in Event : EventEnds(e) \/ ClaimEnds(e)
  \/ Projects

RecallNext ==
  (\E q \in Question : Ask(q)) \/ Retrieves \/ GivesClaims \/ IsAssessed \/ MemoryChanges

RecallSpec == RecallInit /\ [][RecallNext]_recallVars

-----------------------------------------------------------------------------
(* Properties.                                                             *)

\* Neo4j may be behind: it brings back nothing that ended before the question.
NothingRevived == recall.matched \subseteq recall.read

(* A scene of a story that was never confirmed is not given for being      *)
(* similar: the question, a follow-up or a named entity must lead to it.   *)
ResemblanceIsNoReason ==
  recall.at = "claims" => \A e \in recall.matched : Kind[e] = "fiction" =>
    Direct(recall, e) \/ e \in recall.found \cup recall.worded

\* Plans alone never support an answer that is not a count.
PlansProveNothing ==
  recall.status = "supported" /\ ~recall.question.counts => recall.claims = {} \/ ~(recall.claims \subseteq Plans)

(* What is given to the model is there for a reason, by whichever of its   *)
(* ways it came: the thresholds, the planner, the graph, a follow-up       *)
(* question (retrieveMemory, assessMemoryAnswerability).                   *)
GivenForAReason ==
  /\ NothingRevived
  /\ ResemblanceIsNoReason
  /\ PlansProveNothing

(* The model's filter takes away no direct evidence that made the cut,     *)
(* and no member of an ordered list, whatever it keeps and however it      *)
(* fails (retrieveMemory, callMemoryContextFilter).                        *)
DirectEvidenceIsKept ==
  \A e \in recall.before : Direct(recall, e) \/ recall.question.ordered => e \in recall.matched
=============================================================================
