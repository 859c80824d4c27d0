---------------------------- MODULE RecallProofs ----------------------------
(***************************************************************************)
(* Proofs about Recall and the MemoryTools over it, for any events, grades,*)
(* questions, graphs and limits: types, that what is given to the model is *)
(* there for a reason, and that no direct evidence is filtered away.       *)
(***************************************************************************)
EXTENDS MemoryTools, TLAPS

\* What led to an event that resemblance alone would not bring.
Reason(r, e) == Direct(r, e) \/ e \in r.found \cup r.worded

Reasoned(r, events) == \A e \in events : Kind[e] = "fiction" => Reason(r, e)

(* What holds of a retrieval r between its awaits: what it matched was     *)
(* read, every fiction on its way has its reason, what the filter was      *)
(* given is what was matched and then all of it that must stay, and there  *)
(* is no status before the end.                                            *)
RetrievalInv(r) ==
  /\ r.matched \subseteq r.read
  /\ r.at \in {"graph", "planner", "vectors"} => r.worded = {}
  /\ r.at = "vectors" => Reasoned(r, r.chosen)
  /\ r.at \in {"filter", "claims"} => Reasoned(r, r.matched)
  /\ r.at = "filter" => r.before = r.matched
  /\ r.at \notin {"filter", "claims"} => r.before = {}
  /\ \A e \in r.before : Direct(r, e) \/ r.question.ordered => e \in r.matched
  /\ r.at # "given" => r.status = "none"
  /\ r.status = "supported" /\ ~r.question.counts => r.claims = {} \/ ~(r.claims \subseteq Plans)

RecallInv == RecallTypeOK /\ RetrievalInv(recall)

Right(r) == r \in Retrieval /\ RetrievalInv(r)

-----------------------------------------------------------------------------
(* What is chosen, by each of the ways, has its reason.                    *)

LEMMA CatalogRead ==
  ASSUME NEW r PROVE Catalog(r) \subseteq r.read /\ Catalog(r) \subseteq Event
BY DEF Catalog, InCatalog

LEMMA MandatoryReasoned ==
  ASSUME NEW r PROVE Mandatory(r) \subseteq Event /\ Reasoned(r, Mandatory(r))
BY CatalogRead DEF Mandatory, Reasoned, Reason, Direct

LEMMA StrictReasoned ==
  ASSUME NEW r PROVE Strict(r) \subseteq Event /\ Reasoned(r, Strict(r))
BY CatalogRead DEF Strict, Reasoned, Reason, ExpansionEligible, ProvisionalVectorOnly

LEMMA PlannedReasoned ==
  ASSUME NEW r, NEW e, PlannerEligible(r, e), Kind[e] = "fiction"
  PROVE  Direct(r, e)
BY DEF PlannerEligible, ProvisionalVectorOnly

LEMMA FoundRead ==
  ASSUME NEW r, NEW names PROVE FoundFrom(r, names) \subseteq r.read
BY DEF FoundFrom, Known

\* A cut of events that have their reasons, at either end of the filter.
LEMMA SelectsRight ==
  ASSUME NEW r \in Retrieval, r.status = "none", Reasoned(r, r.chosen), Selects(r)
  PROVE  Right(recall')
<1> DEFINE at == IF r.question.filter # "off" THEN {"filter", "claims"} ELSE {"claims"}
<1>1. PICK top \in Cut(r, Known(r, r.chosen)) :
        recall' = [r EXCEPT !.before = top, !.matched = top, !.rows = {}, !.chosen = {},
                     !.at = IF r.question.filter # "off" /\ Cardinality(top) >= MinFilter
                            THEN "filter" ELSE "claims"]
  BY DEF Selects
<1>2. top \subseteq r.read /\ top \subseteq r.chosen
  BY DEF Cut, Known
<1>3. PICK w \in {"filter", "claims"} :
        recall' = [r EXCEPT !.before = top, !.matched = top, !.rows = {}, !.chosen = {}, !.at = w]
  BY <1>1
<1>4. recall' \in Retrieval
  BY <1>2, <1>3 DEF Retrieval
<1>5. /\ recall'.at = w /\ recall'.matched = top /\ recall'.before = top
      /\ recall'.read = r.read /\ recall'.grade = r.grade
      /\ recall'.found = r.found /\ recall'.worded = r.worded
      /\ recall'.status = "none"
  BY <1>3 DEF Retrieval
<1>6. Reasoned(recall', top)
  BY <1>2, <1>5 DEF Reasoned, Reason, Direct
<1> QED BY <1>2, <1>4, <1>5, <1>6 DEF Right, RetrievalInv

LEMMA AskRight ==
  ASSUME RecallInv, NEW q \in Question, Ask(q)
  PROVE  Right(recall')
<1>1. /\ live \subseteq Event
      /\ recall \in Retrieval
  BY DEF RecallInv, RecallTypeOK
<1>2. [e \in Event |-> "none"] \in [Event -> Grades]
  BY DEF Grades
<1>3. recall' \in Retrieval
  BY <1>1, <1>2 DEF Ask, Retrieval
<1>4. /\ recall'.at = "graph" /\ recall'.matched = {} /\ recall'.before = {}
      /\ recall'.status = "none" /\ recall'.worded = {}
  BY <1>1 DEF Ask, Retrieval
<1> QED BY <1>3, <1>4 DEF Right, RetrievalInv

LEMMA ReadGraphRight ==
  ASSUME RecallInv, NEW rows \in GraphReadings, NEW grade \in GradesOf(recall.read),
         ReadGraph(rows, grade)
  PROVE  Right(recall')
<1> DEFINE r == [recall EXCEPT !.rows = rows, !.grade = grade]
<1>1. recall \in Retrieval /\ RetrievalInv(recall) /\ recall.at = "graph"
  BY DEF RecallInv, RecallTypeOK, ReadGraph
<1>2. rows \subseteq Event /\ grade \in [Event -> Grades]
  BY RecallAssumption DEF RecallAssumption, GraphReadings, GradesOf, RecallInv, RecallTypeOK
<1>3. r \in Retrieval
  BY <1>1, <1>2 DEF Retrieval
<1>4. /\ r.status = "none" /\ r.before = {} /\ r.matched = recall.matched
      /\ r.read = recall.read /\ r.worded = {}
  BY <1>1, <1>3 DEF RetrievalInv, Retrieval
<1>5. CASE r.question.planner /\ (Catalog(r) # {} \/ r.question.corrective)
  <2>1. recall' = [r EXCEPT !.at = "planner"]
    BY <1>5 DEF ReadGraph
  <2> HIDE DEF r
  <2>2. recall' \in Retrieval
    BY <1>3, <2>1 DEF Retrieval
  <2>3. /\ recall'.at = "planner" /\ recall'.status = "none" /\ recall'.before = {}
        /\ recall'.matched = r.matched /\ recall'.read = r.read /\ recall'.worded = {}
    BY <1>3, <1>4, <2>1 DEF Retrieval
  <2> QED BY <1>1, <1>4, <2>2, <2>3 DEF Right, RetrievalInv
<1>6. CASE ~(r.question.planner /\ (Catalog(r) # {} \/ r.question.corrective))
  <2> DEFINE s == [r EXCEPT !.chosen = Mandatory(r) \cup Strict(r)]
  <2>1. Selects(s)
    BY <1>6 DEF ReadGraph
  <2> HIDE DEF r
  <2>2. /\ s \in Retrieval /\ s.status = "none" /\ s.chosen = Mandatory(r) \cup Strict(r)
        /\ s.grade = r.grade /\ s.found = r.found /\ s.worded = r.worded
    BY <1>3, <1>4, MandatoryReasoned, StrictReasoned DEF Retrieval
  <2>3. Reasoned(s, s.chosen)
    BY <2>2, MandatoryReasoned, StrictReasoned DEF Reasoned, Reason, Direct
  <2> HIDE DEF s
  <2> QED BY <2>1, <2>2, <2>3, SelectsRight
<1> QED BY <1>5, <1>6

\* The thresholds decide, with the planner's silence or its failure.
LEMMA ChosenRight ==
  ASSUME RecallInv, recall.at = "planner",
         NEW events, events \subseteq Event, Reasoned(recall, events),
         Selects([recall EXCEPT !.chosen = events])
  PROVE  Right(recall')
<1> DEFINE s == [recall EXCEPT !.chosen = events]
<1>1. recall \in Retrieval /\ recall.status = "none"
  BY DEF RecallInv, RecallTypeOK, RetrievalInv
<1>2. /\ s \in Retrieval /\ s.status = "none" /\ s.chosen = events
      /\ s.grade = recall.grade /\ s.found = recall.found /\ s.worded = recall.worded
  BY <1>1 DEF Retrieval
<1>3. Reasoned(s, s.chosen)
  BY <1>2 DEF Reasoned, Reason, Direct
<1>4. Selects(s)
  OBVIOUS
<1> HIDE DEF s
<1> QED BY <1>2, <1>3, <1>4, SelectsRight

LEMMA PlannerExpandsRight ==
  ASSUME RecallInv, NEW answer \in Answers, PlannerExpands(answer)
  PROVE  Right(recall')
<1> DEFINE found  == FoundFrom(recall, answer.names)
           chosen == Mandatory(recall) \cup {e \in answer.ids : PlannerEligible(recall, e)} \cup found
           r      == [recall EXCEPT !.chosen = chosen, !.found = found]
<1>1. recall \in Retrieval /\ RetrievalInv(recall) /\ recall.at = "planner"
  BY DEF RecallInv, RecallTypeOK, PlannerExpands
<1>2. recall.read \subseteq Event /\ answer.ids \subseteq recall.read
  BY <1>1 DEF Retrieval, Answers
<1>3. found \subseteq Event /\ chosen \subseteq Event
  BY <1>2, FoundRead, MandatoryReasoned
<1>4. /\ IF answer.follows /\ MaxFollowUps > 0 THEN recall' = [r EXCEPT !.at = "vectors"] ELSE Selects(r)
  BY DEF PlannerExpands
<1>5. \A e \in chosen : Kind[e] = "fiction" => Direct(recall, e) \/ e \in found
  <2>1. \A e \in Mandatory(recall) : Direct(recall, e)
    BY DEF Mandatory, Direct
  <2> QED BY <2>1, PlannedReasoned
<1> HIDE DEF found, chosen
<1>6. /\ r \in Retrieval /\ r.chosen = chosen /\ r.found = found /\ r.grade = recall.grade
      /\ r.worded = {} /\ r.status = "none" /\ r.before = {} /\ r.matched = recall.matched
      /\ r.read = recall.read
  BY <1>1, <1>3 DEF Retrieval, RetrievalInv
<1>7. Reasoned(r, chosen)
  BY <1>5, <1>6 DEF Reasoned, Reason, Direct
<1> HIDE DEF r
<1>8. CASE answer.follows /\ MaxFollowUps > 0
  <2>1. recall' = [r EXCEPT !.at = "vectors"]
    BY <1>4, <1>8
  <2>2. recall' \in Retrieval
    BY <1>6, <2>1 DEF Retrieval
  <2>3. /\ recall'.at = "vectors" /\ recall'.status = "none" /\ recall'.before = {}
        /\ recall'.matched = r.matched /\ recall'.read = r.read /\ recall'.grade = r.grade
        /\ recall'.found = r.found /\ recall'.worded = {} /\ recall'.chosen = chosen
    BY <1>6, <2>1 DEF Retrieval
  <2>4. Reasoned(recall', chosen)
    BY <1>7, <1>6, <2>3 DEF Reasoned, Reason, Direct
  <2> QED BY <1>1, <1>6, <2>2, <2>3, <2>4 DEF Right, RetrievalInv
<1>9. CASE ~(answer.follows /\ MaxFollowUps > 0)
  BY <1>4, <1>6, <1>7, <1>9, SelectsRight
<1> QED BY <1>8, <1>9

LEMMA FollowUpsRight ==
  ASSUME RecallInv, NEW best, NEW words, FollowUps(best, words)
  PROVE  Right(recall')
<1> DEFINE r == [recall EXCEPT !.chosen = recall.chosen \cup best, !.worded = words]
<1>1. /\ recall \in Retrieval /\ RetrievalInv(recall) /\ recall.at = "vectors"
      /\ best \subseteq recall.read /\ words \subseteq best
      /\ \A e \in best : FollowUpMatches(e, words)
      /\ Selects(r)
  BY DEF RecallInv, RecallTypeOK, FollowUps
<1>2. /\ r \in Retrieval /\ r.chosen = recall.chosen \cup best /\ r.worded = words
      /\ r.found = recall.found /\ r.grade = recall.grade /\ r.status = "none"
  BY <1>1 DEF Retrieval, RetrievalInv
<1>3. Reasoned(recall, recall.chosen) /\ recall.worded = {}
  BY <1>1 DEF RetrievalInv
<1>4. \A e \in best : Kind[e] = "fiction" => e \in words
  BY <1>1 DEF FollowUpMatches
<1> HIDE DEF r
<1>5. Reasoned(r, r.chosen)
  BY <1>2, <1>3, <1>4 DEF Reasoned, Reason, Direct
<1> QED BY <1>1, <1>2, <1>5, SelectsRight

\* The filter takes away what it may, or nothing.
LEMMA FilterRight ==
  ASSUME RecallInv, recall.at = "filter",
         \/ recall' = [recall EXCEPT !.at = "claims"]
         \/ \E kept \in Proposals : \E keep \in Readded(recall, kept) :
              recall' = [recall EXCEPT !.at = "claims", !.matched = keep]
  PROVE  Right(recall')
<1>1. recall \in Retrieval /\ RetrievalInv(recall)
  BY DEF RecallInv, RecallTypeOK
<1>2. \E keep \in SUBSET recall.matched :
        /\ \A e \in recall.matched : Direct(recall, e) \/ recall.question.ordered => e \in keep
        /\ recall' = [recall EXCEPT !.at = "claims", !.matched = keep]
  <2>1. CASE recall' = [recall EXCEPT !.at = "claims"]
    <3>1. recall' = [recall EXCEPT !.at = "claims", !.matched = recall.matched]
      BY <1>1, <2>1 DEF Retrieval
    <3> QED BY <3>1
  <2>2. CASE \E kept \in Proposals : \E keep \in Readded(recall, kept) :
               recall' = [recall EXCEPT !.at = "claims", !.matched = keep]
    <3>0. PICK kept \in Proposals : \E keep \in Readded(recall, kept) :
            recall' = [recall EXCEPT !.at = "claims", !.matched = keep]
      BY <2>2
    <3>1. PICK keep \in Readded(recall, kept) :
            recall' = [recall EXCEPT !.at = "claims", !.matched = keep]
      BY <3>0
    <3>2. keep \in SUBSET recall.matched /\ ProtectedEvents(recall) \subseteq keep
      BY DEF Readded
    <3>3. \A e \in recall.matched : Direct(recall, e) \/ recall.question.ordered => e \in keep
      BY <3>2 DEF ProtectedEvents
    <3> QED BY <3>1, <3>2, <3>3
  <2> QED BY <2>1, <2>2
<1>3. PICK keep \in SUBSET recall.matched :
        /\ \A e \in recall.matched : Direct(recall, e) \/ recall.question.ordered => e \in keep
        /\ recall' = [recall EXCEPT !.at = "claims", !.matched = keep]
  BY <1>2
<1>4. recall' \in Retrieval
  BY <1>1, <1>3 DEF Retrieval
<1>5. /\ recall'.at = "claims" /\ recall'.matched = keep /\ recall'.before = recall.matched
      /\ recall'.read = recall.read /\ recall'.grade = recall.grade /\ recall'.status = "none"
      /\ recall'.found = recall.found /\ recall'.worded = recall.worded
      /\ recall'.question = recall.question
  BY <1>1, <1>3 DEF Retrieval, RetrievalInv
<1>6. Reasoned(recall', keep)
  BY <1>1, <1>5 DEF RetrievalInv, Reasoned, Reason, Direct
<1>7. \A e \in recall'.before : Direct(recall', e) \/ recall'.question.ordered => e \in recall'.matched
  BY <1>3, <1>5 DEF Direct
<1> QED BY <1>1, <1>4, <1>5, <1>6, <1>7 DEF Right, RetrievalInv

LEMMA RetrievesRight ==
  ASSUME RecallInv, Retrieves
  PROVE  Right(recall')
<1>1. CASE \E rows \in GraphReadings, grade \in GradesOf(recall.read) : ReadGraph(rows, grade)
  BY <1>1, ReadGraphRight
<1>2. CASE PlannerFails
  <2>1. Reasoned(recall, Mandatory(recall) \cup Strict(recall))
    BY MandatoryReasoned, StrictReasoned DEF Reasoned
  <2> QED BY <1>2, <2>1, MandatoryReasoned, StrictReasoned, ChosenRight DEF PlannerFails
<1>3. CASE PlannerWantsNothing
  BY <1>3, MandatoryReasoned, ChosenRight DEF PlannerWantsNothing
<1>4. CASE \E answer \in Answers : PlannerExpands(answer)
  BY <1>4, PlannerExpandsRight
<1>5. CASE \E best \in SUBSET recall.read : \E words \in SUBSET best : FollowUps(best, words)
  BY <1>5, FollowUpsRight
<1>6. CASE \E kept \in Proposals, sufficient \in BOOLEAN : FilterAnswers(kept, sufficient)
  BY <1>6, FilterRight DEF FilterAnswers
<1>7. CASE FilterFails
  BY <1>7, FilterRight DEF FilterFails
<1> QED BY <1>1, <1>2, <1>3, <1>4, <1>5, <1>6, <1>7 DEF Retrieves

-----------------------------------------------------------------------------
(* The claims and the gate.                                                *)

LEMMA Forgotten ==
  ASSUME NEW r \in Retrieval
  PROVE  /\ Forgets(r) \in Retrieval
         /\ Forgets(r).before = {} /\ Forgets(r).worded = {}
         /\ Forgets(r).matched = r.matched /\ Forgets(r).read = r.read
         /\ Forgets(r).question = r.question /\ Forgets(r).status = r.status
<1>1. [e \in Event |-> "none"] \in [Event -> Grades]
  BY DEF Grades
<1> QED BY <1>1 DEF Forgets, Retrieval

LEMMA GivesClaimsRight ==
  ASSUME RecallInv, GivesClaims
  PROVE  Right(recall')
<1>1. PICK others \in SUBSET Event, edges \in BOOLEAN : ReadClaims(others, edges)
  BY DEF GivesClaims
<1> DEFINE f == Forgets(recall)
           r == [f EXCEPT !.claims = standing \cap (recall.matched \cup others), !.edges = edges]
<1>2. /\ recall \in Retrieval /\ RetrievalInv(recall) /\ recall.at = "claims"
      /\ standing \subseteq Event
  BY <1>1 DEF RecallInv, RecallTypeOK, ReadClaims
<1>3. f \in Retrieval /\ f.before = {} /\ f.worded = {} /\ f.matched \subseteq f.read /\ f.status = "none"
  BY <1>2, Forgotten DEF RetrievalInv
<1>4. \/ /\ Counts(r)
         /\ recall' = [r EXCEPT !.at = "given", !.status = "supported"]
      \/ recall' = [r EXCEPT !.at = "given", !.status = "insufficient"]
      \/ recall' = [r EXCEPT !.at = "gate"]
  BY <1>1 DEF ReadClaims
<1> HIDE DEF f
<1>5. /\ r \in Retrieval /\ r.before = {} /\ r.matched \subseteq r.read /\ r.status = "none"
  BY <1>2, <1>3 DEF Retrieval
<1> HIDE DEF r
<1>6. CASE Counts(r) /\ recall' = [r EXCEPT !.at = "given", !.status = "supported"]
  <2>1. recall' \in Retrieval /\ recall'.question = r.question /\ recall'.question.counts
    BY <1>5, <1>6 DEF Retrieval, Counts
  <2>2. recall'.at = "given" /\ recall'.before = {} /\ recall'.matched \subseteq recall'.read
    BY <1>5, <1>6 DEF Retrieval
  <2> QED BY <2>1, <2>2 DEF Right, RetrievalInv
<1>7. CASE recall' = [r EXCEPT !.at = "given", !.status = "insufficient"]
  <2>1. /\ recall' \in Retrieval /\ recall'.at = "given" /\ recall'.before = {}
        /\ recall'.matched \subseteq recall'.read /\ recall'.status = "insufficient"
    BY <1>5, <1>7 DEF Retrieval
  <2> QED BY <2>1 DEF Right, RetrievalInv
<1>8. CASE recall' = [r EXCEPT !.at = "gate"]
  <2>1. /\ recall' \in Retrieval /\ recall'.at = "gate" /\ recall'.before = {}
        /\ recall'.matched \subseteq recall'.read /\ recall'.status = "none"
    BY <1>5, <1>8 DEF Retrieval
  <2> QED BY <2>1 DEF Right, RetrievalInv
<1> QED BY <1>4, <1>6, <1>7, <1>8

\* Whatever the model finds, plans alone are corrected.
LEMMA CorrectedRight ==
  ASSUME NEW r, NEW status \in {"supported", "supplemental", "partial", "conflicted", "insufficient"},
         NEW supports \in BOOLEAN, NEW conflicts \in BOOLEAN
  PROVE  /\ Corrected(r, status, supports, conflicts)
              \in {"supported", "supplemental", "partial", "conflicted", "insufficient"}
         /\ Corrected(r, status, supports, conflicts) = "supported"
              => r.claims = {} \/ ~(r.claims \subseteq Plans)
BY DEF Corrected

LEMMA IsAssessedRight ==
  ASSUME RecallInv, IsAssessed
  PROVE  Right(recall')
<1>1. recall \in Retrieval /\ RetrievalInv(recall) /\ recall.at = "gate"
  BY DEF RecallInv, RecallTypeOK, IsAssessed, Assess, AssessFails
<1>2. PICK s \in {"supported", "supplemental", "partial", "conflicted", "insufficient"} :
        /\ recall' = [recall EXCEPT !.at = "given", !.status = s]
        /\ s = "supported" => recall.claims = {} \/ ~(recall.claims \subseteq Plans)
  <2>1. CASE AssessFails
    BY <2>1 DEF AssessFails
  <2>2. ASSUME NEW status \in {"supported", "supplemental", "partial", "conflicted", "insufficient"},
               NEW supports \in BOOLEAN, NEW conflicts \in BOOLEAN,
               Assess(status, supports, conflicts)
        PROVE  \E s \in {"supported", "supplemental", "partial", "conflicted", "insufficient"} :
                 /\ recall' = [recall EXCEPT !.at = "given", !.status = s]
                 /\ s = "supported" => recall.claims = {} \/ ~(recall.claims \subseteq Plans)
    <3> DEFINE s == Corrected(recall, status, supports, conflicts)
    <3>1. recall' = [recall EXCEPT !.at = "given", !.status = s]
      BY <2>2 DEF Assess
    <3>2. /\ s \in {"supported", "supplemental", "partial", "conflicted", "insufficient"}
          /\ s = "supported" => recall.claims = {} \/ ~(recall.claims \subseteq Plans)
      BY CorrectedRight
    <3> HIDE DEF s
    <3> QED BY <3>1, <3>2
  <2> QED BY <2>1, <2>2 DEF IsAssessed
<1>3. /\ recall' \in Retrieval /\ recall'.at = "given" /\ recall'.status = s
      /\ recall'.before = {} /\ recall'.matched \subseteq recall'.read
      /\ recall'.claims = recall.claims
  BY <1>1, <1>2 DEF Retrieval, RetrievalInv
<1> QED BY <1>2, <1>3 DEF Right, RetrievalInv

-----------------------------------------------------------------------------
(* The steps, and the retrievals that the tools make.                      *)

LEMMA MemoryTyped ==
  ASSUME RecallInv, MemoryChanges
  PROVE  RecallInv'
<1>1. /\ {live, standing, projected} \subseteq SUBSET Event /\ recall \in Retrieval
      /\ RetrievalInv(recall) /\ changes \in 0 .. MaxWritten /\ MaxWritten \in Nat
  BY RecallAssumption DEF RecallAssumption, RecallInv, RecallTypeOK
<1>2. recall' = recall
  BY DEF MemoryChanges, EventEnds, ClaimEnds, Projects
<1>3. {live, standing, projected}' \subseteq SUBSET Event
  BY <1>1 DEF MemoryChanges, EventEnds, ClaimEnds, Projects
<1>4. changes' \in 0 .. MaxWritten
  BY <1>1 DEF MemoryChanges, EventEnds, ClaimEnds, Projects, Writes
<1>5. RetrievalInv(recall)'
  BY <1>1, <1>2 DEF RetrievalInv, Reasoned, Reason, Direct
<1> QED BY <1>1, <1>2, <1>3, <1>4, <1>5 DEF RecallInv, RecallTypeOK, Retrieval

LEMMA OthersStay ==
  ASSUME RecallInv, Right(recall'), UNCHANGED <<live, standing, projected, changes>>
  PROVE  RecallInv'
BY DEF RecallInv, RecallTypeOK, Right, Retrieval, RetrievalInv, Reasoned, Reason, Direct

LEMMA RecallInitRight == RecallInit => RecallInv
<1> SUFFICES ASSUME RecallInit PROVE RecallInv
  OBVIOUS
<1>1. (CHOOSE q \in Question : TRUE) \in Question
  BY RecallAssumption DEF RecallAssumption
<1>2. [e \in Event |-> "none"] \in [Event -> Grades]
  BY DEF Grades
<1>3. recall \in Retrieval
  BY <1>1, <1>2 DEF RecallInit, Retrieval
<1>4. recall.at = "idle" /\ recall.before = {} /\ recall.matched = {} /\ recall.status = "none"
  BY DEF RecallInit
<1>5. 0 \in 0 .. MaxWritten
  BY RecallAssumption DEF RecallAssumption
<1> QED BY <1>3, <1>4, <1>5 DEF RecallInit, RecallInv, RecallTypeOK, RetrievalInv

LEMMA RecallInvKept == RecallInv /\ [RecallNext]_recallVars => RecallInv'
<1> SUFFICES ASSUME RecallInv, [RecallNext]_recallVars PROVE RecallInv'
  OBVIOUS
<1>1. CASE \E q \in Question : Ask(q)
  BY <1>1, AskRight, OthersStay DEF Ask
<1>2. CASE Retrieves
  <2>1. UNCHANGED <<live, standing, projected, changes>>
    BY <1>2 DEF Retrieves, ReadGraph, PlannerFails, PlannerWantsNothing, PlannerExpands, FollowUps,
                FilterAnswers, FilterFails
  <2> QED BY <1>2, <2>1, RetrievesRight, OthersStay
<1>3. CASE GivesClaims
  BY <1>3, GivesClaimsRight, OthersStay DEF GivesClaims, ReadClaims
<1>4. CASE IsAssessed
  <2>1. UNCHANGED <<live, standing, projected, changes>>
    BY <1>4 DEF IsAssessed, Assess, AssessFails
  <2> QED BY <1>4, <2>1, IsAssessedRight, OthersStay
<1>5. CASE MemoryChanges
  BY <1>5, MemoryTyped
<1>6. CASE UNCHANGED recallVars
  <2>1. Right(recall') /\ UNCHANGED <<live, standing, projected, changes>>
    BY <1>6 DEF recallVars, RecallInv, RecallTypeOK, Right
  <2> QED BY <2>1, OthersStay
<1> QED BY <1>1, <1>2, <1>3, <1>4, <1>5, <1>6 DEF RecallNext

LEMMA RecallProperties == RecallInv => GivenForAReason /\ DirectEvidenceIsKept
BY DEF RecallInv, RetrievalInv, GivenForAReason, NothingRevived, ResemblanceIsNoReason,
       PlansProveNothing, DirectEvidenceIsKept, Reasoned, Reason

\* What a tool returns is for itself: nothing is left of the retrievals before.
LEMMA ToolResultRight ==
  ASSUME RecallInv, NEW read, read \subseteq Event, NEW events, events \subseteq read
  PROVE  Right(ToolResult(read, events))
<1> DEFINE f == Forgets(recall)
           r == [f EXCEPT !.at = "given", !.read = read, !.matched = events,
                          !.claims = {}, !.edges = FALSE, !.status = "none"]
<1>1. f \in Retrieval /\ f.before = {}
  BY Forgotten DEF RecallInv, RecallTypeOK
<1> HIDE DEF f
<1>2. /\ r \in Retrieval /\ r.at = "given" /\ r.before = {} /\ r.matched = events
      /\ r.read = read /\ r.status = "none"
  BY <1>1 DEF Retrieval
<1>3. RetrievalInv(r)
  BY <1>2 DEF RetrievalInv
<1> QED BY <1>2, <1>3 DEF Right, ToolResult, f

\* An expansion reaches events that are active, and no others.
LEMMA ExpansionActive ==
  ASSUME NEW ids, NEW names, NEW hops
  PROVE  Expansion(ids, names, hops) \subseteq live
BY DEF Expansion, LinkedTo, EdgesAt

ToolsInv == RecallInv /\ MemoryToolsTypeOK

LEMMA MergesTyped ==
  ASSUME ToolsInv, NEW merged \in Merges(recall.matched)
  PROVE  merged \subseteq Event
BY DEF ToolsInv, MemoryToolsTypeOK, RecallTypeOK, Retrieval, Merges

LEMMA ToolsInvKept == ToolsInv /\ [MemoryToolsNext]_toolVars => ToolsInv'
<1> SUFFICES ASSUME ToolsInv, [MemoryToolsNext]_toolVars PROVE ToolsInv'
  OBVIOUS
<1> DEFINE ToolsRow == [calls : 0 .. MaxMemoryCalls, left : 0 .. MaxQueries, merged : SUBSET Event]
<1>0. RecallInv /\ tools \in ToolsRow /\ MaxMemoryCalls \in Nat /\ MaxQueries \in Nat
  BY MemoryToolsAssumption DEF MemoryToolsAssumption, ToolsInv, MemoryToolsTypeOK
<1>a. SUFFICES RecallInv' /\ tools' \in ToolsRow
  BY DEF ToolsInv, MemoryToolsTypeOK, RecallInv
<1>1. CASE ~Searching /\ tools' = NoTools /\ \E q \in Question : Ask(q)
  BY <1>0, <1>1, RecallInvKept DEF RecallNext, NoTools
<1>2. CASE Retrieves /\ UNCHANGED tools
  BY <1>0, <1>2, RecallInvKept DEF RecallNext
<1>3. CASE ~Searching /\ (GivesClaims \/ IsAssessed) /\ UNCHANGED tools
  BY <1>0, <1>3, RecallInvKept DEF RecallNext
<1>4. CASE MemoryChanges /\ UNCHANGED tools
  BY <1>0, <1>4, MemoryTyped
<1>5. ASSUME NEW n \in 1 .. MaxQueries, NEW q \in Plain, MemorySearch(n, q) PROVE RecallInv' /\ tools' \in ToolsRow
  <2>1. tools' = [calls |-> tools.calls + 1, left |-> n, merged |-> {}] /\ tools.calls < MaxMemoryCalls
    BY <1>5 DEF MemorySearch
  <2>2. tools.calls + 1 \in 0 .. MaxMemoryCalls /\ n \in 0 .. MaxQueries
    BY <1>0, <2>1
  <2>3. RecallInv'
    BY <1>0, <1>5, RecallInvKept DEF RecallNext, MemorySearch, Plain
  <2> QED BY <2>1, <2>2, <2>3
<1>6. ASSUME NEW q \in Plain, NextQuery(q) PROVE RecallInv' /\ tools' \in ToolsRow
  <2>1. PICK merged \in Merges(recall.matched) : tools' = [tools EXCEPT !.left = @ - 1, !.merged = merged]
    BY <1>6 DEF NextQuery
  <2>2. merged \subseteq Event
    BY <2>1, MergesTyped
  <2>3. tools.left - 1 \in 0 .. MaxQueries
    BY <1>0, <1>6 DEF NextQuery
  <2>4. RecallInv'
    BY <1>0, <1>6, RecallInvKept DEF RecallNext, NextQuery, Plain
  <2> QED BY <1>0, <2>1, <2>2, <2>3, <2>4
<1>7. CASE SearchReturns
  <2>1. PICK merged \in Merges(recall.matched) : recall' = ToolResult(recall.read \cup merged, merged)
    BY <1>7 DEF SearchReturns
  <2>2. merged \subseteq Event /\ recall.read \subseteq Event
    BY <1>0, <2>1, MergesTyped DEF RecallInv, RecallTypeOK, Retrieval
  <2>3. RecallInv'
    BY <1>0, <1>7, <2>1, <2>2, ToolResultRight, OthersStay DEF SearchReturns
  <2>4. tools' = [tools EXCEPT !.left = 0, !.merged = {}] /\ 0 \in 0 .. MaxQueries
    BY <1>0, <1>7 DEF SearchReturns
  <2>5. tools' \in ToolsRow
    BY <1>0, <2>4
  <2> QED BY <2>3, <2>5
<1>8. ASSUME NEW ids, NEW names, NEW hops, MemoryExpand(ids, names, hops)
      PROVE  RecallInv' /\ tools' \in ToolsRow
  <2>1. PICK kept \in SUBSET Expansion(ids, names, hops) : recall' = ToolResult(live, kept)
    BY <1>8 DEF MemoryExpand
  <2>2. kept \subseteq live /\ live \subseteq Event
    BY <1>0, ExpansionActive DEF RecallInv, RecallTypeOK
  <2>3. RecallInv'
    BY <1>0, <1>8, <2>1, <2>2, ToolResultRight, OthersStay DEF MemoryExpand
  <2>4. tools' = [tools EXCEPT !.calls = @ + 1] /\ tools.calls < MaxMemoryCalls
    BY <1>8 DEF MemoryExpand, SpendsCall
  <2>5. tools.calls + 1 \in 0 .. MaxMemoryCalls
    BY <1>0, <2>4
  <2>6. tools' \in ToolsRow
    BY <1>0, <2>4, <2>5
  <2> QED BY <2>3, <2>6
<1>9. CASE UNCHANGED toolVars
  <2>1. UNCHANGED recallVars /\ tools' = tools
    BY <1>9 DEF toolVars
  <2> QED BY <1>0, <2>1, RecallInvKept
<1> QED BY <1>1, <1>2, <1>3, <1>4, <1>5, <1>6, <1>7, <1>8, <1>9 DEF MemoryToolsNext

LEMMA ToolsInitRight == MemoryToolsInit => ToolsInv
<1> SUFFICES ASSUME MemoryToolsInit PROVE ToolsInv
  OBVIOUS
<1>1. RecallInv
  BY RecallInitRight DEF MemoryToolsInit
<1>2. 0 \in 0 .. MaxMemoryCalls /\ 0 \in 0 .. MaxQueries
  BY MemoryToolsAssumption DEF MemoryToolsAssumption
<1> QED BY <1>1, <1>2 DEF ToolsInv, MemoryToolsTypeOK, MemoryToolsInit, NoTools, RecallInv

\* The turn's own retrieval and those of its tools keep their types.
THEOREM RetrievalsAreTyped == MemoryToolsSpec => []MemoryToolsTypeOK
<1>1. ToolsInv => MemoryToolsTypeOK
  BY DEF ToolsInv
<1> QED BY <1>1, ToolsInitRight, ToolsInvKept, PTL DEF MemoryToolsSpec

(* Nothing that ended is revived by the graph, no scene of a story comes   *)
(* for being similar, and plans prove nothing, whatever a planner, a       *)
(* filter or a tool asks for and whatever ends meanwhile.                  *)
THEOREM ReasonForAll == MemoryToolsSpec => []GivenForAReason
<1>1. ToolsInv => GivenForAReason
  BY RecallProperties DEF ToolsInv
<1> QED BY <1>1, ToolsInitRight, ToolsInvKept, PTL DEF MemoryToolsSpec

\* The filter takes away no direct evidence, whatever it answers.
THEOREM DirectEvidenceStays == MemoryToolsSpec => []DirectEvidenceIsKept
<1>1. ToolsInv => DirectEvidenceIsKept
  BY RecallProperties DEF ToolsInv
<1> QED BY <1>1, ToolsInitRight, ToolsInvKept, PTL DEF MemoryToolsSpec
=============================================================================
