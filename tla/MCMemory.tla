------------------------------ MODULE MCMemory ------------------------------
(***************************************************************************)
(* The stored memory of a scope as TLC checks it: the ledger of events and *)
(* claims, the structured fields, the repair of entities with the views,   *)
(* or a review.  A behaviour is of one of these parts, which share no      *)
(* state in the model; the rest stands still.                              *)
(***************************************************************************)
EXTENDS Ledger, Fields, EntityRepair, MemoryReview

VARIABLE part

vars == <<ledgerVars, fieldVars, repairVars, reviewVars, part>>

AClaim(about, operation, object, previous, from, to, single) ==
  [about |-> about, operation |-> operation, object |-> object, previous |-> previous,
   from |-> from, to |-> to, single |-> single]

AnEvent(key, title, operation, source, from, told, meeting, attends) ==
  [key |-> key, title |-> title, operation |-> operation, source |-> source,
   from |-> from, to |-> 0, claims |-> told, aliases |-> {}, meeting |-> meeting,
   attends |-> attends]

Keys == {"k1", "k2", "f1", "f2"}

FreshKeys == [p \in {"t1", "t2"} \X {1, 2} |-> IF p[1] = "t1" THEN "f1" ELSE "f2"]

ToldClaims == {
  AClaim("place", "create", "home", None, 0, 0, TRUE),
  AClaim("place", "create", "office", None, 0, 3, TRUE),
  AClaim("place", "update", "office", None, 1, 0, TRUE),
  AClaim("place", "update", "home", None, 2, 0, TRUE),
  AClaim("place", "supersede", "office", "home", 0, 0, TRUE),
  AClaim("place", "retract", "home", None, 0, 0, TRUE),
  AClaim("absence", "create", "home", None, 0, 0, FALSE)}

ToldEvents == {
  AnEvent("k1", "t1", "create", 1, 0, <<AClaim("place", "create", "home", None, 0, 0, TRUE)>>, FALSE, {}),
  AnEvent("k1", "t2", "create", 2, 0, <<AClaim("absence", "create", "home", None, 0, 0, TRUE)>>, FALSE, {}),
  AnEvent("k1", "t1", "update", 2, 2, <<AClaim("place", "create", "office", None, 0, 0, TRUE)>>,
    TRUE, {"absence"}),
  AnEvent("k2", "t2", "enrich", 1, 0, <<>>, FALSE, {}),
  AnEvent("k1", "t1", "retract", 2, 0, <<AClaim("place", "retract", "home", None, 0, 0, TRUE)>>, FALSE, {})}

Triggers == <<[at |-> 1, stage |-> "close", once |-> TRUE, cooldown |-> 0],
              [at |-> 2, stage |-> "new", once |-> FALSE, cooldown |-> 2]>>

ToldRecords == {[names |-> {"a", "b"}, about |-> {}], [names |-> {"b"}, about |-> {"b"}]}

Init ==
  /\ part \in {"ledger", "fields", "repair", "review"}
  /\ LedgerInit /\ FieldsInit /\ RepairInit /\ ReviewInit

Next ==
  \/ /\ part = "ledger" /\ LedgerNext
     /\ UNCHANGED <<fieldVars, repairVars, reviewVars, part>>
  \/ /\ part = "fields" /\ FieldsNext
     /\ UNCHANGED <<ledgerVars, repairVars, reviewVars, part>>
  \/ /\ part = "repair" /\ RepairNext
     /\ UNCHANGED <<ledgerVars, fieldVars, reviewVars, part>>
  \/ /\ part = "review" /\ ReviewNext
     /\ UNCHANGED <<ledgerVars, fieldVars, repairVars, part>>

Spec == Init /\ [][Next]_vars

TypeOK == LedgerTypeOK /\ FieldsTypeOK /\ RepairTypeOK /\ ReviewTypeOK
=============================================================================
