------------------------------- MODULE Fields -------------------------------
(***************************************************************************)
(* The structured memory of one scope, lib/memory.js: three fields, the    *)
(* intimacy of a relationship, the stage derived from it and the rules a   *)
(* reply must keep.  memory_values has one row per field, which says what  *)
(* is remembered now; memory_history has the intervals an as-of question   *)
(* is answered from.  The two are written side by side.                    *)
(*                                                                         *)
(* Writers are the extraction (updates, deltas), the user's explicit rules *)
(* in a message, triggers and the interface (lib/memory-service.js, which  *)
(* forgets as well).  All of it is synchronous.  No writer gives a time in *)
(* the story, so an interval begins when it is written: the clock is the   *)
(* number of calls.                                                        *)
(*                                                                         *)
(* An operator named for a mistake stands before the one it mistakes; no   *)
(* action uses it, the checks substitute it.                               *)
(***************************************************************************)
EXTENDS Integers, Sequences, FiniteSetsExt, RowOrder

CONSTANTS
  MaxScore,     \* the constraints of relationship.intimacy: 0 .. MaxScore
  DefaultScore,
  MaxDelta,     \* maxDeltaPerTurn
  Threshold,    \* the score from which the stage is "close"
  Rule,         \* response.must_rules
  DefaultRules, \* those the administrator gave
  Gone,         \* a NULL value
  Trigger,      \* the triggers by priority, and what they set the stage to
  MaxWrites     \* bound: calls

Stage == {"new", "close"}

ASSUME FieldsAssumption ==
  /\ Trigger \in Seq([at: Int, stage: Stage, once: BOOLEAN, cooldown: Nat])
  /\ MaxScore \in Nat /\ DefaultScore \in 0 .. MaxScore /\ MaxDelta \in Nat
  /\ Threshold \in Int /\ MaxWrites \in Nat /\ DefaultRules \subseteq Rule

VARIABLES
  memory,  \* the rows of the fields, and their history
  writes,  \* calls so far
  runs     \* the last run of each trigger, trigger_runs

fieldVars == <<memory, writes, runs>>

Field == {"intimacy", "stage", "rules"}

NoRow == [status |-> "none", value |-> Gone, version |-> 0, from |-> 0]

now == writes + 1

Value(f) ==
  CASE f = "intimacy" -> 0 .. MaxScore [] f = "stage" -> Stage [] f = "rules" -> SUBSET Rule

FieldsTypeOK ==
  /\ \A f \in Field :
       /\ memory.values[f].status \in {"none", "active", "retracted"}
       /\ memory.values[f].status # "none" => memory.values[f].value \in Value(f)
       /\ memory.values[f].version \in Nat /\ memory.values[f].from \in 0 .. writes
  /\ \A i \in DOMAIN memory.history :
       /\ memory.history[i].field \in Field /\ memory.history[i].version \in Nat
       /\ memory.history[i].known \in 1 .. writes
       /\ {memory.history[i].from, memory.history[i].to, memory.history[i].until} \subseteq 0 .. writes
  /\ \A n \in DOMAIN Trigger :
       /\ runs[n].status \in {"none", "success", "error"}
       /\ runs[n].at \in 0 .. writes
  /\ writes \in 0 .. MaxWrites

-----------------------------------------------------------------------------
(* setMemoryValue.                                                         *)

Row(m, f) == m.values[f]

\* getMemoryValue without a time.
Remembered(m, f, default) ==
  IF Row(m, f).status = "active" THEN Row(m, f).value ELSE default

Interval(f, value, version, from) ==
  [field |-> f, value |-> value, version |-> version,
   from |-> from, to |-> 0, known |-> now, until |-> 0]

ClosedHistory(m, f, versions) ==
  [i \in DOMAIN m.history |->
     LET h == m.history[i]
     IN IF h.field = f /\ h.version \in versions /\ h.until = 0
        THEN [h EXCEPT !.until = now] ELSE h]

\* The last interval of the version goes on as what held until now.
CarriedHistory(m, f) ==
  LET last == Max({i \in DOMAIN m.history :
                     m.history[i].field = f /\ m.history[i].version = Row(m, f).version})
  IN [m.history[last] EXCEPT !.to = now, !.known = now, !.until = 0]

CreateRow(m, f, value) ==
  [values  |-> [m.values EXCEPT ![f] = [status |-> "active", value |-> value,
                                        version |-> 1, from |-> now]],
   history |-> Append(m.history, Interval(f, value, 1, now))]

ChangeRowOnly(m, f, value) ==
  LET version == Row(m, f).version + 1
  IN [values  |-> [m.values EXCEPT ![f].value = value, ![f].version = version, ![f].from = now],
      history |-> ClosedHistory(m, f, {Row(m, f).version})
                    \o <<CarriedHistory(m, f), Interval(f, value, version, now)>>]

ChangeRow(m, f, value) ==
  LET version == Row(m, f).version + 1
  IN [values  |-> [m.values EXCEPT ![f] = [status |-> "active", value |-> value,
                                           version |-> version, from |-> now]],
      history |-> ClosedHistory(m, f, {Row(m, f).version})
                    \o <<CarriedHistory(m, f), Interval(f, value, version, now)>>]

\* A value that is there already changes nothing, even of a forgotten row.
Write(m, f, value) ==
  IF Row(m, f).status = "none" THEN CreateRow(m, f, value)
  ELSE IF Row(m, f).value = value THEN m ELSE ChangeRow(m, f, value)

ClampAbove(low, n, high) == IF high < n THEN high ELSE n

Clamp(low, n, high) == IF n < low THEN low ELSE IF high < n THEN high ELSE n

StageOf(score) == IF Threshold <= score THEN "close" ELSE "new"

\* With syncDerivedStage.
WriteScore(m, n) ==
  LET score == Clamp(0, n, MaxScore) IN Write(Write(m, "intimacy", score), "stage", StageOf(score))

\* A merge adds to the row, whatever its status, or to the default.
MergeRules(m, rules) ==
  Write(m, "rules", rules \cup (IF Row(m, "rules").status = "none" THEN DefaultRules
                                ELSE Row(m, "rules").value))

-----------------------------------------------------------------------------
(* The calls.                                                              *)

Wrote(m) == writes < MaxWrites /\ writes' = writes + 1 /\ memory' = m

Writes(m) == Wrote(m) /\ UNCHANGED runs

SetScore(n) == Writes(WriteScore(memory, n))

\* applyMemoryDelta.
ApplyMemoryDelta(delta) ==
  Writes(WriteScore(memory, Remembered(memory, "intimacy", DefaultScore)
                              + Clamp(-MaxDelta, delta, MaxDelta)))

\* evaluateTriggers: the condition is a score; a trigger sees what those of a
\* higher priority wrote.  Once means once with success, for the user.
Eligible(s, n) ==
  /\ Trigger[n].at <= Remembered(s.memory, "intimacy", DefaultScore)
  /\ ~(Trigger[n].once /\ s.runs[n].status = "success")
  /\ s.runs[n].status = "none" \/ Trigger[n].cooldown <= now - s.runs[n].at

Fired(s, n, fails) ==
  [memory |-> IF n \in fails THEN s.memory ELSE Write(s.memory, "stage", Trigger[n].stage),
   runs   |-> [s.runs EXCEPT ![n] = [status |-> IF n \in fails THEN "error" ELSE "success",
                                     at |-> now]]]

EvaluateTriggers(fails) ==
  LET after[n \in 0 .. Len(Trigger)] ==
        IF n = 0 THEN [memory |-> memory, runs |-> runs]
        ELSE IF Eligible(after[n - 1], n) THEN Fired(after[n - 1], n, fails) ELSE after[n - 1]
  IN Wrote(after[Len(Trigger)].memory) /\ runs' = after[Len(Trigger)].runs

SetRules(rules) == Writes(Write(memory, "rules", rules))

\* A merge the extraction or the interface asks for.
AddRules(adds) == Writes(MergeRules(memory, adds))

\* applyPersistentRuleDecision; the administrator's rules cannot be removed.
ApplyRules(adds, removals) ==
  LET current == Remembered(memory, "rules", DefaultRules)
      gone    == (removals \ DefaultRules) \cap current
      next    == (current \ gone) \cup adds
  IN /\ next # current
     /\ Writes(IF gone # {} THEN Write(memory, "rules", next) ELSE MergeRules(memory, next))

(* What the classifier makes of the rules in a message; where it fails, the *)
(* patterns find rules to add, never one to remove.                        *)
ByModel == [adds : SUBSET Rule, removals : SUBSET Rule]

ByPattern == [adds : SUBSET Rule, removals : {{}}]

\* detectFastControlUpdates, after the classifier was awaited.
DetectFastControlUpdates(decision) == ApplyRules(decision.adds, decision.removals)

\* forgetStructured.
Retracted(m, f) ==
  LET row == Row(m, f)
  IN [values  |-> [m.values EXCEPT ![f].status = "retracted"],
      history |-> Append(ClosedHistory(m, f, Nat),
                         Interval(f, Gone, row.version + 1, row.from))]

Erased(m, f) ==
  [values  |-> [m.values EXCEPT ![f] = NoRow],
   history |-> RowsOf(m.history, {i \in DOMAIN m.history : m.history[i].field # f})]

Forget(f) ==
  /\ Row(memory, f).status = "active"
  /\ Writes(Retracted(memory, f)) \/ Writes(Erased(memory, f))

FieldsInit ==
  /\ memory = [values |-> [f \in Field |-> NoRow], history |-> <<>>]
  /\ writes = 0
  /\ runs = [n \in DOMAIN Trigger |-> [status |-> "none", at |-> 0]]

FieldsNext ==
  \/ \E n \in 0 .. MaxScore : SetScore(n)
  \/ \E delta \in {-MaxDelta - 1, 1} : ApplyMemoryDelta(delta)
  \/ \E fails \in SUBSET DOMAIN Trigger : EvaluateTriggers(fails)
  \/ \E rules \in SUBSET Rule : SetRules(rules) \/ AddRules(rules)
  \/ \E decision \in ByModel \cup ByPattern : DetectFastControlUpdates(decision)
  \/ \E f \in Field : Forget(f)

FieldsSpec == FieldsInit /\ [][FieldsNext]_fieldVars

-----------------------------------------------------------------------------
(* Properties.                                                             *)

\* The intervals an as-of question finds, and the one it takes.
Found(f, t, k) ==
  {i \in DOMAIN memory.history :
     LET h == memory.history[i]
     IN /\ h.field = f
        /\ h.from <= t /\ (h.to = 0 \/ t < h.to)
        /\ h.known <= k /\ (h.until = 0 \/ k < h.until)}

Newest(f, t, k) ==
  {i \in Found(f, t, k) : \A j \in Found(f, t, k) \ {i} :
     LET h == memory.history[i]
         g == memory.history[j]
     IN g.known < h.known \/ (g.known = h.known /\ g.version < h.version)}

\* What the history answers for this moment is what the row of the field says,
\* a forgotten field being one without a value: however a field is changed,
\* forgotten, set to the value it had and derived from another, the two tables
\* do not drift apart, and the answer is one interval.
HistorySaysTheValue ==
  \A f \in Field :
    /\ Cardinality(Newest(f, writes, writes)) = (IF Row(memory, f).status = "none" THEN 0 ELSE 1)
    /\ \A i \in Newest(f, writes, writes) :
         memory.history[i].value = Remembered(memory, f, Gone)
=============================================================================
