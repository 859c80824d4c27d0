----------------------- MODULE ConversationTurnsProofs -----------------------
(***************************************************************************)
(* Proofs about ConversationTurns, for any conversations, profiles and     *)
(* number of requests: types, that turns are served one at a time in the   *)
(* order in which they arrived, and from that that no turn is extracted    *)
(* twice for a row and none is passed over; that the lock implements the   *)
(* queue of TurnQueue; and about the chat page of ChatClient in front.     *)
(***************************************************************************)
EXTENDS ChatClient, FiniteSetTheorems, SequenceTheorems, WellFoundedInduction, TLAPS

Roles == {"user", "assistant"}

PastRow == [told: SUBSET Nat, again: SUBSET Nat, skipped: SUBSET Nat, since: Nat]

Answers(dialogue) == Saved(dialogue, "assistant")

\* LatestAnswer and LatestUser of a conversation, by what was said in it.
LastAnswer(dialogue) == Latest(Answers(dialogue))

LastUser(dialogue) == Latest({i \in Saved(dialogue, "user") : i < LastAnswer(dialogue)})

\* Every turn up to place n was told or passed over, except those in more.
Passed(dialogue, was, n, more) ==
  \A i \in Answers(dialogue) :
    was.since < i /\ i <= n => i \in was.told \cup was.skipped \cup more

\* What was told and may not be told again is no later than place n.
Told(was, n, more) == \A i \in was.told \ was.again : i <= n \/ i \in more

ConversationInv(dialogue, row, was) ==
  /\ dialogue \in Seq(Roles) /\ row \in StateRow /\ was \in PastRow
  /\ row.last <= Len(dialogue)
  /\ was.told \subseteq Answers(dialogue)
  /\ was.since = 0 \/ was.since < LastUser(dialogue)
  /\ Passed(dialogue, was, row.last, {})

-----------------------------------------------------------------------------
LEMMA LeastIsMember ==
  ASSUME NEW S \in SUBSET Nat, S # {}
  PROVE  \E x \in S : \A y \in S : x <= y
<1>1. PICK x \in S : \A y \in S : ~ (<<y, x>> \in OpToRel(<, Nat))
  BY NatLessThanWellFounded, WFMin
<1>2. ASSUME NEW y \in S PROVE x <= y
  <2>1. x \in Nat /\ y \in Nat /\ ~ (<<y, x>> \in {ss \in Nat \X Nat : ss[1] < ss[2]})
    BY <1>1 DEF OpToRel
  <2>2. ~ (y < x)
    BY <2>1
  <2> QED
    BY <2>1, <2>2
<1> QED
  BY <1>2

LEMMA LatestIsGreatest ==
  ASSUME NEW n \in Nat, NEW places \in SUBSET (0 .. n)
  PROVE  /\ Latest(places) \in places \cup {0}
         /\ \A i \in places : i <= Latest(places)
         /\ Latest(places) \in 0 .. n
<1> DEFINE S == places \cup {0}
           T == {m \in 0 .. n : n - m \in S}
<1>1. T \in SUBSET Nat /\ T # {}
  <2>1. n \in T
    OBVIOUS
  <2> QED
    BY <2>1
<1>2. PICK x \in T : \A y \in T : x <= y
  BY <1>1, LeastIsMember
<1>3. n - x \in S /\ \A s \in S : n - x >= s
  <2>1. \A s \in S : n - s \in T
    OBVIOUS
  <2> QED
    BY <1>2, <2>1
<1>4. Max(S) \in S /\ \A s \in S : Max(S) >= s
  BY <1>3 DEF Max
<1>5. Latest(places) = Max(S) /\ S \subseteq 0 .. n
  BY DEF Latest
<1> HIDE DEF S
<1>6. Latest(places) \in S /\ \A s \in S : s <= Latest(places)
  BY <1>4, <1>5
<1> QED
  BY <1>5, <1>6 DEF S

\* The first turns are those before any of them.
LEMMA FirstTurnsFirst ==
  ASSUME NEW m \in Nat, NEW turns \in SUBSET (0 .. m), NEW n \in Nat
  PROVE  /\ FirstTurns(turns, n) \subseteq turns
         /\ \A j \in FirstTurns(turns, n) : \A i \in turns : i <= j => i \in FirstTurns(turns, n)
         /\ turns # {} /\ n >= 1 => FirstTurns(turns, n) # {}
<1> DEFINE upTo(i) == {j \in turns : j <= i}
<1>n. turns \in SUBSET Nat
  OBVIOUS
<1>1. ASSUME NEW i \in turns PROVE IsFiniteSet(upTo(i)) /\ Cardinality(upTo(i)) \in Nat
  <2>1. IsFiniteSet(0 .. m)
    BY FS_Interval
  <2>2. upTo(i) \subseteq turns
    BY Zenon
  <2> HIDE DEF upTo
  <2> QED
    BY <2>1, <2>2, FS_Subset, FS_CardinalityType
<1>2. ASSUME NEW j \in turns, Cardinality(upTo(j)) <= n, NEW i \in turns, i <= j
      PROVE  Cardinality(upTo(i)) <= n
  <2>1. ASSUME NEW k \in turns, k <= i PROVE k <= j
    BY <1>n, <1>2, <2>1
  <2>3. upTo(i) \subseteq upTo(j)
    BY <2>1, Zenon
  <2>2. Cardinality(upTo(i)) <= Cardinality(upTo(j))
    <3> HIDE DEF upTo
    <3> QED
      BY <1>1, <2>3, FS_Subset
  <2> HIDE DEF upTo
  <2> QED
    BY <1>1, <1>2, <2>2
<1>3. ASSUME turns # {}, n >= 1 PROVE \E i \in turns : Cardinality(upTo(i)) <= n
  <2>1. PICK i \in turns : \A j \in turns : i <= j
    BY <1>3, LeastIsMember
  <2>2. upTo(i) = {i}
    <3>1. \A j \in turns : j <= i <=> j = i
      BY <1>n, <2>1
    <3> QED
      BY <3>1, Zenon
  <2>3. Cardinality(upTo(i)) = 1
    BY <2>2, FS_Singleton
  <2> QED
    BY <1>3, <2>3
<1> QED
  BY <1>2, <1>3 DEF FirstTurns

-----------------------------------------------------------------------------
(* What is said in a conversation.                                         *)

LEMMA SavedPlaces ==
  ASSUME NEW dialogue \in Seq(Roles), NEW role
  PROVE  /\ Saved(dialogue, role) \in SUBSET (1 .. Len(dialogue))
         /\ Saved(dialogue, role) \in SUBSET (0 .. Len(dialogue)) /\ Len(dialogue) \in Nat
BY LenProperties DEF Saved

LEMMA LatestPlaces ==
  ASSUME NEW dialogue \in Seq(Roles)
  PROVE  /\ LastAnswer(dialogue) \in 0 .. Len(dialogue)
         /\ \A i \in Answers(dialogue) : i <= LastAnswer(dialogue)
         /\ LastUser(dialogue) \in 0 .. Len(dialogue)
         /\ LastUser(dialogue) <= LastAnswer(dialogue)
<1> DEFINE users == {i \in Saved(dialogue, "user") : i < LastAnswer(dialogue)}
<1>1. Answers(dialogue) \in SUBSET (0 .. Len(dialogue)) /\ Len(dialogue) \in Nat
  BY SavedPlaces DEF Answers
<1>2. /\ LastAnswer(dialogue) \in 0 .. Len(dialogue)
      /\ \A i \in Answers(dialogue) : i <= LastAnswer(dialogue)
  BY <1>1, LatestIsGreatest DEF LastAnswer
<1>3. users \in SUBSET (0 .. LastAnswer(dialogue)) /\ LastAnswer(dialogue) \in Nat
  BY <1>1, <1>2, SavedPlaces
<1>4. Latest(users) \in 0 .. LastAnswer(dialogue)
  BY <1>3, LatestIsGreatest
<1> QED
  BY <1>1, <1>2, <1>4 DEF LastUser

LEMMA SavedAfter ==
  ASSUME NEW dialogue \in Seq(Roles), NEW said \in Roles, NEW role \in Roles
  PROVE  /\ Append(dialogue, said) \in Seq(Roles)
         /\ Len(Append(dialogue, said)) = Len(dialogue) + 1
         /\ Saved(Append(dialogue, said), role)
              = Saved(dialogue, role) \cup (IF role = said THEN {Len(dialogue) + 1} ELSE {})
<1> DEFINE longer == Append(dialogue, said)
<1>1. /\ longer \in Seq(Roles) /\ Len(longer) = Len(dialogue) + 1 /\ Len(dialogue) \in Nat
      /\ \A i \in 1 .. Len(dialogue) : longer[i] = dialogue[i]
      /\ longer[Len(dialogue) + 1] = said
  BY AppendProperties, LenProperties
<1>2. DOMAIN longer = 1 .. Len(dialogue) + 1 /\ DOMAIN dialogue = 1 .. Len(dialogue)
  BY <1>1, LenProperties
<1> HIDE DEF longer
<1>3. Saved(longer, role) = Saved(dialogue, role) \cup (IF role = said THEN {Len(dialogue) + 1} ELSE {})
  BY <1>1, <1>2 DEF Saved
<1> QED
  BY <1>1, <1>3 DEF longer

-----------------------------------------------------------------------------
(* planMemoryExtraction.                                                   *)

\* A batch that is to be extracted is all that is open up to its latest turn,
\* and nothing of it may not be told again.
Open(dialogue, was, batch, upto) ==
  /\ batch \subseteq Answers(dialogue) /\ upto <= Len(dialogue)
  /\ \A i \in batch : i <= upto
  /\ Passed(dialogue, was, upto, batch)
  /\ Told(was, upto, {}) /\ batch \cap was.told \subseteq was.again

PlanInv(plan, dialogue, row, was) ==
  /\ plan.row \in StateRow /\ plan.past \in PastRow
  /\ plan.row.last <= Len(dialogue)
  /\ plan.past.told = was.told /\ was.skipped \subseteq plan.past.skipped
  /\ was.since <= plan.past.since
  /\ plan.past.told \ plan.past.again \subseteq was.told \ was.again
  /\ Passed(dialogue, plan.past, plan.row.last, {})
  /\ \A more : Told(was, row.last, more) => Told(plan.past, plan.row.last, more)
  /\ Told(was, row.last, {}) /\ plan.batch # {} =>
       Latest(plan.batch) \in Nat /\ Open(dialogue, plan.past, plan.batch, Latest(plan.batch))
  /\ plan.due => plan.batch # {}
  /\ plan.batch \in SUBSET Nat

LEMMA PlanRight ==
  ASSUME profile \in Profile, NEW dialogue \in Seq(Roles), NEW row \in StateRow, NEW was \in PastRow,
         NEW user \in 1 .. Len(dialogue), NEW answer \in 0 .. Len(dialogue),
         row.last <= Len(dialogue), was.told \subseteq Answers(dialogue),
         \A i \in was.told : i <= answer,
         was.since < user, Passed(dialogue, was, row.last, {})
  PROVE  /\ PlanInv(Plan(row, was, dialogue, user, answer), dialogue, row, was)
         /\ Plan(row, was, dialogue, user, answer).past.since \in {was.since, user - 1}
<1> DEFINE plan == Plan(row, was, dialogue, user, answer)
           made == RowForTurn(row, user)
           kept == IF made = row THEN was
                   ELSE [was EXCEPT !.since = made.last, !.again = was.told]
           open == {i \in Answers(dialogue) : made.last < i /\ i <= answer}
           batch == FirstTurns(open, profile.interval)
<1>1. /\ Len(dialogue) \in Nat /\ user \in Nat /\ user >= 1 /\ answer \in Nat
      /\ Answers(dialogue) \in SUBSET (1 .. Len(dialogue))
  BY SavedPlaces DEF Answers
<1>2. /\ profile.interval \in Nat \ {0} /\ profile.enabled \in BOOLEAN
      /\ profile.id \in {p.id : p \in Profile} \cup {None}
  BY TurnsAssumption DEF TurnsAssumption
<1>3. /\ made \in StateRow /\ made.last <= Len(dialogue) /\ made.last \in Nat
      /\ made # row => made.last = user - 1
  BY <1>1, <1>2 DEF RowForTurn, StateRow
<1>4. /\ kept \in PastRow /\ kept.told = was.told /\ kept.skipped = was.skipped
      /\ kept.since \in Nat /\ was.since <= kept.since /\ kept.since \in {was.since, user - 1}
      /\ made = row => kept = was
      /\ made # row => kept.since = made.last /\ kept.again = was.told
  <2> HIDE DEF made
  <2>1. CASE made = row
    BY <2>1 DEF PastRow
  <2>2. CASE made # row
    <3>1. kept = [was EXCEPT !.since = made.last, !.again = was.told]
      BY <2>2
    <3>2. was.told \in SUBSET Nat /\ user - 1 \in Nat /\ was.since \in Nat /\ was.since <= user - 1
      BY <1>1 DEF PastRow
    <3> HIDE DEF kept
    <3>3. /\ kept \in PastRow /\ kept.told = was.told /\ kept.skipped = was.skipped
          /\ kept.since = made.last /\ kept.again = was.told
      BY <1>3, <3>1, <3>2 DEF PastRow
    <3> QED
      BY <1>3, <2>2, <3>2, <3>3
  <2> QED
    BY <2>1, <2>2
<1>5. Passed(dialogue, kept, made.last, {}) /\ \A more : Told(was, row.last, more) => Told(kept, made.last, more)
  <2>1. CASE made = row
    BY <1>4, <2>1
  <2>2. CASE made # row
    BY <1>1, <1>3, <1>4, <2>2 DEF Passed, Told
  <2> QED
    BY <2>1, <2>2
<1>6. kept.told \ kept.again \subseteq was.told \ was.again
  BY <1>4
<1>o. /\ open \in SUBSET (0 .. Len(dialogue)) /\ open \subseteq Answers(dialogue)
      /\ \A i \in Answers(dialogue) : i \in open <=> made.last < i /\ i <= answer
  BY <1>1
<1>7. CASE profile.id = None
  <2>1. plan = [row |-> row, past |-> was, batch |-> {}, due |-> FALSE]
    BY <1>7 DEF Plan
  <2> HIDE DEF plan, made, kept, open
  <2>2. PlanInv(plan, dialogue, row, was) /\ plan.past.since = was.since
    BY <2>1 DEF PlanInv, PastRow
  <2> QED
    BY <2>2 DEF plan
<1>8. CASE profile.id # None /\ ~profile.enabled
  <2> DEFINE ahead == [made EXCEPT !.last = answer]
             passing == [kept EXCEPT !.skipped = @ \cup open]
  <2>1. plan = [row |-> ahead, batch |-> {}, due |-> FALSE, past |-> passing]
    BY <1>8 DEF Plan, Answers
  <2> HIDE DEF plan, made, kept, open
  <2>2. ahead \in StateRow /\ ahead.last = answer
    BY <1>1, <1>3 DEF StateRow
  <2>3. /\ passing \in PastRow /\ passing.told = kept.told /\ passing.again = kept.again
        /\ passing.since = kept.since /\ passing.skipped = kept.skipped \cup open
    BY <1>1, <1>4, <1>o DEF PastRow
  <2> HIDE DEF ahead, passing
  <2>4. Passed(dialogue, passing, answer, {})
    <3> SUFFICES ASSUME NEW i \in Answers(dialogue), passing.since < i, i <= answer
                 PROVE  i \in passing.told \cup passing.skipped
      BY DEF Passed
    <3>1. CASE made.last < i
      BY <1>o, <2>3, <3>1
    <3>2. CASE ~ (made.last < i)
      BY <1>1, <1>3, <1>5, <2>3, <3>2 DEF Passed
    <3> QED
      BY <3>1, <3>2
  <2>5. \A more : Told(passing, answer, more)
    BY <1>4, <2>3 DEF Told
  <2>6. PlanInv(plan, dialogue, row, was)
    BY <1>1, <1>4, <1>6, <2>1, <2>2, <2>3, <2>4, <2>5 DEF PlanInv
  <2> QED
    BY <1>4, <2>1, <2>3, <2>6 DEF plan
<1>9. CASE ~ (profile.id = None) /\ ~ (profile.id # None /\ ~profile.enabled)
  <2>1. plan = [row |-> made, past |-> kept, batch |-> batch,
                due |-> Cardinality(open) >= profile.interval]
    BY <1>9 DEF Plan, Answers
  <2>2. /\ batch \subseteq open
        /\ \A j \in batch : \A i \in open : i <= j => i \in batch
        /\ open # {} => batch # {}
    <3> DEFINE n == profile.interval
    <3>1. n \in Nat /\ n >= 1
      BY <1>2
    <3> HIDE DEF open, n
    <3>2. /\ FirstTurns(open, n) \subseteq open
          /\ \A j \in FirstTurns(open, n) : \A i \in open : i <= j => i \in FirstTurns(open, n)
          /\ open # {} => FirstTurns(open, n) # {}
      BY <1>1, <1>o, <3>1, FirstTurnsFirst
    <3> QED
      BY <3>2 DEF n
  <2>3. plan.due => open # {}
    <3>1. open = {} => Cardinality(open) = 0
      BY FS_EmptySet
    <3> HIDE DEF open, batch, made, kept, plan
    <3>2. plan.due => Cardinality(open) >= profile.interval
      BY <2>1, Zenon
    <3>3. ~ (0 >= profile.interval)
      BY <1>2
    <3> QED
      BY <3>1, <3>2, <3>3
  <2> HIDE DEF plan, made, kept, open, batch
  <2>4. ASSUME Told(was, row.last, {}), batch # {}
        PROVE  Latest(batch) \in Nat /\ Open(dialogue, kept, batch, Latest(batch))
    <3> DEFINE upto == Latest(batch)
    <3>1. /\ upto \in batch \cup {0} /\ upto \in 0 .. Len(dialogue)
          /\ \A i \in batch : i <= upto
      BY <1>1, <1>o, <2>2, LatestIsGreatest
    <3> HIDE DEF upto
    <3>2. upto \in batch /\ upto \in Nat /\ \A i \in batch : i > made.last
      <4>1. \A i \in batch : i \in Nat /\ i > made.last
        BY <1>1, <1>o, <2>2
      <4>2. PICK i \in batch : i > 0
        BY <1>3, <2>4, <4>1
      <4>3. upto # 0
        BY <3>1, <4>1, <4>2
      <4> QED
        BY <1>1, <3>1, <4>1, <4>3
    <3>3. Told(kept, made.last, {})
      BY <1>5, <2>4
    <3>4. Told(kept, upto, {}) /\ batch \cap kept.told \subseteq kept.again
      <4>1. made.last < upto
        BY <3>2
      <4>2. \A i \in kept.told \ kept.again : i \in Nat /\ i <= made.last
        BY <1>4, <3>3 DEF Told, PastRow
      <4>3. Told(kept, upto, {})
        BY <1>3, <3>2, <4>1, <4>2 DEF Told
      <4>4. ASSUME NEW i \in batch, i \in kept.told, i \notin kept.again PROVE FALSE
        BY <1>3, <3>2, <4>2, <4>4
      <4> QED
        BY <4>3, <4>4
    <3>5. Passed(dialogue, kept, upto, batch)
      <4> SUFFICES ASSUME NEW i \in Answers(dialogue), kept.since < i, i <= upto, i \notin batch
                   PROVE  i \in kept.told \cup kept.skipped
        BY DEF Passed
      <4>1. i <= made.last
        <5>1. i \notin open /\ upto <= answer
          BY <1>o, <2>2, <3>2
        <5> QED
          BY <1>1, <1>3, <1>o, <3>2, <5>1
      <4> QED
        BY <1>5, <4>1 DEF Passed
    <3>6. batch \subseteq Answers(dialogue) /\ upto <= Len(dialogue)
      BY <1>1, <1>o, <2>2, <3>1
    <3>7. Open(dialogue, kept, batch, upto)
      BY <3>1, <3>4, <3>5, <3>6 DEF Open
    <3> QED
      BY <3>2, <3>7 DEF upto
  <2>5. batch \in SUBSET Nat
    BY <1>1, <1>o, <2>2
  <2>6. PlanInv(plan, dialogue, row, was)
    BY <1>3, <1>4, <1>5, <1>6, <2>1, <2>2, <2>3, <2>4, <2>5 DEF PlanInv
  <2> QED
    BY <1>4, <2>1, <2>6 DEF plan
<1> QED
  BY <1>7, <1>8, <1>9

-----------------------------------------------------------------------------
(* The queue.                                                              *)

Before(r) == \A q \in Requests : q < r => Over(q)

\* A request waits for the one that arrived before it, unless all are over.
OrderInv ==
  /\ tail \in {0, Len(request)}
  /\ tail = 0 => \A r \in Requests : Over(r)
  /\ \A r \in Requests : request[r].at # "waiting" => Before(r)
  /\ \A r \in Requests : request[r].at = "waiting" =>
       \/ request[r].after = 0 /\ Before(r)
       \/ request[r].after = r - 1 /\ r - 1 \in Requests

\* Request r is served or is about to be.
Alone(r) ==
  /\ ~Over(r) /\ Before(r)
  /\ \A q \in Requests \ {r} : request[q].at \in {"waiting", "ended", "failed"}

LEMMA ServedAlone ==
  ASSUME request \in Seq(RequestRow), OrderInv, NEW r \in Requests,
         Begun(r) \/ (request[r].at # "waiting" /\ ~Over(r))
  PROVE  Alone(r)
<1>1. Len(request) \in Nat /\ Requests = 1 .. Len(request)
  BY LenProperties DEF Requests
<1>2. \A q \in Requests : Over(q) => request[q].at # "waiting"
  BY DEF Over
<1>3. ~Over(r)
  BY DEF Begun, Over
<1>4. Before(r)
  <2>1. CASE request[r].at # "waiting"
    BY <2>1 DEF OrderInv
  <2>2. CASE request[r].at = "waiting" /\ request[r].after = r - 1 /\ r - 1 \in Requests
    <3>1. Over(r - 1)
      BY <1>1, <2>2 DEF Begun
    <3>2. Before(r - 1)
      BY <1>2, <2>2, <3>1 DEF OrderInv
    <3>3. \A q \in Requests : q < r => q < r - 1 \/ q = r - 1
      BY <1>1
    <3> QED
      BY <3>1, <3>2, <3>3 DEF Before
  <2> QED
    BY <2>1, <2>2 DEF OrderInv
<1>5. ASSUME NEW q \in Requests \ {r} PROVE request[q].at \in {"waiting", "ended", "failed"}
  <2>1. CASE q < r
    BY <1>4, <2>1 DEF Before, Over
  <2>2. CASE r < q
    BY <1>3, <2>2 DEF OrderInv, Before
  <2> QED
    BY <1>1, <2>1, <2>2
<1> QED
  BY <1>3, <1>4, <1>5 DEF Alone

LEMMA OrderMoves ==
  ASSUME request \in Seq(RequestRow), OrderInv, NEW r \in Requests, Alone(r),
         NEW row \in RequestRow, row.at # "waiting", request' = [request EXCEPT ![r] = row],
         tail' = tail \/ (row.at \in {"ended", "failed"} /\ tail' = TailAfter(r))
  PROVE  /\ request' \in Seq(RequestRow) /\ Len(request') = Len(request)
         /\ request'[r] = row /\ \A q \in Requests \ {r} : request'[q] = request[q]
         /\ OrderInv'
<1>1. Len(request) \in Nat /\ Requests = 1 .. Len(request) /\ tail # 0
  BY LenProperties DEF Requests, OrderInv, Alone
<1>2. /\ request' \in Seq(RequestRow) /\ Len(request') = Len(request)
      /\ \A q \in Requests : request'[q] = IF q = r THEN row ELSE request[q]
  BY <1>1, ExceptSeq
<1>3. Requests' = Requests
  BY <1>2 DEF Requests
<1>4. \A q \in Requests \ {r} : Over(q)' <=> Over(q)
  BY <1>2 DEF Over
<1>5. \A q \in Requests : Before(q) => Before(q)'
  BY <1>1, <1>3, <1>4 DEF Before, Alone
<1>6. tail' = 0 => \A q \in Requests : Over(q)'
  <2> SUFFICES ASSUME tail' = 0 PROVE \A q \in Requests : Over(q)'
    OBVIOUS
  <2>1. tail = r /\ row.at \in {"ended", "failed"} /\ r = Len(request)
    BY <1>1 DEF TailAfter, OrderInv
  <2>2. \A q \in Requests \ {r} : Over(q)
    BY <1>1, <2>1 DEF Alone, Before
  <2> QED
    BY <1>2, <1>4, <2>1, <2>2 DEF Over
<1>7. ASSUME NEW q \in Requests
      PROVE  /\ request'[q].at # "waiting" => Before(q)'
             /\ request'[q].at = "waiting" =>
                  \/ request'[q].after = 0 /\ Before(q)'
                  \/ request'[q].after = q - 1 /\ q - 1 \in Requests
  <2>1. CASE q = r
    BY <1>2, <1>5, <2>1 DEF Alone
  <2>2. CASE q # r
    BY <1>2, <1>5, <2>2 DEF OrderInv
  <2> QED
    BY <2>1, <2>2
<1>8. tail' \in {0, Len(request')}
  BY <1>2 DEF OrderInv, TailAfter
<1> QED
  BY <1>2, <1>3, <1>6, <1>7, <1>8 DEF OrderInv

LEMMA OrderGrows ==
  ASSUME request \in Seq(RequestRow), OrderInv, NEW row \in RequestRow,
         row.at = "waiting", row.after = tail, request' = Append(request, row),
         tail' = Len(request) + 1
  PROVE  /\ request' \in Seq(RequestRow) /\ Len(request') = Len(request) + 1
         /\ request'[Len(request) + 1] = row /\ \A q \in Requests : request'[q] = request[q]
         /\ OrderInv'
<1>n. PICK n \in Nat : n = Len(request)
  BY LenProperties
<1>1. /\ n \in Nat /\ Requests = 1 .. n
      /\ request' \in Seq(RequestRow) /\ Len(request') = n + 1
      /\ \A q \in 1 .. n : request'[q] = request[q]
      /\ request'[n + 1] = row
  BY <1>n, LenProperties, AppendProperties DEF Requests
<1>2. Requests' = Requests \cup {n + 1}
  BY <1>1 DEF Requests
<1>3. \A q \in Requests : Over(q)' <=> Over(q)
  BY <1>1 DEF Over
<1>4. \A q \in Requests : Before(q) => Before(q)'
  BY <1>1, <1>2, <1>3 DEF Before
<1>5. row.after = 0 => Before(n + 1)'
  <2>1. \A q \in Requests' : q < n + 1 => q \in Requests
    BY <1>1, <1>2
  <2>2. row.after = 0 => \A q \in Requests : Over(q)'
    BY <1>3 DEF OrderInv
  <2> QED
    BY <2>1, <2>2 DEF Before
<1>6. row.after # 0 => row.after = n /\ n \in Requests'
  BY <1>1, <1>2, <1>n DEF OrderInv
<1>7. ASSUME NEW q \in Requests
      PROVE  /\ request'[q].at # "waiting" => Before(q)'
             /\ request'[q].at = "waiting" =>
                  \/ request'[q].after = 0 /\ Before(q)'
                  \/ request'[q].after = q - 1 /\ q - 1 \in Requests'
  BY <1>1, <1>2, <1>4 DEF OrderInv
<1>8. tail' = Len(request') /\ tail' # 0
  BY <1>1, <1>n
<1>11. \A q \in Requests' : q \in Requests \/ q = n + 1
  BY <1>2
<1> HIDE DEF Requests
<1>9. OrderInv'
  <2>1. ASSUME NEW q \in Requests'
        PROVE  /\ request'[q].at # "waiting" => Before(q)'
               /\ request'[q].at = "waiting" =>
                    \/ request'[q].after = 0 /\ Before(q)'
                    \/ request'[q].after = q - 1 /\ q - 1 \in Requests'
    <3>1. CASE q \in Requests
      BY <1>7, <3>1
    <3>2. CASE q = n + 1
      <4>1. q - 1 = n /\ request'[q] = row /\ row.at = "waiting"
        BY <1>1, <3>2
      <4>2. row.after = 0 => Before(q)'
        BY <1>5, <3>2 DEF Before
      <4> QED
        BY <1>6, <4>1, <4>2
    <3> QED
      BY <1>11, <3>1, <3>2
  <2> QED
    BY <1>8, <2>1 DEF OrderInv
<1> QED
  BY <1>1, <1>9, <1>n

-----------------------------------------------------------------------------
(* The inductive invariant.                                                *)

SubjectOf(row) ==
  IF row.at \in {"flushing", "flushed"} /\ row.kind = "chat" THEN row.previous ELSE row.conversation

\* What was written up to place n is written for good.
Written(dialogue, was, n) ==
  n <= Len(dialogue) /\ Passed(dialogue, was, n, {}) /\ Told(was, n, {})

RequestInv(row, dialogues, pasts) ==
  /\ row.kind = "extract" => /\ row.conversation \in Conversation
                             /\ row.at \notin {"answering", "extracting", "extracted"}
  /\ row.kind = "replay" => row.at \notin {"flushing", "flushed", "extracting", "extracted"}
  /\ row.kind = "chat" =>
       /\ row.at \in Awaits \ {"waiting"} => row.conversation \in Conversation
       /\ row.at \in {"flushing", "flushed"} => row.previous \in Conversation \ {row.conversation}
       /\ row.at = "answering" => /\ row.user = Len(dialogues[row.conversation])
                                  /\ row.user \in Saved(dialogues[row.conversation], "user")
  /\ row.at \in {"flushing", "extracting"} =>
       Open(dialogues[SubjectOf(row)], pasts[SubjectOf(row)], row.batch, row.upto)
  /\ row.at \in {"flushed", "extracted"} =>
       Written(dialogues[SubjectOf(row)], pasts[SubjectOf(row)], row.upto)

\* The batch that request r has written for conversation c, if its checkpoint
\* is still to be moved.
Pending(row, c) ==
  IF row.at \in {"flushed", "extracted"} /\ SubjectOf(row) = c THEN row.batch ELSE {}

AllPending(c) == UNION {Pending(request[r], c) : r \in Requests}

Typed ==
  /\ messages \in [Conversation -> Seq(Roles)]
  /\ recent \in Conversation \cup {None}
  /\ state \in [Conversation -> StateRow]
  /\ profile \in Profile
  /\ request \in Seq(RequestRow) /\ Len(request) <= MaxRequests
  /\ past \in [Conversation -> PastRow]
  /\ upsets \in 0 .. MaxUpsets

TurnsInv ==
  /\ Typed
  /\ OrderInv
  /\ \A c \in Conversation : ConversationInv(messages[c], state[c], past[c])
  /\ \A c \in Conversation : Told(past[c], state[c].last, AllPending(c))
  /\ \A r \in Requests : RequestInv(request[r], messages, past)

LEMMA ToldMore ==
  ASSUME NEW was, NEW n, NEW less, NEW more, less \subseteq more, Told(was, n, less)
  PROVE  Told(was, n, more)
BY DEF Told

\* Only the request that is served may have written.
LEMMA OnePending ==
  ASSUME TurnsInv, NEW r \in Requests, Alone(r), NEW c \in Conversation
  PROVE  Told(past[c], state[c].last, Pending(request[r], c))
<1>1. \A q \in Requests \ {r} : Pending(request[q], c) = {}
  BY DEF Alone, Pending
<1>2. AllPending(c) \subseteq Pending(request[r], c)
  BY <1>1 DEF AllPending
<1> QED
  BY <1>2, ToldMore DEF TurnsInv

\* What is left to show of a step of request r.
LEMMA RequestMoves ==
  ASSUME TurnsInv, NEW r \in Requests, Alone(r), NEW row \in RequestRow, row.at # "waiting",
         request' = [request EXCEPT ![r] = row],
         tail' = tail \/ (row.at \in {"ended", "failed"} /\ tail' = TailAfter(r)),
         messages' \in [Conversation -> Seq(Roles)], recent' \in Conversation \cup {None},
         state' \in [Conversation -> StateRow], past' \in [Conversation -> PastRow],
         UNCHANGED <<profile, upsets>>,
         \A c \in Conversation : ConversationInv(messages'[c], state'[c], past'[c]),
         \A c \in Conversation : Told(past'[c], state'[c].last, Pending(row, c)),
         RequestInv(row, messages', past')
  PROVE  TurnsInv'
<1>1. /\ request' \in Seq(RequestRow) /\ Len(request') = Len(request)
      /\ request'[r] = row /\ \A q \in Requests \ {r} : request'[q] = request[q]
      /\ OrderInv' /\ Requests' = Requests
  BY OrderMoves DEF TurnsInv, Typed, Requests
<1>2. Typed'
  BY <1>1 DEF TurnsInv, Typed
<1>3. ASSUME NEW q \in Requests PROVE RequestInv(request'[q], messages', past')
  <2>1. CASE q = r
    BY <1>1, <2>1
  <2>2. CASE q # r
    BY <1>1, <2>2 DEF TurnsInv, RequestInv, Alone
  <2> QED
    BY <2>1, <2>2
<1>4. ASSUME NEW c \in Conversation PROVE Told(past'[c], state'[c].last, AllPending(c)')
  <2>1. Pending(row, c) \subseteq AllPending(c)'
    BY <1>1 DEF AllPending, Pending, SubjectOf
  <2> QED
    BY <2>1, ToldMore
<1> QED
  BY <1>1, <1>2, <1>3, <1>4 DEF TurnsInv

-----------------------------------------------------------------------------
LEMMA PlanOfLatestRight ==
  ASSUME Typed, NEW c \in Conversation, NEW row \in StateRow,
         ConversationInv(messages[c], row, past[c])
  PROVE  LET plan == PlanOfLatest(c, row)
         IN  /\ PlanInv(plan, messages[c], row, past[c])
             /\ ConversationInv(messages[c], plan.row, plan.past)
<1> DEFINE d == messages[c]
           plan == PlanOfLatest(c, row)
<1>1. /\ d \in Seq(Roles) /\ past[c] \in PastRow /\ row.last <= Len(d)
      /\ past[c].told \subseteq Answers(d) /\ Passed(d, past[c], row.last, {})
      /\ past[c].since = 0 \/ past[c].since < LastUser(d)
      /\ profile \in Profile
  BY DEF ConversationInv, Typed
<1>2. LatestAnswer(c) = LastAnswer(d) /\ LatestUser(c) = LastUser(d)
  BY DEF LatestAnswer, LastAnswer, LatestUser, LastUser, Answers
<1>3. /\ LastUser(d) \in 0 .. Len(d) /\ LastAnswer(d) \in 0 .. Len(d)
      /\ \A i \in past[c].told : i <= LastAnswer(d)
      /\ Len(d) \in Nat
  BY <1>1, LatestPlaces, LenProperties
<1>4. CASE LatestUser(c) = 0
  <2>1. plan = [row |-> row, past |-> past[c], batch |-> {}, due |-> FALSE]
    BY <1>4 DEF PlanOfLatest, NoPlan
  <2> HIDE DEF plan
  <2>2. PlanInv(plan, d, row, past[c])
    BY <1>1, <2>1 DEF PlanInv, PastRow
  <2> QED
    BY <2>1, <2>2 DEF plan
<1>5. CASE LatestUser(c) # 0
  <2>1. plan = Plan(row, past[c], d, LastUser(d), LastAnswer(d))
    BY <1>2, <1>5 DEF PlanOfLatest, PlanAfter
  <2>2. LastUser(d) \in 1 .. Len(d) /\ past[c].since < LastUser(d)
    BY <1>1, <1>2, <1>3, <1>5
  <2> HIDE DEF plan, d
  <2>3. PlanInv(plan, d, row, past[c]) /\ plan.past.since \in {past[c].since, LastUser(d) - 1}
    BY <1>1, <1>3, <2>1, <2>2, PlanRight
  <2>4. plan.past.since < LastUser(d)
    BY <1>3, <2>2, <2>3
  <2>5. ConversationInv(d, plan.row, plan.past)
    BY <1>1, <2>3, <2>4 DEF ConversationInv, PlanInv
  <2> QED
    BY <2>3, <2>5 DEF plan, d
<1> QED
  BY <1>4, <1>5

\* A request that is not served keeps its batch, whatever is planned.
LEMMA PlanKeepsRequests ==
  ASSUME NEW dialogue \in Seq(Roles), NEW row \in StateRow, NEW was \in PastRow, NEW plan,
         PlanInv(plan, dialogue, row, was), NEW batch, NEW n \in Nat
  PROVE  /\ Open(dialogue, was, batch, n) => Open(dialogue, plan.past, batch, n)
         /\ Written(dialogue, was, n) => Written(dialogue, plan.past, n)
<1>1. /\ was.since \in Nat /\ plan.past.since \in Nat /\ was.since <= plan.past.since
      /\ plan.past.told = was.told /\ was.skipped \subseteq plan.past.skipped
      /\ plan.past.told \ plan.past.again \subseteq was.told \ was.again
  BY DEF PlanInv, PastRow
<1>2. Answers(dialogue) \in SUBSET Nat
  BY SavedPlaces DEF Answers
<1>3. \A more : Passed(dialogue, was, n, more) => Passed(dialogue, plan.past, n, more)
  BY <1>1, <1>2 DEF Passed
<1>4. Told(was, n, {}) => Told(plan.past, n, {})
  BY <1>1 DEF Told
<1> QED
  BY <1>1, <1>3, <1>4 DEF Open, Written

-----------------------------------------------------------------------------
(* Parts of steps.                                                         *)

LEMMA PlannedMoves ==
  ASSUME Typed, NEW c \in Conversation, NEW plan, plan.row \in StateRow, plan.past \in PastRow,
         Planned(c, plan)
  PROVE  /\ state' \in [Conversation -> StateRow] /\ past' \in [Conversation -> PastRow]
         /\ state'[c] = plan.row /\ past'[c] = plan.past
         /\ \A d \in Conversation \ {c} : state'[d] = state[d] /\ past'[d] = past[d]
BY DEF Typed, Planned

LEMMA LeaveMoves ==
  ASSUME TurnsInv, NEW r \in Requests, Alone(r), NEW at \in {"ended", "failed"}, Leave(r, at),
         messages' \in [Conversation -> Seq(Roles)], recent' \in Conversation \cup {None},
         state' \in [Conversation -> StateRow], past' \in [Conversation -> PastRow],
         UNCHANGED <<profile, upsets>>,
         \A c \in Conversation : ConversationInv(messages'[c], state'[c], past'[c]),
         \A c \in Conversation : Told(past'[c], state'[c].last, {})
  PROVE  TurnsInv'
<1> DEFINE row == Left(request[r], at)
<1>1. request[r] \in RequestRow /\ RequestInv(request[r], messages, past)
  BY ElementOfSeq DEF TurnsInv, Typed, Requests
<1>2. /\ row \in RequestRow /\ row.at = at /\ row.kind = request[r].kind
      /\ row.conversation = request[r].conversation
  BY <1>1 DEF Left, RequestRow
<1>3. request' = [request EXCEPT ![r] = row] /\ tail' = TailAfter(r)
  BY DEF Leave
<1> HIDE DEF row
<1>4. RequestInv(row, messages', past')
  BY <1>1, <1>2 DEF RequestInv, Awaits
<1>5. \A c \in Conversation : Pending(row, c) = {}
  BY <1>2 DEF Pending
<1> QED
  BY <1>2, <1>3, <1>4, <1>5, RequestMoves

\* What the user says is behind every answer.
LEMMA UserSaid ==
  ASSUME NEW dialogue, NEW row, NEW was, ConversationInv(dialogue, row, was)
  PROVE  ConversationInv(Append(dialogue, "user"), row, was)
<1> DEFINE longer == Append(dialogue, "user")
           n == Len(dialogue)
<1>1. /\ dialogue \in Seq(Roles) /\ "user" \in Roles /\ "assistant" \in Roles /\ n \in Nat
  BY LenProperties DEF ConversationInv, Roles
<1>2. /\ longer \in Seq(Roles) /\ Len(longer) = n + 1
      /\ Saved(longer, "user") = Saved(dialogue, "user") \cup {n + 1}
      /\ Answers(longer) = Answers(dialogue)
  <2>1. /\ longer \in Seq(Roles) /\ Len(longer) = n + 1
        /\ \A role \in Roles : Saved(longer, role)
              = Saved(dialogue, role) \cup (IF role = "user" THEN {n + 1} ELSE {})
    BY <1>1, SavedAfter
  <2> HIDE DEF longer, n
  <2>2. Saved(longer, "assistant") = Saved(dialogue, "assistant") \cup {}
    BY <1>1, <2>1
  <2> QED
    BY <1>1, <2>1, <2>2 DEF Answers
<1>3. LastAnswer(longer) = LastAnswer(dialogue) /\ LastAnswer(dialogue) <= n /\ LastAnswer(dialogue) \in Nat
  BY <1>1, <1>2, LatestPlaces DEF LastAnswer
<1> HIDE DEF n, longer
<1>4. {i \in Saved(longer, "user") : i < LastAnswer(dialogue)}
        = {i \in Saved(dialogue, "user") : i < LastAnswer(dialogue)}
  BY <1>1, <1>2, <1>3
<1>5. LastUser(longer) = LastUser(dialogue)
  BY <1>3, <1>4 DEF LastUser
<1>6. row.last \in Nat /\ row.last <= n
  BY DEF ConversationInv, StateRow, n
<1>7. ConversationInv(longer, row, was)
  BY <1>1, <1>2, <1>5, <1>6 DEF ConversationInv, Passed
<1> QED
  BY <1>7 DEF longer

LEMMA UserSavedMoves ==
  ASSUME TurnsInv, NEW r \in Requests, Alone(r), NEW row \in RequestRow, row.kind = "chat",
         row.conversation \in Conversation, UserSaved(r, row),
         state' \in [Conversation -> StateRow], past' \in [Conversation -> PastRow],
         UNCHANGED <<profile, upsets>>,
         \A c \in Conversation : ConversationInv(messages[c], state'[c], past'[c]),
         \A c \in Conversation : Told(past'[c], state'[c].last, {})
  PROVE  TurnsInv'
<1> DEFINE c == row.conversation
           n == Len(messages[c]) + 1
           next == [row EXCEPT !.at = "answering", !.user = n]
<1>1. /\ messages \in [Conversation -> Seq(Roles)] /\ messages[c] \in Seq(Roles)
      /\ messages' = [messages EXCEPT ![c] = Append(@, "user")] /\ recent' = c
      /\ request' = [request EXCEPT ![r] = next] /\ tail' = tail
  BY DEF TurnsInv, Typed, UserSaved, Await
<1>2. /\ n \in Nat /\ Append(messages[c], "user") \in Seq(Roles)
      /\ Len(Append(messages[c], "user")) = n
      /\ n \in Saved(Append(messages[c], "user"), "user")
  BY <1>1, LenProperties, SavedAfter DEF Roles
<1> HIDE DEF n
<1>3. /\ next \in RequestRow /\ next.at = "answering" /\ next.user = n /\ next.kind = "chat"
      /\ next.conversation = c
  BY <1>2 DEF RequestRow, Awaits
<1> HIDE DEF c, next
<1>c. c \in Conversation
  BY DEF c
<1>4. /\ messages' \in [Conversation -> Seq(Roles)] /\ messages'[c] = Append(messages[c], "user")
      /\ \A d \in Conversation \ {c} : messages'[d] = messages[d]
  BY <1>1, <1>2, <1>c
<1>5. ASSUME NEW d \in Conversation PROVE ConversationInv(messages'[d], state'[d], past'[d])
  <2>1. CASE d = c
    BY <1>4, <2>1, UserSaid
  <2>2. CASE d # c
    BY <1>4, <2>2
  <2> QED
    BY <2>1, <2>2
<1>6. RequestInv(next, messages', past')
  BY <1>2, <1>3, <1>4, <1>c DEF RequestInv
<1>7. \A d \in Conversation : Told(past'[d], state'[d].last, Pending(next, d))
  BY <1>3 DEF Pending
<1>8. recent' \in Conversation \cup {None} /\ next.at # "waiting"
  BY <1>1, <1>3, <1>c
<1> QED
  BY <1>1, <1>3, <1>4, <1>5, <1>6, <1>7, <1>8, RequestMoves

\* A batch is awaited, of the conversation that it is planned for.
LEMMA BatchAwaited ==
  ASSUME TurnsInv, NEW r \in Requests, Alone(r), NEW row \in RequestRow,
         NEW at \in {"flushing", "extracting"}, NEW batch \in SUBSET Nat, Latest(batch) \in Nat,
         Await(r, [row EXCEPT !.at = at, !.batch = batch, !.upto = Latest(batch)]),
         NEW c \in Conversation,
         c = IF at = "flushing" /\ row.kind = "chat" THEN row.previous ELSE row.conversation,
         row.kind = "chat" => /\ row.conversation \in Conversation
                              /\ at = "flushing" => row.previous # row.conversation,
         row.kind = "extract" => row.conversation \in Conversation /\ at = "flushing",
         row.kind # "replay",
         messages' \in [Conversation -> Seq(Roles)], recent' \in Conversation \cup {None},
         state' \in [Conversation -> StateRow], past' \in [Conversation -> PastRow],
         UNCHANGED <<profile, upsets>>,
         \A d \in Conversation : ConversationInv(messages'[d], state'[d], past'[d]),
         \A d \in Conversation : Told(past'[d], state'[d].last, {}),
         Open(messages'[c], past'[c], batch, Latest(batch))
  PROVE  TurnsInv'
<1> DEFINE n == Latest(batch)
           next == [row EXCEPT !.at = at, !.batch = batch, !.upto = n]
<1>1. request' = [request EXCEPT ![r] = next] /\ tail' = tail
  BY DEF Await
<1> HIDE DEF n
<1>2. /\ next \in RequestRow /\ next.at = at /\ next.batch = batch /\ next.upto = n
      /\ next.kind = row.kind /\ next.conversation = row.conversation
      /\ next.previous = row.previous
  BY DEF RequestRow, Awaits, n
<1> HIDE DEF next
<1>3. SubjectOf(next) = c
  BY <1>2 DEF SubjectOf
<1>4. RequestInv(next, messages', past')
  BY <1>2, <1>3 DEF RequestInv, n
<1>5. \A d \in Conversation : Pending(next, d) = {}
  BY <1>2 DEF Pending
<1> QED
  BY <1>1, <1>2, <1>4, <1>5, RequestMoves

\* A plan for the latest turn, when nothing is pending.
LEMMA PlannedRight ==
  ASSUME TurnsInv, NEW c \in Conversation, NEW row \in StateRow,
         ConversationInv(messages[c], row, past[c]), Told(past[c], row.last, {}),
         \A d \in Conversation \ {c} : Told(past[d], state[d].last, {}),
         Planned(c, PlanOfLatest(c, row))
  PROVE  /\ state' \in [Conversation -> StateRow] /\ past' \in [Conversation -> PastRow]
         /\ \A d \in Conversation : ConversationInv(messages[d], state'[d], past'[d])
         /\ \A d \in Conversation : Told(past'[d], state'[d].last, {})
         /\ LET batch == PlanOfLatest(c, row).batch
            IN  /\ batch \in SUBSET Nat
                /\ batch # {} => /\ Latest(batch) \in Nat
                                 /\ Open(messages[c], past'[c], batch, Latest(batch))
<1> DEFINE plan == PlanOfLatest(c, row)
<1>1. PlanInv(plan, messages[c], row, past[c]) /\ ConversationInv(messages[c], plan.row, plan.past)
  BY PlanOfLatestRight DEF TurnsInv
<1> HIDE DEF plan
<1>2. plan.row \in StateRow /\ plan.past \in PastRow /\ Planned(c, plan)
  BY <1>1 DEF PlanInv, plan
<1>3. /\ state' \in [Conversation -> StateRow] /\ past' \in [Conversation -> PastRow]
      /\ state'[c] = plan.row /\ past'[c] = plan.past
      /\ \A d \in Conversation \ {c} : state'[d] = state[d] /\ past'[d] = past[d]
  BY <1>2, PlannedMoves DEF TurnsInv
<1>4. \A d \in Conversation : ConversationInv(messages[d], state'[d], past'[d])
  BY <1>1, <1>3 DEF TurnsInv
<1>5. \A d \in Conversation : Told(past'[d], state'[d].last, {})
  BY <1>1, <1>3 DEF PlanInv
<1>6. /\ plan.batch \in SUBSET Nat
      /\ plan.batch # {} => Latest(plan.batch) \in Nat
                            /\ Open(messages[c], past'[c], plan.batch, Latest(plan.batch))
  BY <1>1, <1>3 DEF PlanInv
<1> QED
  BY <1>3, <1>4, <1>5, <1>6 DEF plan

\* What is known of the request that takes a step.
LEMMA StepFacts ==
  ASSUME TurnsInv, NEW r \in Requests, Begun(r) \/ request[r].at \in Awaits \ {"waiting"}
  PROVE  /\ request[r] \in RequestRow /\ RequestInv(request[r], messages, past) /\ Alone(r)
         /\ \A c \in Conversation : ConversationInv(messages[c], state[c], past[c])
         /\ request[r].at \notin {"flushed", "extracted"} =>
              \A c \in Conversation : Told(past[c], state[c].last, {})
<1>1. request[r] \in RequestRow /\ RequestInv(request[r], messages, past)
  BY ElementOfSeq DEF TurnsInv, Typed, Requests
<1>2. Alone(r)
  BY ServedAlone DEF TurnsInv, Typed, Over, Awaits
<1>3. request[r].at \notin {"flushed", "extracted"} => \A c \in Conversation : Pending(request[r], c) = {}
  BY DEF Pending
<1>4. \A c \in Conversation : Told(past[c], state[c].last, Pending(request[r], c))
  BY <1>2, OnePending
<1> QED
  BY <1>1, <1>2, <1>3, <1>4 DEF TurnsInv

-----------------------------------------------------------------------------
(* The steps.                                                              *)

LEMMA ChatBeginsRight ==
  ASSUME TurnsInv, NEW r \in Requests, ChatBegins(r)
  PROVE  TurnsInv'
<1>1. /\ request[r] \in RequestRow /\ Alone(r) /\ request[r].kind = "chat"
      /\ request[r].at = "waiting" /\ UNCHANGED <<profile, upsets>>
      /\ \A c \in Conversation : ConversationInv(messages[c], state[c], past[c])
      /\ \A c \in Conversation : Told(past[c], state[c].last, {})
  BY StepFacts DEF ChatBegins, Begun
<1>2. PICK c \in Conversations(r) :
        LET p   == PreviousOf(r)
            row == [request[r] EXCEPT !.conversation = c, !.previous = p]
        IN \/ /\ p \in {None, c}
              /\ UserSaved(r, row) /\ UNCHANGED <<state, past>>
           \/ /\ p \notin {None, c}
              /\ LET plan == PlanOfLatest(p, state[p]) IN
                 /\ Planned(p, plan)
                 /\ IF plan.batch = {} THEN UserSaved(r, row)
                    ELSE FlushAwaited(r, row, plan.batch)
  BY DEF ChatBegins
<1> DEFINE p   == PreviousOf(r)
           row == [request[r] EXCEPT !.conversation = c, !.previous = p]
<1>3. c \in Conversation /\ p \in Conversation \cup {None}
  BY <1>1 DEF Conversations, PreviousOf, RequestRow, TurnsInv, Typed
<1> HIDE DEF p
<1>4. row \in RequestRow /\ row.kind = "chat" /\ row.conversation = c /\ row.previous = p
  BY <1>1, <1>3 DEF RequestRow
<1>5. CASE UserSaved(r, row) /\ UNCHANGED <<state, past>>
  <2> HIDE DEF row
  <2>1. state' \in [Conversation -> StateRow] /\ past' \in [Conversation -> PastRow]
    BY <1>5 DEF TurnsInv, Typed
  <2> QED
    BY <1>1, <1>3, <1>4, <1>5, <2>1, UserSavedMoves
<1>6. CASE p \notin {None, c} /\ Planned(p, PlanOfLatest(p, state[p]))
  <2> DEFINE batch == PlanOfLatest(p, state[p]).batch
  <2>1. p \in Conversation /\ p # c /\ state[p] \in StateRow
    BY <1>3, <1>6 DEF TurnsInv, Typed
  <2>2. /\ state' \in [Conversation -> StateRow] /\ past' \in [Conversation -> PastRow]
        /\ \A d \in Conversation : ConversationInv(messages[d], state'[d], past'[d])
        /\ \A d \in Conversation : Told(past'[d], state'[d].last, {})
        /\ batch \in SUBSET Nat
        /\ batch # {} => /\ Latest(batch) \in Nat
                         /\ Open(messages[p], past'[p], batch, Latest(batch))
    BY <1>1, <1>6, <2>1, PlannedRight
  <2>3. \/ UserSaved(r, row)
        \/ batch # {} /\ FlushAwaited(r, row, batch)
    BY <1>2, <1>6 DEF p
  <2> HIDE DEF row, batch
  <2>4. CASE UserSaved(r, row)
    BY <1>1, <1>3, <1>4, <2>2, <2>4, UserSavedMoves
  <2>5. CASE batch # {} /\ FlushAwaited(r, row, batch)
    <3>1. /\ Await(r, [row EXCEPT !.at = "flushing", !.batch = batch, !.upto = Latest(batch)])
          /\ UNCHANGED <<messages, recent>>
      BY <2>5 DEF FlushAwaited
    <3>2. messages' \in [Conversation -> Seq(Roles)] /\ recent' \in Conversation \cup {None}
      BY <3>1 DEF TurnsInv, Typed
    <3>3. "flushing" \in {"flushing", "extracting"} /\ row.kind # "extract" /\ row.kind # "replay"
      BY <1>4
    <3> QED
      BY <1>1, <1>3, <1>4, <2>1, <2>2, <2>5, <3>1, <3>2, <3>3, BatchAwaited
  <2> QED
    BY <2>3, <2>4, <2>5
<1> QED
  BY <1>2, <1>5, <1>6 DEF p

LEMMA ExtractBeginsRight ==
  ASSUME TurnsInv, NEW r \in Requests, ExtractBegins(r)
  PROVE  TurnsInv'
<1> DEFINE row   == request[r]
           c     == row.conversation
           batch == PlanOfLatest(c, state[c]).batch
<1>1. /\ row \in RequestRow /\ Alone(r) /\ row.kind = "extract" /\ row.at = "waiting"
      /\ UNCHANGED <<profile, upsets>>
      /\ \A d \in Conversation : ConversationInv(messages[d], state[d], past[d])
      /\ \A d \in Conversation : Told(past[d], state[d].last, {})
      /\ RequestInv(row, messages, past)
  BY StepFacts DEF ExtractBegins, Begun
<1>2. c \in Conversation /\ state[c] \in StateRow
  BY <1>1 DEF RequestInv, TurnsInv, Typed
<1>3. Planned(c, PlanOfLatest(c, state[c]))
  BY DEF ExtractBegins
<1>4. /\ state' \in [Conversation -> StateRow] /\ past' \in [Conversation -> PastRow]
      /\ \A d \in Conversation : ConversationInv(messages[d], state'[d], past'[d])
      /\ \A d \in Conversation : Told(past'[d], state'[d].last, {})
      /\ batch \in SUBSET Nat
      /\ batch # {} => /\ Latest(batch) \in Nat
                       /\ Open(messages[c], past'[c], batch, Latest(batch))
  BY <1>1, <1>2, <1>3, PlannedRight
<1>5. /\ \/ Leave(r, "ended")
         \/ batch # {} /\ Await(r, [row EXCEPT !.at = "flushing", !.batch = batch, !.upto = Latest(batch)])
      /\ UNCHANGED <<messages, recent>>
  BY DEF ExtractBegins, FlushAwaited
<1>6. messages' \in [Conversation -> Seq(Roles)] /\ recent' \in Conversation \cup {None}
  BY <1>5 DEF TurnsInv, Typed
<1> HIDE DEF row, batch, c
<1>c. c = row.conversation
  BY DEF c
<1>7. CASE Leave(r, "ended")
  BY <1>1, <1>4, <1>5, <1>6, <1>7, LeaveMoves
<1>8. CASE batch # {} /\ Await(r, [row EXCEPT !.at = "flushing", !.batch = batch, !.upto = Latest(batch)])
  <2>1. "flushing" \in {"flushing", "extracting"} /\ row.kind # "chat" /\ row.kind # "replay"
    BY <1>1
  <2> QED
    BY <1>1, <1>2, <1>4, <1>5, <1>6, <1>8, <1>c, <2>1, BatchAwaited
<1> QED
  BY <1>5, <1>7, <1>8

LEMMA SubjectExists ==
  ASSUME NEW row \in RequestRow, NEW dialogues, NEW pasts, RequestInv(row, dialogues, pasts),
         row.at \in {"flushing", "flushed", "extracting", "extracted"}
  PROVE  SubjectOf(row) \in Conversation
BY DEF RequestInv, RequestRow, SubjectOf, Awaits

LEMMA StoredRight ==
  ASSUME TurnsInv, NEW r \in Requests, Stored(r)
  PROVE  TurnsInv'
<1> DEFINE row  == request[r]
           c    == SubjectOf(row)
           next == [row EXCEPT !.at = IF @ = "flushing" THEN "flushed" ELSE "extracted"]
           was  == [past[c] EXCEPT !.told = @ \cup row.batch, !.again = @ \ row.batch]
<1>1. /\ row \in RequestRow /\ RequestInv(row, messages, past) /\ Alone(r)
      /\ row.at \in {"flushing", "extracting"}
      /\ UNCHANGED <<messages, recent, state, profile, upsets>>
      /\ \A d \in Conversation : ConversationInv(messages[d], state[d], past[d])
      /\ \A d \in Conversation : Told(past[d], state[d].last, {})
  BY StepFacts DEF Stored, Awaits
<1>2. c \in Conversation /\ Subject(r) = c
  BY <1>1, SubjectExists DEF Subject, SubjectOf
<1>3. /\ past' = [past EXCEPT ![c].told = @ \cup row.batch, ![c].again = @ \ row.batch]
      /\ request' = [request EXCEPT ![r] = next] /\ tail' = tail
  BY <1>2 DEF Stored, Await
<1>4. past \in [Conversation -> PastRow] /\ past[c] \in PastRow /\ row.batch \in SUBSET Nat
  BY <1>1, <1>2 DEF TurnsInv, Typed, RequestRow
<1> HIDE DEF row, c
<1>5. /\ was \in PastRow /\ was.told = past[c].told \cup row.batch
      /\ was.again = past[c].again \ row.batch
      /\ was.skipped = past[c].skipped /\ was.since = past[c].since
  BY <1>4 DEF PastRow
<1>6. past' = [past EXCEPT ![c] = was]
  BY <1>2, <1>3, <1>4
<1> HIDE DEF was
<1>7. /\ past' \in [Conversation -> PastRow] /\ past'[c] = was
      /\ \A d \in Conversation \ {c} : past'[d] = past[d]
  BY <1>2, <1>4, <1>5, <1>6
<1>8. Open(messages[c], past[c], row.batch, row.upto)
  BY <1>1 DEF RequestInv, c
<1>9. Written(messages[c], was, row.upto)
  BY <1>5, <1>8 DEF Open, Written, Passed, Told
<1>10. ASSUME NEW d \in Conversation PROVE ConversationInv(messages'[d], state'[d], past'[d])
  <2>1. CASE d = c
    <3>1. ConversationInv(messages[c], state[c], past[c])
      BY <1>1, <1>2
    <3>2. Passed(messages[c], was, state[c].last, {})
      BY <1>5, <3>1 DEF ConversationInv, Passed
    <3>3. was.told \subseteq Answers(messages[c])
      BY <1>5, <1>8, <3>1 DEF ConversationInv, Open
    <3>4. ConversationInv(messages[c], state[c], was)
      BY <1>5, <3>1, <3>2, <3>3 DEF ConversationInv
    <3> QED
      BY <1>1, <1>7, <2>1, <3>4
  <2>2. CASE d # c
    BY <1>1, <1>7, <2>2
  <2> QED
    BY <2>1, <2>2
<1>11. /\ next \in RequestRow /\ next.kind = row.kind /\ next.conversation = row.conversation
       /\ next.previous = row.previous /\ next.batch = row.batch /\ next.upto = row.upto
       /\ next.at = IF row.at = "flushing" THEN "flushed" ELSE "extracted"
  BY <1>1 DEF RequestRow, Awaits
<1> HIDE DEF next
<1>12. SubjectOf(next) = c
  BY <1>1, <1>11 DEF SubjectOf, c
<1>13. RequestInv(next, messages', past')
  BY <1>1, <1>7, <1>9, <1>11, <1>12 DEF RequestInv, Awaits
<1>14. ASSUME NEW d \in Conversation PROVE Told(past'[d], state'[d].last, Pending(next, d))
  <2>1. CASE d = c
    <3>1. Pending(next, c) = row.batch
      BY <1>11, <1>12 DEF Pending
    <3>2. Told(was, state[c].last, row.batch)
      BY <1>1, <1>2, <1>5 DEF Told
    <3> QED
      BY <1>1, <1>7, <2>1, <3>1, <3>2
  <2>2. CASE d # c
    BY <1>1, <1>7, <2>2 DEF Told
  <2> QED
    BY <2>1, <2>2
<1>15. messages' \in [Conversation -> Seq(Roles)] /\ recent' \in Conversation \cup {None}
       /\ state' \in [Conversation -> StateRow]
  BY <1>1 DEF TurnsInv, Typed
<1>16. row.at # "waiting" /\ next.at # "waiting"
  BY <1>1, <1>11
<1> QED
  BY <1>1, <1>3, <1>7, <1>10, <1>11, <1>13, <1>14, <1>15, <1>16, RequestMoves

LEMMA ChatFlushFailsRight ==
  ASSUME TurnsInv, NEW r \in Requests, ChatFlushFails(r)
  PROVE  TurnsInv'
<1> DEFINE row == [request[r] EXCEPT !.degraded = TRUE]
<1>1. /\ request[r] \in RequestRow /\ RequestInv(request[r], messages, past) /\ Alone(r)
      /\ request[r].at = "flushing" /\ request[r].kind = "chat"
      /\ UserSaved(r, row) /\ UNCHANGED <<state, profile, past, upsets>>
      /\ \A d \in Conversation : ConversationInv(messages[d], state[d], past[d])
      /\ \A d \in Conversation : Told(past[d], state[d].last, {})
  BY StepFacts DEF ChatFlushFails, Awaits
<1>2. row \in RequestRow /\ row.kind = "chat" /\ row.conversation \in Conversation
  BY <1>1 DEF RequestRow, RequestInv, Awaits
<1>3. state' \in [Conversation -> StateRow] /\ past' \in [Conversation -> PastRow]
  BY <1>1 DEF TurnsInv, Typed
<1> HIDE DEF row
<1> QED
  BY <1>1, <1>2, <1>3, UserSavedMoves

\* The checkpoint moves over a batch that was written.
LEMMA CheckpointRight ==
  ASSUME TurnsInv, NEW r \in Requests, Alone(r), request[r].at \in {"flushed", "extracted"}
  PROVE  LET c   == SubjectOf(request[r])
             row == [state[c] EXCEPT !.last = request[r].upto]
         IN  /\ c \in Conversation /\ Subject(r) = c /\ row \in StateRow
             /\ CommitMemoryExtractionCheckpoint(r) = row
             /\ ConversationInv(messages[c], row, past[c]) /\ Told(past[c], row.last, {})
             /\ \A d \in Conversation \ {c} : Told(past[d], state[d].last, {})
<1> DEFINE c   == SubjectOf(request[r])
           row == [state[c] EXCEPT !.last = request[r].upto]
<1>1. request[r] \in RequestRow /\ RequestInv(request[r], messages, past)
  BY ElementOfSeq DEF TurnsInv, Typed, Requests
<1>2. c \in Conversation /\ Subject(r) = c
  BY <1>1, SubjectExists DEF Subject, SubjectOf
<1>3. CommitMemoryExtractionCheckpoint(r) = row
  BY <1>2 DEF CommitMemoryExtractionCheckpoint
<1>4. Written(messages[c], past[c], request[r].upto)
  BY <1>1 DEF RequestInv
<1>5. \A d \in Conversation \ {c} : Told(past[d], state[d].last, {})
  <2>1. \A d \in Conversation \ {c} : Pending(request[r], d) = {}
    BY DEF Pending
  <2>2. \A d \in Conversation : Told(past[d], state[d].last, Pending(request[r], d))
    BY OnePending
  <2> HIDE DEF c
  <2> QED
    BY <2>1, <2>2
<1> HIDE DEF c
<1>6. row \in StateRow /\ row.last = request[r].upto
  BY <1>1, <1>2 DEF TurnsInv, Typed, StateRow, RequestRow
<1> HIDE DEF row
<1>7. ConversationInv(messages[c], row, past[c]) /\ Told(past[c], row.last, {})
  BY <1>2, <1>4, <1>6 DEF TurnsInv, ConversationInv, Written
<1> QED
  BY <1>2, <1>3, <1>5, <1>6, <1>7 DEF c, row

LEMMA ChatFlushedRight ==
  ASSUME TurnsInv, NEW r \in Requests, ChatFlushed(r)
  PROVE  TurnsInv'
<1> DEFINE c   == SubjectOf(request[r])
           row == [state[c] EXCEPT !.last = request[r].upto]
<1>1. /\ request[r] \in RequestRow /\ RequestInv(request[r], messages, past) /\ Alone(r)
      /\ request[r].at = "flushed" /\ request[r].kind = "chat"
      /\ UserSaved(r, request[r]) /\ UNCHANGED <<profile, past, upsets>>
      /\ \A d \in Conversation : ConversationInv(messages[d], state[d], past[d])
  BY StepFacts DEF ChatFlushed, Awaits
<1>2. /\ c \in Conversation /\ Subject(r) = c /\ row \in StateRow
      /\ CommitMemoryExtractionCheckpoint(r) = row
      /\ ConversationInv(messages[c], row, past[c]) /\ Told(past[c], row.last, {})
      /\ \A d \in Conversation \ {c} : Told(past[d], state[d].last, {})
  BY <1>1, CheckpointRight
<1>3. state' = [state EXCEPT ![c] = row]
  BY <1>2 DEF ChatFlushed
<1> HIDE DEF c, row
<1>4. /\ state' \in [Conversation -> StateRow] /\ state'[c] = row
      /\ \A d \in Conversation \ {c} : state'[d] = state[d]
  BY <1>2, <1>3 DEF TurnsInv, Typed
<1>5. past' \in [Conversation -> PastRow] /\ past' = past
  BY <1>1 DEF TurnsInv, Typed
<1>6. \A d \in Conversation : ConversationInv(messages[d], state'[d], past'[d])
  BY <1>1, <1>2, <1>4, <1>5
<1>7. \A d \in Conversation : Told(past'[d], state'[d].last, {})
  BY <1>2, <1>4, <1>5
<1>8. request[r].conversation \in Conversation
  BY <1>1 DEF RequestInv, Awaits
<1> QED
  BY <1>1, <1>4, <1>5, <1>6, <1>7, <1>8, UserSavedMoves

\* The answer of a turn whose message was the last one said.
LEMMA AnswerSaid ==
  ASSUME profile \in Profile, NEW dialogue, NEW row, NEW was, ConversationInv(dialogue, row, was),
         Len(dialogue) \in Saved(dialogue, "user")
  PROVE  LET said == Append(dialogue, "assistant")
             plan == Plan(row, was, said, Len(dialogue), Len(said))
         IN  /\ said \in Seq(Roles)
             /\ PlanInv(plan, said, row, was) /\ ConversationInv(said, plan.row, plan.past)
<1> DEFINE said == Append(dialogue, "assistant")
           n == Len(dialogue)
           plan == Plan(row, was, said, n, Len(said))
<1>1. /\ dialogue \in Seq(Roles) /\ "user" \in Roles /\ "assistant" \in Roles /\ n \in Nat
      /\ row \in StateRow /\ was \in PastRow /\ row.last <= n /\ row.last \in Nat
      /\ was.told \subseteq Answers(dialogue) /\ Passed(dialogue, was, row.last, {})
      /\ was.since = 0 \/ was.since < LastUser(dialogue)
      /\ was.since \in Nat
  BY LenProperties DEF ConversationInv, Roles, StateRow, PastRow
<1>2. /\ said \in Seq(Roles) /\ Len(said) = n + 1
      /\ Saved(said, "user") = Saved(dialogue, "user")
      /\ Answers(said) = Answers(dialogue) \cup {n + 1}
  <2>1. /\ said \in Seq(Roles) /\ Len(said) = n + 1
        /\ \A role \in Roles : Saved(said, role)
              = Saved(dialogue, role) \cup (IF role = "assistant" THEN {n + 1} ELSE {})
    BY <1>1, SavedAfter
  <2> HIDE DEF said, n
  <2>2. Saved(said, "user") = Saved(dialogue, "user") \cup {}
    BY <1>1, <2>1
  <2> QED
    BY <1>1, <2>1, <2>2 DEF Answers
<1>3. /\ Saved(dialogue, "user") \in SUBSET (1 .. n)
      /\ Answers(dialogue) \in SUBSET (1 .. n)
  BY <1>1, SavedPlaces DEF Answers
<1>4. n >= 1 /\ n \in Saved(dialogue, "user")
  BY <1>1, <1>3
<1> HIDE DEF said
<1>5. LastAnswer(said) = n + 1
  <2>1. Answers(said) \in SUBSET (0 .. n + 1)
    BY <1>1, <1>2, <1>3
  <2>2. Latest(Answers(said)) \in 0 .. n + 1 /\ n + 1 <= Latest(Answers(said))
    <3>1. n + 1 \in Nat /\ n + 1 \in Answers(said)
      BY <1>1, <1>2
    <3> HIDE DEF n
    <3> QED
      BY <2>1, <3>1, LatestIsGreatest
  <2> QED
    BY <1>1, <2>2 DEF LastAnswer
<1>6. LastUser(said) = n
  <2>1. {i \in Saved(said, "user") : i < LastAnswer(said)} = Saved(dialogue, "user")
    BY <1>1, <1>2, <1>3, <1>5
  <2>2. Latest(Saved(dialogue, "user")) \in 0 .. n /\ n <= Latest(Saved(dialogue, "user"))
    <3>1. Saved(dialogue, "user") \in SUBSET (0 .. n)
      BY <1>3
    <3> HIDE DEF n
    <3> QED
      BY <1>1, <1>4, <3>1, LatestIsGreatest
  <2>3. LastUser(said) = Latest(Saved(dialogue, "user"))
    BY <2>1 DEF LastUser
  <2> QED
    BY <1>1, <2>2, <2>3
<1>7. was.since < n
  <2>1. LastUser(dialogue) \in 0 .. n /\ LastUser(dialogue) <= LastAnswer(dialogue)
        /\ LastAnswer(dialogue) \in 0 .. n
    BY <1>1, LatestPlaces
  <2>2. LastUser(dialogue) <= n /\ (LastUser(dialogue) = n => LastAnswer(dialogue) = n)
    BY <1>1, <2>1
  <2>3. LastAnswer(dialogue) = n => FALSE
    <3>1. LastAnswer(dialogue) \in Answers(dialogue) \cup {0}
      <4>1. Answers(dialogue) \in SUBSET (0 .. n)
        BY <1>3
      <4> HIDE DEF n
      <4> QED
        BY <1>1, <4>1, LatestIsGreatest DEF LastAnswer
    <3>2. n \notin Answers(dialogue)
      BY <1>4 DEF Answers, Saved
    <3> QED
      BY <1>4, <3>1, <3>2
  <2> QED
    BY <1>1, <1>4, <2>1, <2>2, <2>3
<1>8. Passed(said, was, row.last, {})
  BY <1>1, <1>2, <1>3 DEF Passed
<1>9. PlanInv(plan, said, row, was) /\ plan.past.since \in {was.since, n - 1}
  <2>1. /\ n \in 1 .. Len(said) /\ Len(said) \in 0 .. Len(said) /\ row.last <= Len(said)
        /\ was.told \subseteq Answers(said) /\ \A i \in was.told : i <= Len(said)
    BY <1>1, <1>2, <1>3, <1>4
  <2> HIDE DEF n
  <2> QED
    BY <1>1, <1>2, <1>7, <1>8, <2>1, PlanRight
<1> HIDE DEF plan
<1>10. plan.past.since < LastUser(said)
  BY <1>1, <1>6, <1>7, <1>9
<1>11. ConversationInv(said, plan.row, plan.past)
  <2>1. was.told \subseteq Answers(said)
    BY <1>1, <1>2
  <2> QED
    BY <1>2, <1>9, <1>10, <2>1 DEF ConversationInv, PlanInv
<1> QED
  BY <1>2, <1>9, <1>11 DEF plan, said

LEMMA AnsweredRight ==
  ASSUME TurnsInv, NEW r \in Requests, Answered(r)
  PROVE  TurnsInv'
<1> DEFINE row  == request[r]
           c    == row.conversation
           said == Append(messages[c], "assistant")
           plan == Plan(state[c], past[c], said, row.user, Len(said))
<1>1. /\ row \in RequestRow /\ RequestInv(row, messages, past) /\ Alone(r)
      /\ row.kind = "chat" /\ row.at = "answering"
      /\ messages' = [messages EXCEPT ![c] = said] /\ recent' = c
      /\ Planned(c, plan) /\ UNCHANGED <<profile, upsets>>
      /\ \A d \in Conversation : ConversationInv(messages[d], state[d], past[d])
      /\ \A d \in Conversation : Told(past[d], state[d].last, {})
  BY StepFacts DEF Answered, Awaits
<1>2. /\ c \in Conversation /\ row.user = Len(messages[c])
      /\ row.user \in Saved(messages[c], "user")
  BY <1>1 DEF RequestInv, Awaits
<1>3. /\ \/ Leave(r, "ended")
         \/ plan.due /\ Await(r, [row EXCEPT !.at = "extracting", !.batch = plan.batch,
                                             !.upto = Latest(plan.batch)])
  BY DEF Answered
<1> HIDE DEF row, c
<1>c. c = row.conversation
  BY DEF c
<1>4. /\ said \in Seq(Roles)
      /\ PlanInv(plan, said, state[c], past[c]) /\ ConversationInv(said, plan.row, plan.past)
  <2>1. profile \in Profile
    BY DEF TurnsInv, Typed
  <2> QED
    BY <1>1, <1>2, <2>1, AnswerSaid
<1> HIDE DEF plan, said
<1>5. plan.row \in StateRow /\ plan.past \in PastRow
  BY <1>4 DEF PlanInv
<1>6. /\ state' \in [Conversation -> StateRow] /\ past' \in [Conversation -> PastRow]
      /\ state'[c] = plan.row /\ past'[c] = plan.past
      /\ \A d \in Conversation \ {c} : state'[d] = state[d] /\ past'[d] = past[d]
  BY <1>1, <1>2, <1>5, PlannedMoves DEF TurnsInv
<1>7. /\ messages' \in [Conversation -> Seq(Roles)] /\ messages'[c] = said
      /\ \A d \in Conversation \ {c} : messages'[d] = messages[d]
      /\ recent' \in Conversation \cup {None}
  BY <1>1, <1>2, <1>4 DEF TurnsInv, Typed
<1>8. ASSUME NEW d \in Conversation
      PROVE  ConversationInv(messages'[d], state'[d], past'[d]) /\ Told(past'[d], state'[d].last, {})
  <2>1. CASE d = c
    BY <1>1, <1>2, <1>4, <1>6, <1>7, <2>1 DEF PlanInv
  <2>2. CASE d # c
    BY <1>1, <1>6, <1>7, <2>2
  <2> QED
    BY <2>1, <2>2
<1>9. CASE Leave(r, "ended")
  BY <1>1, <1>6, <1>7, <1>8, <1>9, LeaveMoves
<1>10. CASE plan.due /\ Await(r, [row EXCEPT !.at = "extracting", !.batch = plan.batch,
                                             !.upto = Latest(plan.batch)])
  <2> DEFINE batch == plan.batch
  <2>1. /\ batch \in SUBSET Nat /\ Latest(batch) \in Nat
        /\ Open(messages'[c], past'[c], batch, Latest(batch))
    BY <1>1, <1>2, <1>4, <1>6, <1>7, <1>10 DEF PlanInv
  <2>2. Await(r, [row EXCEPT !.at = "extracting", !.batch = batch, !.upto = Latest(batch)])
    BY <1>10
  <2>3. "extracting" \in {"flushing", "extracting"} /\ "extracting" # "flushing"
        /\ row.kind # "extract" /\ row.kind # "replay"
    BY <1>1
  <2> HIDE DEF batch
  <2> QED
    BY <1>1, <1>2, <1>6, <1>7, <1>8, <1>c, <2>1, <2>2, <2>3, BatchAwaited
<1> QED
  BY <1>3, <1>9, <1>10

LEMMA EndsRight ==
  ASSUME TurnsInv, NEW r \in Requests, Alone(r), NEW row \in StateRow, Subject(r) \in Conversation,
         ConversationInv(messages[Subject(r)], row, past[Subject(r)]),
         Told(past[Subject(r)], row.last, {}),
         \A d \in Conversation \ {Subject(r)} : Told(past[d], state[d].last, {}),
         EndsWithStatus(r, row)
  PROVE  TurnsInv'
<1>1. PICK c \in Conversation : c = Subject(r)
  OBVIOUS
<1>2. /\ Planned(c, PlanOfLatest(c, row)) /\ Leave(r, "ended")
      /\ UNCHANGED <<messages, recent, profile, upsets>>
  BY <1>1 DEF EndsWithStatus
<1>3. /\ state' \in [Conversation -> StateRow] /\ past' \in [Conversation -> PastRow]
      /\ \A d \in Conversation : ConversationInv(messages[d], state'[d], past'[d])
      /\ \A d \in Conversation : Told(past'[d], state'[d].last, {})
  BY <1>1, <1>2, PlannedRight
<1>4. messages' \in [Conversation -> Seq(Roles)] /\ recent' \in Conversation \cup {None}
  BY <1>2 DEF TurnsInv, Typed
<1> QED
  BY <1>2, <1>3, <1>4, LeaveMoves

LEMMA ExtractionEndsRight ==
  ASSUME TurnsInv, NEW r \in Requests, Extracted(r) \/ ExtractFlushed(r) \/ ExtractionFails(r)
  PROVE  TurnsInv'
<1>1. CASE Extracted(r) \/ ExtractFlushed(r)
  <2>1. /\ Alone(r) /\ request[r].at \in {"flushed", "extracted"}
        /\ EndsWithStatus(r, CommitMemoryExtractionCheckpoint(r))
    BY <1>1, StepFacts DEF Extracted, ExtractFlushed, Awaits
  <2>2. PICK c : c = SubjectOf(request[r])
    OBVIOUS
  <2> DEFINE row == [state[c] EXCEPT !.last = request[r].upto]
  <2>3. /\ c \in Conversation /\ Subject(r) = c /\ row \in StateRow
        /\ CommitMemoryExtractionCheckpoint(r) = row
        /\ ConversationInv(messages[c], row, past[c]) /\ Told(past[c], row.last, {})
        /\ \A d \in Conversation \ {c} : Told(past[d], state[d].last, {})
    BY <2>1, <2>2, CheckpointRight
  <2> HIDE DEF row
  <2> QED
    BY <2>1, <2>3, EndsRight
<1>2. CASE ExtractionFails(r)
  <2>1. /\ request[r] \in RequestRow /\ RequestInv(request[r], messages, past) /\ Alone(r)
        /\ request[r].at = "extracting" /\ EndsWithStatus(r, state[Subject(r)])
        /\ \A d \in Conversation : ConversationInv(messages[d], state[d], past[d])
        /\ \A d \in Conversation : Told(past[d], state[d].last, {})
    BY <1>2, StepFacts DEF ExtractionFails, Awaits
  <2>2. Subject(r) \in Conversation
    BY <2>1, SubjectExists DEF Subject, SubjectOf
  <2>3. state[Subject(r)] \in StateRow
    BY <2>2 DEF TurnsInv, Typed
  <2> QED
    BY <2>1, <2>2, <2>3, EndsRight
<1> QED
  BY <1>1, <1>2

\* A request that ends with nothing else.
LEMMA LeavesRight ==
  ASSUME TurnsInv, NEW r \in Requests,
         TurnThrows(r) \/ ReplayAnswered(r) \/ ExtractFails(r) \/ BeginThrows(r)
  PROVE  TurnsInv'
<1>1. /\ Begun(r) \/ request[r].at \in Awaits \ {"waiting"}
      /\ request[r].at \notin {"flushed", "extracted"}
      /\ Leave(r, "failed") \/ Leave(r, "ended")
      /\ UNCHANGED <<messages, recent, state, profile, past, upsets>>
  BY DEF TurnThrows, ReplayAnswered, ExtractFails, BeginThrows, Begun, Awaits
<1>2. /\ Alone(r)
      /\ \A d \in Conversation : ConversationInv(messages[d], state[d], past[d])
      /\ \A d \in Conversation : Told(past[d], state[d].last, {})
  BY <1>1, StepFacts
<1>3. /\ messages' \in [Conversation -> Seq(Roles)] /\ recent' \in Conversation \cup {None}
      /\ state' \in [Conversation -> StateRow] /\ past' \in [Conversation -> PastRow]
      /\ \A d \in Conversation : ConversationInv(messages'[d], state'[d], past'[d])
      /\ \A d \in Conversation : Told(past'[d], state'[d].last, {})
  BY <1>1, <1>2 DEF TurnsInv, Typed
<1> QED
  BY <1>1, <1>2, <1>3, LeaveMoves

LEMMA ReplayBeginsRight ==
  ASSUME TurnsInv, NEW r \in Requests, ReplayBegins(r)
  PROVE  TurnsInv'
<1> DEFINE row == [request[r] EXCEPT !.at = "answering"]
<1>1. /\ request[r] \in RequestRow /\ Alone(r) /\ request[r].kind = "replay"
      /\ request' = [request EXCEPT ![r] = row] /\ tail' = tail
      /\ UNCHANGED <<messages, recent, state, profile, past, upsets>>
      /\ request[r].at = "waiting"
      /\ \A d \in Conversation : ConversationInv(messages[d], state[d], past[d])
      /\ \A d \in Conversation : Told(past[d], state[d].last, {})
  BY StepFacts DEF ReplayBegins, Await, Begun
<1>2. row \in RequestRow /\ row.at = "answering" /\ row.kind = "replay"
  BY <1>1 DEF RequestRow, Awaits
<1> HIDE DEF row
<1>3. RequestInv(row, messages', past') /\ \A d \in Conversation : Pending(row, d) = {}
  BY <1>2 DEF RequestInv, Pending
<1>4. /\ messages' \in [Conversation -> Seq(Roles)] /\ recent' \in Conversation \cup {None}
      /\ state' \in [Conversation -> StateRow] /\ past' \in [Conversation -> PastRow]
      /\ \A d \in Conversation : ConversationInv(messages'[d], state'[d], past'[d])
      /\ \A d \in Conversation : Told(past'[d], state'[d].last, Pending(row, d))
      /\ row.at # "waiting"
  BY <1>1, <1>2, <1>3 DEF TurnsInv, Typed
<1> QED
  BY <1>1, <1>2, <1>3, <1>4, RequestMoves

LEMMA ServesRight ==
  ASSUME TurnsInv, Serves
  PROVE  TurnsInv'
<1>1. PICK r \in Requests : Begins(r) \/ Settles(r)
  BY DEF Serves
<1>2. CASE Begins(r)
  BY <1>2, ChatBeginsRight, ExtractBeginsRight, ReplayBeginsRight, LeavesRight DEF Begins
<1>3. CASE Settles(r)
  BY <1>3, StoredRight, ChatFlushedRight, ChatFlushFailsRight, LeavesRight, AnsweredRight,
     ExtractionEndsRight DEF Settles
<1> QED
  BY <1>1, <1>2, <1>3

\* The status is planned while a request may await its batch.
LEMMA StatusRight ==
  ASSUME TurnsInv, NEW c \in Conversation, Status(c)
  PROVE  TurnsInv'
<1> DEFINE plan == PlanOfLatest(c, state[c])
<1>1. Planned(c, plan) /\ UNCHANGED <<messages, recent, profile, tail, request, upsets>>
  BY DEF Status
<1>2. /\ messages[c] \in Seq(Roles) /\ state[c] \in StateRow /\ past[c] \in PastRow
      /\ ConversationInv(messages[c], state[c], past[c])
  BY DEF TurnsInv, Typed
<1>3. PlanInv(plan, messages[c], state[c], past[c]) /\ ConversationInv(messages[c], plan.row, plan.past)
  BY <1>2, PlanOfLatestRight DEF TurnsInv
<1> HIDE DEF plan
<1>4. /\ state' \in [Conversation -> StateRow] /\ past' \in [Conversation -> PastRow]
      /\ state'[c] = plan.row /\ past'[c] = plan.past
      /\ \A d \in Conversation \ {c} : state'[d] = state[d] /\ past'[d] = past[d]
  BY <1>1, <1>3, PlannedMoves DEF PlanInv, TurnsInv
<1>5. Typed'
  BY <1>1, <1>4 DEF Typed, TurnsInv
<1>6. OrderInv' /\ Requests' = Requests
  BY <1>1 DEF OrderInv, Before, Over, Requests, TurnsInv
<1>7. \A d \in Conversation : ConversationInv(messages'[d], state'[d], past'[d])
  BY <1>1, <1>3, <1>4 DEF TurnsInv
<1>8. ASSUME NEW d \in Conversation PROVE Told(past'[d], state'[d].last, AllPending(d)')
  <2>1. AllPending(d)' = AllPending(d)
    BY <1>1 DEF AllPending, Requests, Pending, SubjectOf
  <2>2. PICK more : more = AllPending(d)
    OBVIOUS
  <2>3. Told(past[d], state[d].last, more)
    BY <2>2 DEF TurnsInv
  <2>4. Told(past'[d], state'[d].last, more)
    BY <1>3, <1>4, <2>3 DEF PlanInv
  <2> QED
    BY <2>1, <2>2, <2>4
<1>9. ASSUME NEW q \in Requests PROVE RequestInv(request'[q], messages', past')
  <2> DEFINE row == request[q]
             d   == SubjectOf(row)
  <2>1. row \in RequestRow /\ RequestInv(row, messages, past)
    BY ElementOfSeq DEF TurnsInv, Typed, Requests
  <2>2. row.upto \in Nat
    BY <2>1 DEF RequestRow
  <2> HIDE DEF row
  <2>3. row.at \in {"flushing", "flushed", "extracting", "extracted"} => d \in Conversation
    BY <2>1, SubjectExists
  <2> HIDE DEF d
  <2>4. ASSUME d \in Conversation
        PROVE  /\ Open(messages[d], past[d], row.batch, row.upto)
                    => Open(messages[d], past'[d], row.batch, row.upto)
               /\ Written(messages[d], past[d], row.upto)
                    => Written(messages[d], past'[d], row.upto)
    <3>1. CASE d = c
      BY <1>2, <1>3, <1>4, <2>2, <3>1, PlanKeepsRequests
    <3>2. CASE d # c
      BY <1>4, <2>4, <3>2
    <3> QED
      BY <3>1, <3>2
  <2>5. RequestInv(row, messages, past')
    <3>1. row.at \in {"flushing", "extracting"} => Open(messages[d], past'[d], row.batch, row.upto)
      BY <2>1, <2>3, <2>4 DEF RequestInv, d
    <3>2. row.at \in {"flushed", "extracted"} => Written(messages[d], past'[d], row.upto)
      BY <2>1, <2>3, <2>4 DEF RequestInv, d
    <3> QED
      BY <2>1, <3>1, <3>2 DEF RequestInv, d
  <2>6. request'[q] = row /\ messages' = messages
    BY <1>1 DEF row
  <2> QED
    BY <2>5, <2>6
<1> QED
  BY <1>5, <1>6, <1>7, <1>8, <1>9 DEF TurnsInv

LEMMA ArriveRight ==
  ASSUME TurnsInv, NEW kind \in {"chat", "extract", "replay"}, NEW c \in Conversation \cup {None},
         NEW p \in Conversation \cup {None}, kind = "extract" => c \in Conversation,
         Arrive(kind, c, p)
  PROVE  TurnsInv'
<1> DEFINE row == Arrived(kind, c, p)
<1>n. PICK n \in Nat : n = Len(request)
  BY LenProperties DEF TurnsInv, Typed
<1>1. /\ request' = Append(request, row) /\ tail' = Len(request) + 1 /\ n < MaxRequests
      /\ UNCHANGED <<messages, recent, state, profile, past, upsets>>
  BY <1>n DEF Arrive
<1>2. tail \in Nat /\ MaxRequests \in Nat
  BY <1>n, TurnsAssumption DEF TurnsInv, OrderInv, TurnsAssumption
<1>3. /\ row \in RequestRow /\ row.at = "waiting" /\ row.after = tail
      /\ row.kind = kind /\ row.conversation = c
  BY <1>2 DEF Arrived, RequestRow, Awaits
<1> HIDE DEF row
<1>4. /\ request' \in Seq(RequestRow) /\ Len(request') = n + 1
      /\ request'[n + 1] = row /\ \A q \in Requests : request'[q] = request[q]
      /\ OrderInv'
  BY <1>1, <1>3, <1>n, OrderGrows DEF TurnsInv, Typed
<1>5. Requests = 1 .. n /\ Requests' = 1 .. n + 1
  BY <1>4, <1>n DEF Requests
<1>6. Typed'
  <2>1. Len(request') <= MaxRequests
    BY <1>1, <1>2, <1>4
  <2> QED
    BY <1>1, <1>4, <2>1 DEF TurnsInv, Typed
<1>7. ASSUME NEW d \in Conversation PROVE Told(past'[d], state'[d].last, AllPending(d)')
  <2>1. ASSUME NEW q \in Requests
        PROVE  q \in Requests' /\ Pending(request'[q], d) = Pending(request[q], d)
    BY <1>4, <1>5
  <2>2. AllPending(d) \subseteq AllPending(d)'
    BY <2>1 DEF AllPending, Pending, SubjectOf
  <2>3. Told(past[d], state[d].last, AllPending(d)')
    BY <2>2, ToldMore DEF TurnsInv
  <2> QED
    BY <1>1, <2>3
<1>8. ASSUME NEW q \in Requests' PROVE RequestInv(request'[q], messages', past')
  <2>1. CASE q \in Requests
    BY <1>1, <1>4, <2>1 DEF TurnsInv
  <2>2. CASE q = n + 1
    <3>1. RequestInv(row, messages', past')
      BY <1>3 DEF RequestInv, Awaits
    <3> QED
      BY <1>4, <2>2, <3>1
  <2> QED
    BY <1>5, <2>1, <2>2
<1>9. \A d \in Conversation : ConversationInv(messages'[d], state'[d], past'[d])
  BY <1>1 DEF TurnsInv
<1> QED
  BY <1>4, <1>6, <1>7, <1>8, <1>9 DEF TurnsInv

LEMMA ProfileEditedRight ==
  ASSUME TurnsInv, ProfileEdited
  PROVE  TurnsInv'
<1>1. /\ UNCHANGED <<messages, recent, state, tail, request, past>>
      /\ profile' \in Profile /\ upsets < MaxUpsets /\ upsets' = upsets + 1
  BY DEF ProfileEdited
<1>2. Typed'
  BY <1>1, TurnsAssumption DEF TurnsInv, Typed, TurnsAssumption
<1>3. OrderInv' /\ Requests' = Requests
  BY <1>1 DEF OrderInv, Before, Over, Requests, TurnsInv
<1>4. \A d \in Conversation : AllPending(d)' = AllPending(d)
  BY <1>1 DEF AllPending, Requests, Pending, SubjectOf
<1> QED
  BY <1>1, <1>2, <1>3, <1>4 DEF TurnsInv

LEMMA StutterRight ==
  ASSUME TurnsInv, UNCHANGED turnVars
  PROVE  TurnsInv'
<1>1. UNCHANGED <<messages, recent, state, profile, tail, request, past, upsets>>
  BY DEF turnVars
<1>2. OrderInv' /\ Typed' /\ Requests' = Requests
  BY <1>1 DEF OrderInv, Before, Over, Requests, Typed, TurnsInv
<1>3. \A d \in Conversation : AllPending(d)' = AllPending(d)
  BY <1>1 DEF AllPending, Requests, Pending, SubjectOf
<1> QED
  BY <1>1, <1>2, <1>3 DEF TurnsInv

\* A request that dies is over, and what it had written may be told again.
LEMMA DeathRight ==
  ASSUME TurnsInv, Death
  PROVE  TurnsInv'
<1> DEFINE after(r) == IF Over(r) THEN request[r] ELSE Left(request[r], "failed")
           lost(c)  == UNION {request[r].batch : r \in
             {q \in Requests : request[q].at \in {"flushed", "extracted"} /\ Subject(q) = c}}
           was(c)   == [past[c] EXCEPT !.again = @ \cup lost(c)]
<1>1. /\ tail' = 0 /\ upsets < MaxUpsets /\ upsets' = upsets + 1
      /\ request' = [r \in Requests |-> after(r)]
      /\ past' = [c \in Conversation |-> was(c)]
      /\ UNCHANGED <<messages, recent, state, profile>>
  BY DEF Death
<1>n. PICK n \in Nat : n = Len(request) /\ n <= MaxRequests
  BY LenProperties DEF TurnsInv, Typed
<1>2. Requests = 1 .. n
  BY <1>n DEF Requests
<1>3. ASSUME NEW r \in Requests
      PROVE  /\ request[r] \in RequestRow /\ RequestInv(request[r], messages, past)
             /\ after(r) \in RequestRow /\ after(r).at \in {"ended", "failed"}
             /\ after(r).kind = request[r].kind
             /\ after(r).conversation = request[r].conversation
  <2>1. request[r] \in RequestRow /\ RequestInv(request[r], messages, past)
    BY ElementOfSeq DEF TurnsInv, Typed, Requests
  <2> QED
    BY <2>1 DEF Over, Left, RequestRow
<1> HIDE DEF after
<1>4. request' \in Seq(RequestRow) /\ Len(request') = n /\ Requests' = Requests
      /\ \A r \in Requests : request'[r] = after(r)
  <2>1. request' = [r \in 1 .. n |-> after(r)] /\ \A r \in 1 .. n : after(r) \in RequestRow
    BY <1>1, <1>2, <1>3
  <2>2. request' \in Seq(RequestRow) /\ Len(request') = n
    BY <2>1
  <2> QED
    BY <1>2, <2>1, <2>2 DEF Requests
<1>5. \A r \in Requests : Over(r)'
  BY <1>3, <1>4 DEF Over
<1>6. OrderInv'
  BY <1>1, <1>3, <1>4, <1>5 DEF OrderInv, Before
<1>7. ASSUME NEW c \in Conversation
      PROVE  /\ was(c) \in PastRow /\ was(c).told = past[c].told
             /\ was(c).skipped = past[c].skipped /\ was(c).since = past[c].since
             /\ was(c).again = past[c].again \cup lost(c)
  <2>1. lost(c) \in SUBSET Nat
    BY <1>3 DEF RequestRow
  <2>2. past[c] \in PastRow
    BY DEF TurnsInv, Typed
  <2> HIDE DEF lost
  <2> QED
    BY <2>1, <2>2 DEF PastRow
<1>8. ASSUME NEW c \in Conversation PROVE AllPending(c) \subseteq lost(c)
  BY DEF AllPending, Pending, SubjectOf, Subject
<1> HIDE DEF was, lost
<1>9. past' \in [Conversation -> PastRow] /\ \A c \in Conversation : past'[c] = was(c)
  BY <1>1, <1>7
<1>10. Typed'
  <2>1. upsets' \in 0 .. MaxUpsets
    BY <1>1, TurnsAssumption DEF TurnsInv, Typed, TurnsAssumption
  <2> QED
    BY <1>1, <1>4, <1>9, <1>n, <2>1 DEF TurnsInv, Typed
<1>11. ASSUME NEW c \in Conversation
       PROVE  /\ ConversationInv(messages'[c], state'[c], past'[c])
              /\ Told(past'[c], state'[c].last, {})
  <2>1. ConversationInv(messages[c], state[c], past[c]) /\ Told(past[c], state[c].last, AllPending(c))
    BY DEF TurnsInv
  <2>2. ConversationInv(messages[c], state[c], was(c))
    BY <1>7, <2>1 DEF ConversationInv, Passed
  <2>3. Told(was(c), state[c].last, {})
    BY <1>7, <1>8, <2>1 DEF Told
  <2> QED
    BY <1>1, <1>9, <2>2, <2>3
<1>12. ASSUME NEW c \in Conversation PROVE Told(past'[c], state'[c].last, AllPending(c)')
  <2>1. {} \subseteq AllPending(c)'
    OBVIOUS
  <2> QED
    BY <1>11, <2>1, ToldMore
<1>13. ASSUME NEW r \in Requests PROVE RequestInv(request'[r], messages', past')
  <2>1. RequestInv(after(r), messages', past')
    BY <1>3 DEF RequestInv, Awaits
  <2> QED
    BY <1>4, <2>1
<1> QED
  BY <1>4, <1>6, <1>10, <1>11, <1>12, <1>13 DEF TurnsInv

LEMMA TurnsInvInit ==
  ASSUME TurnsInit
  PROVE  TurnsInv
<1> DEFINE was == [told |-> {}, again |-> {}, skipped |-> {}, since |-> 0]
<1>1. /\ messages = [c \in Conversation |-> <<>>] /\ recent = None
      /\ state = [c \in Conversation |-> NoState] /\ profile \in Profile
      /\ tail = 0 /\ request = <<>> /\ upsets = 0
      /\ past = [c \in Conversation |-> was]
  BY DEF TurnsInit
<1>2. MaxRequests \in Nat /\ MaxUpsets \in Nat
  BY TurnsAssumption DEF TurnsAssumption
<1>3. NoState \in StateRow /\ NoState.last = 0
  BY DEF NoState, StateRow
<1>4. was \in PastRow /\ was.told = {} /\ was.again = {} /\ was.since = 0
  BY DEF PastRow
<1> HIDE DEF was
<1>5. Typed
  BY <1>1, <1>2, <1>3, <1>4 DEF Typed
<1>6. Requests = {}
  BY <1>1 DEF Requests
<1>7. OrderInv
  BY <1>1, <1>6 DEF OrderInv
<1>8. Answers(<<>>) = {} /\ <<>> \in Seq(Roles) /\ Len(<<>>) = 0
  BY DEF Answers, Saved
<1>9. ConversationInv(<<>>, NoState, was)
  BY <1>3, <1>4, <1>8 DEF ConversationInv, Passed
<1>10. \A more : Told(was, NoState.last, more)
  BY <1>4 DEF Told
<1> QED
  BY <1>1, <1>5, <1>6, <1>7, <1>9, <1>10 DEF TurnsInv

LEMMA TurnsInvStep ==
  ASSUME TurnsInv, [TurnsNext]_turnVars
  PROVE  TurnsInv'
<1>1. CASE Arrives
  BY <1>1, ArriveRight
     DEF Arrives, Chat, ExtractConversationMemoryNow, ReplayTraceWithoutShortTermMemory
<1>2. CASE Serves
  BY <1>2, ServesRight
<1>3. CASE \E c \in Conversation : Status(c)
  BY <1>3, StatusRight
<1>4. CASE ProfileEdited
  BY <1>4, ProfileEditedRight
<1>5. CASE Death
  BY <1>5, DeathRight
<1>6. CASE UNCHANGED turnVars
  BY <1>6, StutterRight
<1> QED
  BY <1>1, <1>2, <1>3, <1>4, <1>5, <1>6 DEF TurnsNext

LEMMA TurnsTyped == TurnsInv => TurnsTypeOK
<1> SUFFICES ASSUME TurnsInv PROVE TurnsTypeOK
  OBVIOUS
<1>1. tail \in 0 .. MaxRequests
  BY LenProperties, TurnsAssumption DEF TurnsInv, Typed, OrderInv, TurnsAssumption
<1> QED
  BY <1>1 DEF TurnsInv, Typed, TurnsTypeOK, Roles, PastRow

-----------------------------------------------------------------------------
(* What holds of every run of the turns.                                   *)

\* The inductive invariant: the queue's order, and what memory was told of
\* each conversation up to its checkpoint and up to each batch.
THEOREM TurnsCorrect == TurnsSpec => []TurnsInv
<1>1. TurnsInit => TurnsInv
  BY TurnsInvInit
<1>2. TurnsInv /\ [TurnsNext]_turnVars => TurnsInv'
  BY TurnsInvStep
<1> QED
  BY <1>1, <1>2, PTL DEF TurnsSpec

\* Messages, rows of conversation_extraction_states, the map of queues and
\* the requests have their types.
THEOREM TurnsTypes == TurnsSpec => []TurnsTypeOK
BY TurnsTyped, TurnsCorrect, PTL

\* withConversationTurnLock: a request that is past the lock and not over is
\* the only one, and every request that arrived before it is over.
ServedInOrder ==
  \A r \in Requests : request[r].at # "waiting" /\ ~Over(r) =>
    /\ \A q \in Requests : q < r => Over(q)
    /\ \A q \in Requests \ {r} : request[q].at = "waiting" \/ Over(q)

\* The lock serves requests one after the other, as they came.
THEOREM OneTurnAtATime == TurnsSpec => []ServedInOrder
<1>1. TurnsInv => ServedInOrder
  BY ServedAlone DEF TurnsInv, Typed, ServedInOrder, Alone, Before, Over
<1> QED
  BY <1>1, TurnsCorrect, PTL

\* The checkpoint of a conversation passes no complete turn whose memory was
\* not written (planMemoryExtraction, commitMemoryExtractionCheckpoint).
THEOREM NothingPassedOver == TurnsSpec => []NothingPassed
<1>1. TurnsInv => NothingPassed
  BY DEF TurnsInv, ConversationInv, Passed, Answers, NothingPassed
<1> QED
  BY <1>1, TurnsCorrect, PTL

\* No turn is written twice for one row of conversation_extraction_states,
\* but for a death between the writes and the checkpoint.
THEOREM TurnsExtractedOnce == TurnsSpec => ExtractedOnce
<1>1. TurnsInv /\ [TurnsNext]_turnVars =>
        [\A r \in Requests : Stored(r) =>
           request[r].batch \cap past[Subject(r)].told \subseteq past[Subject(r)].again]_turnVars
  <2> SUFFICES ASSUME TurnsInv, NEW r \in Requests, Stored(r)
               PROVE  request[r].batch \cap past[Subject(r)].told \subseteq past[Subject(r)].again
    OBVIOUS
  <2>1. /\ request[r] \in RequestRow /\ RequestInv(request[r], messages, past)
        /\ request[r].at \in {"flushing", "extracting"}
    BY StepFacts DEF Stored, Awaits
  <2>2. Subject(r) = SubjectOf(request[r])
    BY DEF Subject, SubjectOf
  <2> QED
    BY <2>1, <2>2 DEF RequestInv, Open
<1> QED
  BY <1>1, TurnsCorrect, PTL DEF TurnsSpec, ExtractedOnce

-----------------------------------------------------------------------------
(* The queue of turns.                                                     *)

\* Only request r moves, past the lock.
MovesOn(r) == /\ request' = [request EXCEPT ![r] = request'[r]]
              /\ request'[r].at # "waiting"

LEMMA MovedRow ==
  ASSUME NEW row, "at" \in DOMAIN row
  PROVE  /\ \A at : [row EXCEPT !.at = at].at = at
         /\ \A at : Left(row, at).at = at
         /\ \A at, user : [row EXCEPT !.at = at, !.user = user].at = at
         /\ \A at, batch, upto :
              [row EXCEPT !.at = at, !.batch = batch, !.upto = upto].at = at
         /\ \A c, p : "at" \in DOMAIN [row EXCEPT !.conversation = c, !.previous = p]
         /\ \A d : "at" \in DOMAIN [row EXCEPT !.degraded = d]
BY DEF Left

LEMMA AwaitMovesOn ==
  ASSUME request \in Seq(RequestRow), NEW r \in Requests, NEW row, row.at # "waiting",
         request' = [request EXCEPT ![r] = row]
  PROVE  MovesOn(r)
<1>1. r \in DOMAIN request
  BY LenProperties DEF Requests
<1> QED BY <1>1 DEF MovesOn

LEMMA UserSavedMovesOn ==
  ASSUME request \in Seq(RequestRow), NEW r \in Requests, NEW row, "at" \in DOMAIN row,
         UserSaved(r, row)
  PROVE  MovesOn(r)
<1> DEFINE answering == [row EXCEPT !.at = "answering",
                                    !.user = Len(messages[row.conversation]) + 1]
<1>1. request' = [request EXCEPT ![r] = answering]
  BY DEF UserSaved, Await
<1>2. answering.at = "answering"
  BY MovedRow
<1> HIDE DEF answering
<1> QED BY <1>1, <1>2, AwaitMovesOn

LEMMA LeaveMovesOn ==
  ASSUME request \in Seq(RequestRow), NEW r \in Requests, NEW at \in {"ended", "failed"},
         Leave(r, at)
  PROVE  MovesOn(r)
<1>1. request[r] \in RequestRow
  BY LenProperties DEF Requests
<1>2. "at" \in DOMAIN request[r]
  BY <1>1 DEF RequestRow
<1>3. request' = [request EXCEPT ![r] = Left(request[r], at)]
  BY DEF Leave
<1>4. Left(request[r], at).at = at
  BY <1>2, MovedRow
<1>5. Left(request[r], at).at # "waiting"
  BY <1>4
<1> QED BY <1>3, <1>5, AwaitMovesOn

LEMMA FlushMovesOn ==
  ASSUME request \in Seq(RequestRow), NEW r \in Requests, NEW row, "at" \in DOMAIN row,
         NEW batch, FlushAwaited(r, row, batch)
  PROVE  MovesOn(r)
<1> DEFINE flushing == [row EXCEPT !.at = "flushing", !.batch = batch, !.upto = Latest(batch)]
<1>1. request' = [request EXCEPT ![r] = flushing]
  BY DEF FlushAwaited, Await
<1>2. flushing.at = "flushing"
  BY MovedRow
<1> HIDE DEF flushing
<1> QED BY <1>1, <1>2, AwaitMovesOn

\* A request that begins gets past the lock.
LEMMA BeginsMovesOn ==
  ASSUME request \in Seq(RequestRow), NEW r \in Requests, Begins(r)
  PROVE  MovesOn(r)
<1>1. request[r] \in RequestRow
  BY LenProperties DEF Requests
<1>2. "at" \in DOMAIN request[r]
  BY <1>1 DEF RequestRow
<1>3. CASE ChatBegins(r)
  <2>1. PICK c \in Conversations(r) :
          LET row == [request[r] EXCEPT !.conversation = c, !.previous = PreviousOf(r)]
          IN \/ UserSaved(r, row)
             \/ \E batch : FlushAwaited(r, row, batch)
    BY <1>3 DEF ChatBegins
  <2> DEFINE row == [request[r] EXCEPT !.conversation = c, !.previous = PreviousOf(r)]
  <2>2. "at" \in DOMAIN row
    BY <1>2, MovedRow
  <2>3. UserSaved(r, row) \/ \E batch : FlushAwaited(r, row, batch)
    BY <2>1
  <2> HIDE DEF row
  <2> QED BY <2>2, <2>3, UserSavedMovesOn, FlushMovesOn
<1>4. CASE ExtractBegins(r)
  <2>1. Leave(r, "ended") \/ \E batch : FlushAwaited(r, request[r], batch)
    BY <1>4 DEF ExtractBegins
  <2> QED BY <1>2, <2>1, LeaveMovesOn, FlushMovesOn
<1>5. CASE ReplayBegins(r)
  <2> DEFINE row == [request[r] EXCEPT !.at = "answering"]
  <2>1. request' = [request EXCEPT ![r] = row]
    BY <1>5 DEF ReplayBegins, Await
  <2>2. row.at = "answering"
    BY <1>2, MovedRow
  <2> HIDE DEF row
  <2> QED BY <2>1, <2>2, AwaitMovesOn
<1>6. CASE BeginThrows(r)
  BY <1>6, LeaveMovesOn DEF BeginThrows
<1> QED BY <1>3, <1>4, <1>5, <1>6 DEF Begins

\* What a request awaits ends behind the lock.
LEMMA SettlesMovesOn ==
  ASSUME request \in Seq(RequestRow), NEW r \in Requests, Settles(r)
  PROVE  MovesOn(r)
<1>1. request[r] \in RequestRow
  BY LenProperties DEF Requests
<1>2. "at" \in DOMAIN request[r]
  BY <1>1 DEF RequestRow
<1>3. CASE Stored(r)
  <2> DEFINE at == IF request[r].at = "flushing" THEN "flushed" ELSE "extracted"
             row == [request[r] EXCEPT !.at = at]
  <2>1. request' = [request EXCEPT ![r] = row]
    BY <1>2, <1>3 DEF Stored, Await
  <2>2. row.at = at
    BY <1>2, MovedRow
  <2>3. row.at # "waiting"
    BY <2>2
  <2> HIDE DEF row
  <2> QED BY <2>1, <2>3, AwaitMovesOn
<1>4. CASE ChatFlushed(r)
  BY <1>2, <1>4, UserSavedMovesOn DEF ChatFlushed
<1>5. CASE ChatFlushFails(r)
  <2> DEFINE row == [request[r] EXCEPT !.degraded = TRUE]
  <2>1. "at" \in DOMAIN row
    BY <1>2, MovedRow
  <2>2. UserSaved(r, row)
    BY <1>5 DEF ChatFlushFails
  <2> HIDE DEF row
  <2> QED BY <2>1, <2>2, UserSavedMovesOn
<1>6. CASE Answered(r)
  <2>1. \/ Leave(r, "ended")
        \/ \E batch, upto : request' = [request EXCEPT ![r] =
             [request[r] EXCEPT !.at = "extracting", !.batch = batch, !.upto = upto]]
    <3> DEFINE said == Append(messages[request[r].conversation], "assistant")
               plan == Plan(state[request[r].conversation], past[request[r].conversation],
                            said, request[r].user, Len(said))
    <3>1. IF plan.due
          THEN Await(r, [request[r] EXCEPT !.at = "extracting", !.batch = plan.batch,
                                           !.upto = Latest(plan.batch)])
          ELSE Leave(r, "ended")
      BY <1>6 DEF Answered
    <3> HIDE DEF plan
    <3> QED BY <3>1 DEF Await
  <2>2. ASSUME NEW batch, NEW upto,
               request' = [request EXCEPT ![r] =
                 [request[r] EXCEPT !.at = "extracting", !.batch = batch, !.upto = upto]]
        PROVE  MovesOn(r)
    <3> DEFINE row == [request[r] EXCEPT !.at = "extracting", !.batch = batch, !.upto = upto]
    <3>1. row.at = "extracting" /\ request' = [request EXCEPT ![r] = row]
      BY <1>2, <2>2, MovedRow
    <3> HIDE DEF row
    <3> QED BY <3>1, AwaitMovesOn
  <2> QED BY <2>1, <2>2, LeaveMovesOn
<1>7. CASE TurnThrows(r) \/ ReplayAnswered(r) \/ Extracted(r) \/ ExtractionFails(r)
           \/ ExtractFlushed(r) \/ ExtractFails(r)
  BY <1>7, LeaveMovesOn DEF TurnThrows, ReplayAnswered, Extracted, ExtractionFails,
                            ExtractFlushed, ExtractFails, EndsWithStatus
<1> QED BY <1>3, <1>4, <1>5, <1>6, <1>7 DEF Settles
-----------------------------------------------------------------------------
(* The chain of promises implements the queue.                             *)

\* The first n requests are over, the others are not.
OverUpTo(n) == \A r \in Requests : Over(r) <=> r <= n

\* Those others are the line.
LineAfter(n) == Line = [i \in 1 .. Len(request) - n |-> n + i]

\* Request r is past the lock and not over.
Holds(r) == request[r].at # "waiting" /\ ~Over(r)

LEMMA LineIs ==
  request \in Seq(RequestRow) =>
    \A n \in 0 .. Len(request) : OverUpTo(n) => LineAfter(n)
<1> SUFFICES ASSUME request \in Seq(RequestRow), NEW n \in 0 .. Len(request), OverUpTo(n)
             PROVE  LineAfter(n)
  OBVIOUS
<1> DEFINE N == Len(request)
           over == {r \in Requests : Over(r)}
           all == [r \in Requests |-> r]
           last == Latest(over)
<1>1. N \in Nat /\ Requests = 1 .. N
  BY LenProperties DEF Requests
<1>2. over \in SUBSET (0 .. N)
  BY <1>1
<1>3. last \in over \cup {0} /\ \A i \in over : i <= last
  BY <1>1, <1>2, LatestIsGreatest
<1> HIDE DEF last
<1>4. over = 1 .. n
  BY <1>1 DEF OverUpTo
<1>5. last = n
  BY <1>3, <1>4
<1>6. Line = SubSeq(all, n + 1, N)
  BY <1>5 DEF Line, last
<1>7. SubSeq(all, n + 1, N) = [i \in 1 .. (1 + N - (n + 1)) |-> all[i + (n + 1) - 1]]
  BY SMT
<1>8. 1 .. (1 + N - (n + 1)) = 1 .. N - n
  BY <1>1
<1>9. \A i \in 1 .. N - n : all[i + (n + 1) - 1] = n + i
  BY <1>1
<1> QED BY <1>6, <1>7, <1>8, <1>9 DEF LineAfter

\* Requests end in the order in which they arrived.
LEMMA FirstAreOver ==
  ASSUME request \in Seq(RequestRow), OrderInv
  PROVE  \E n \in 0 .. Len(request) : OverUpTo(n)
<1> DEFINE over == {r \in Requests : Over(r)}
           n == Latest(over)
<1>1. Len(request) \in Nat /\ Requests = 1 .. Len(request)
  BY LenProperties DEF Requests
<1>2. over \in SUBSET (0 .. Len(request))
  BY <1>1
<1>3. n \in over \cup {0} /\ (\A i \in over : i <= n) /\ n \in 0 .. Len(request)
  BY <1>1, <1>2, LatestIsGreatest
<1> HIDE DEF n
<1>4. ASSUME NEW r \in Requests, r <= n PROVE Over(r)
  <2>1. n \in Requests /\ Over(n)
    BY <1>1, <1>3, <1>4
  <2>2. request[n].at # "waiting"
    BY <2>1 DEF Over
  <2>3. Before(n)
    BY <2>1, <2>2 DEF OrderInv
  <2> QED BY <1>1, <1>4, <2>1, <2>3 DEF Before
<1>5. \A r \in Requests : Over(r) => r <= n
  BY <1>3
<1>6. OverUpTo(n)
  BY <1>4, <1>5 DEF OverUpTo
<1> QED BY <1>3, <1>6

\* The request that is served is the one that holds the lock.
LEMMA ServedIs ==
  request \in Seq(RequestRow) =>
    /\ \A r \in Requests : Holds(r) /\ (\A q \in Requests \ {r} : ~Holds(q)) => Served = r
    /\ (\A q \in Requests : ~Holds(q)) => Served = 0
<1> SUFFICES ASSUME request \in Seq(RequestRow)
             PROVE  /\ \A r \in Requests : Holds(r) /\ (\A q \in Requests \ {r} : ~Holds(q))
                                           => Served = r
                    /\ (\A q \in Requests : ~Holds(q)) => Served = 0
  OBVIOUS
<1> DEFINE holding == {r \in Requests : ~Over(r) /\ request[r].at # "waiting"}
<1>1. Len(request) \in Nat /\ Requests = 1 .. Len(request)
  BY LenProperties DEF Requests
<1>2. holding \in SUBSET (0 .. Len(request))
  BY <1>1
<1>3. Served \in holding \cup {0} /\ \A i \in holding : i <= Served
  BY <1>1, <1>2, LatestIsGreatest DEF Served
<1>4. ASSUME NEW r \in Requests, Holds(r), \A q \in Requests \ {r} : ~Holds(q)
      PROVE  Served = r
  <2>1. holding = {r}
    BY <1>4 DEF Holds
  <2>2. r \in 1 .. Len(request) /\ Served \in {0, r} /\ r <= Served
    BY <1>1, <1>3, <2>1
  <2> QED BY <1>1, <2>2
<1>5. (\A q \in Requests : ~Holds(q)) => Served = 0
  BY <1>3 DEF Holds
<1> QED BY <1>4, <1>5

\* Both facts of the state after a step.
LEMMA QueuePrimed ==
  request' \in Seq(RequestRow) =>
    /\ \A n \in 0 .. Len(request') : OverUpTo(n)' => LineAfter(n)'
    /\ \A r \in Requests' : Holds(r)' /\ (\A q \in Requests' \ {r} : ~Holds(q)') => Served' = r
    /\ (\A q \in Requests' : ~Holds(q)') => Served' = 0
<1>1. (request \in Seq(RequestRow) =>
         \A n \in 0 .. Len(request) : OverUpTo(n) => LineAfter(n))'
  BY LineIs, PTL
<1>2. (request \in Seq(RequestRow) =>
         /\ \A r \in Requests : Holds(r) /\ (\A q \in Requests \ {r} : ~Holds(q)) => Served = r
         /\ (\A q \in Requests : ~Holds(q)) => Served = 0)'
  BY ServedIs, PTL
<1> QED BY <1>1, <1>2

\* A step of the request that is alone is one of the queue's, or none.
LEMMA AloneMovesQueue ==
  ASSUME request \in Seq(RequestRow), OrderInv, request' \in Seq(RequestRow),
         NEW r \in Requests, Alone(r), MovesOn(r)
  PROVE  Queue!Serve \/ Queue!End \/ Queue!ServeAndEnd \/ UNCHANGED <<Line, Served>>
<1>n. PICK N \in Nat : N = Len(request)
  BY LenProperties
<1>1. N \in Nat /\ Requests = 1 .. N /\ DOMAIN request = 1 .. N
  BY <1>n, LenProperties DEF Requests
<1>2. /\ Len(request') = N /\ Requests' = Requests
      /\ \A q \in Requests \ {r} : request'[q] = request[q]
  <2>1. DOMAIN request' = DOMAIN request
    BY DEF MovesOn
  <2>2. request'[r] \in RequestRow
    BY <1>1, <2>1
  <2>3. Len(request') = N
    <3>1. PICK row \in RequestRow : row = request'[r]
      BY <2>2
    <3>2. request' = [request EXCEPT ![r] = row]
      BY <3>1 DEF MovesOn
    <3> QED BY <1>1, <1>n, <3>2, ExceptSeq
  <2>4. \A q \in Requests \ {r} : request'[q] = request[q]
    BY <1>1 DEF MovesOn
  <2> QED BY <1>1, <2>3, <2>4 DEF Requests
<1>3. \A q \in Requests \ {r} : /\ Over(q)' <=> Over(q)
                                /\ ~Holds(q) /\ ~Holds(q)'
  BY <1>2 DEF Over, Holds, Alone
<1>4. PICK n \in 0 .. N : OverUpTo(n)
  BY <1>n, FirstAreOver
<1>5. Line = [i \in 1 .. N - n |-> n + i]
  BY <1>n, <1>4, LineIs DEF LineAfter
<1>6. r = n + 1
  <2>1. ~(r <= n)
    BY <1>4 DEF OverUpTo, Alone
  <2>2. n + 1 < r => n + 1 \in Requests /\ ~Over(n + 1)
    BY <1>1, <1>4 DEF OverUpTo
  <2> QED BY <1>1, <2>1, <2>2 DEF Alone, Before
<1>7. Line \in Seq(Nat) /\ Len(Line) = N - n /\ Line # <<>> /\ Head(Line) = r
  <2>1. N - n \in Nat \ {0}
    BY <1>1, <1>4, <1>6
  <2>2. Line \in Seq(Nat) /\ Len(Line) = N - n /\ Line[1] = r
    BY <1>4, <1>5, <1>6, <2>1
  <2> QED BY <2>1, <2>2
<1>8. Served = IF request[r].at = "waiting" THEN 0 ELSE r
  <2>1. CASE request[r].at = "waiting"
    BY <1>3, <2>1, ServedIs DEF Holds
  <2>2. CASE request[r].at # "waiting"
    BY <1>3, <2>2, ServedIs DEF Holds, Alone
  <2> QED BY <2>1, <2>2
<1>9. CASE ~Over(r)'
  <2>1. OverUpTo(n)'
    BY <1>2, <1>3, <1>4, <1>9 DEF OverUpTo, Alone
  <2>2. Line' = Line
    BY <1>2, <1>4, <1>5, <2>1, QueuePrimed DEF LineAfter
  <2>3. Holds(r)'
    BY <1>9 DEF Holds, MovesOn
  <2>4. Served' = r
    BY <1>2, <1>3, <2>3, QueuePrimed
  <2> QED BY <1>1, <1>7, <1>8, <2>2, <2>4 DEF Queue!Serve
<1>10. CASE Over(r)'
  <2>1. OverUpTo(n + 1)'
    BY <1>1, <1>2, <1>3, <1>4, <1>6, <1>10 DEF OverUpTo
  <2>2. Line' = [i \in 1 .. N - (n + 1) |-> n + 1 + i]
    BY <1>1, <1>2, <1>4, <1>6, <2>1, QueuePrimed DEF LineAfter
  <2>3. Tail(Line) = [i \in 1 .. N - (n + 1) |-> n + 1 + i]
    <3>1. Tail(Line) \in Seq(Nat) /\ Len(Tail(Line)) = N - (n + 1)
      BY <1>1, <1>4, <1>7, HeadTailProperties
    <3>2. \A i \in 1 .. N - (n + 1) : Tail(Line)[i] = n + 1 + i
      <4>1. \A i \in 1 .. Len(Tail(Line)) : Tail(Line)[i] = Line[i + 1]
        BY <1>7, HeadTailProperties
      <4>2. \A i \in 1 .. N - (n + 1) : Line[i + 1] = n + 1 + i
        BY <1>1, <1>4, <1>5
      <4> QED BY <3>1, <4>1, <4>2
    <3>3. Tail(Line) = [i \in 1 .. N - (n + 1) |-> Tail(Line)[i]]
      BY <3>1, LenProperties
    <3> QED BY <3>2, <3>3
  <2>4. Line' = Tail(Line)
    BY <2>2, <2>3
  <2>5. Served' = 0
    BY <1>2, <1>3, <1>10, QueuePrimed DEF Holds
  <2> QED BY <1>1, <1>7, <1>8, <2>4, <2>5 DEF Queue!End, Queue!ServeAndEnd
<1> QED BY <1>9, <1>10

\* A request that arrives joins the line behind the others.
LEMMA ArrivesJoin ==
  ASSUME request \in Seq(RequestRow), OrderInv, request' \in Seq(RequestRow),
         NEW row, row.at = "waiting", Len(request) < MaxRequests,
         request' = Append(request, row)
  PROVE  \E r \in 1 .. MaxRequests : Queue!Join(r)
<1>n. PICK N \in Nat : N = Len(request)
  BY LenProperties
<1>1. N \in Nat /\ Requests = 1 .. N /\ N < MaxRequests /\ MaxRequests \in Nat
  BY <1>n, LenProperties, TurnsAssumption DEF Requests, TurnsAssumption
<1>2. /\ Len(request') = N + 1 /\ Requests' = 1 .. N + 1
      /\ request'[N + 1] = row /\ \A q \in 1 .. N : request'[q] = request[q]
  BY <1>n, AppendProperties, LenProperties DEF Requests
<1>3. \A q \in 1 .. N : (Over(q)' <=> Over(q)) /\ (Holds(q)' <=> Holds(q))
  BY <1>2 DEF Over, Holds
<1>4. ~Over(N + 1)' /\ ~Holds(N + 1)'
  BY <1>2 DEF Over, Holds
<1>5. PICK n \in 0 .. N : OverUpTo(n)
  BY <1>n, FirstAreOver
<1>6. Line = [i \in 1 .. N - n |-> n + i]
  BY <1>n, <1>5, LineIs DEF LineAfter
<1>7. OverUpTo(n)'
  <2> SUFFICES ASSUME NEW q \in 1 .. N + 1 PROVE Over(q)' <=> q <= n
    BY <1>2 DEF OverUpTo
  <2>1. CASE q = N + 1
    BY <1>1, <1>4, <1>5, <2>1
  <2>2. CASE q # N + 1
    BY <1>1, <1>3, <1>5, <2>2 DEF OverUpTo
  <2> QED BY <2>1, <2>2
<1>8. Line' = [i \in 1 .. N + 1 - n |-> n + i]
  BY <1>1, <1>2, <1>5, <1>7, QueuePrimed DEF LineAfter
<1>9. Line \in Seq(Nat) /\ Len(Line) = N - n
  <2>1. N - n \in Nat
    BY <1>1, <1>5
  <2> QED BY <1>5, <1>6, <2>1
<1>10. Append(Line, N + 1) = [i \in 1 .. N + 1 - n |-> n + i]
  <2>1. /\ Append(Line, N + 1) \in Seq(Nat) /\ Len(Append(Line, N + 1)) = N + 1 - n
        /\ \A i \in 1 .. N - n : Append(Line, N + 1)[i] = Line[i]
        /\ Append(Line, N + 1)[N - n + 1] = N + 1
    BY <1>1, <1>5, <1>9, AppendProperties
  <2>2. Append(Line, N + 1) = [i \in 1 .. N + 1 - n |-> Append(Line, N + 1)[i]]
    BY <2>1, LenProperties
  <2>3. \A i \in 1 .. N + 1 - n : Append(Line, N + 1)[i] = n + i
    <3> TAKE i \in 1 .. N + 1 - n
    <3>1. CASE i = N - n + 1
      BY <1>1, <1>5, <2>1, <3>1
    <3>2. CASE i # N - n + 1
      <4>1. i \in 1 .. N - n
        BY <1>1, <1>5, <3>2
      <4> QED BY <1>6, <2>1, <4>1
    <3> QED BY <3>1, <3>2
  <2> QED BY <2>2, <2>3
<1>11. \A i \in DOMAIN Line : Line[i] # N + 1
  BY <1>1, <1>5, <1>6
<1>12. Served' = Served
  <2>1. CASE \A q \in Requests : ~Holds(q)
    <3>1. \A q \in Requests' : ~Holds(q)'
      BY <1>1, <1>2, <1>3, <1>4, <2>1
    <3> QED BY <2>1, <3>1, ServedIs, QueuePrimed
  <2>2. ASSUME NEW q \in Requests, Holds(q) PROVE Served' = Served
    <3>1. \A p \in Requests \ {q} : ~Holds(p)
      BY <1>1, <2>2 DEF OrderInv, Before, Holds
    <3>2. \A p \in Requests' \ {q} : ~Holds(p)'
      BY <1>1, <1>2, <1>3, <1>4, <3>1
    <3>3. q \in Requests' /\ Holds(q)'
      BY <1>1, <1>2, <1>3, <2>2
    <3>4. Served = q
      BY <2>2, <3>1, ServedIs
    <3>5. Served' = q
      BY <3>2, <3>3, QueuePrimed
    <3> QED BY <3>4, <3>5
  <2> QED BY <2>1, <2>2
<1> QED
  <2>1. N + 1 \in 1 .. MaxRequests
    BY <1>1
  <2>2. Queue!Join(N + 1)
    BY <1>8, <1>10, <1>11, <1>12 DEF Queue!Join
  <2> QED BY <2>1, <2>2

\* A death empties the queue.
LEMMA DeathEmpties ==
  ASSUME request \in Seq(RequestRow), request' \in Seq(RequestRow), Death
  PROVE  Queue!Die
<1>n. PICK N \in Nat : N = Len(request)
  BY LenProperties
<1>1. N \in Nat /\ Requests = 1 .. N
  BY <1>n DEF Requests
<1>2. Requests' = 1 .. N /\ Len(request') = N
  <2>1. DOMAIN request' = 1 .. N
    BY <1>1 DEF Death
  <2>2. DOMAIN request' = 1 .. Len(request') /\ Len(request') \in Nat
    BY LenProperties
  <2>3. Len(request') = N
    BY <1>1, <2>1, <2>2
  <2> QED BY <2>3 DEF Requests
<1>3. ASSUME NEW q \in Requests PROVE Over(q)'
  <2>1. request[q] \in RequestRow
    BY <1>n, <1>1, ElementOfSeq
  <2>2. "at" \in DOMAIN request[q]
    BY <2>1 DEF RequestRow
  <2>3. Left(request[q], "failed").at = "failed"
    BY <2>2, MovedRow
  <2> QED BY <2>3 DEF Death, Over
<1>4. OverUpTo(N)'
  BY <1>1, <1>2, <1>3 DEF OverUpTo
<1>5. Line' = [i \in 1 .. N - N |-> N + i]
  BY <1>1, <1>2, <1>4, QueuePrimed DEF LineAfter
<1>6. Line' = <<>>
  <2>1. 1 .. N - N = {}
    BY <1>1
  <2> QED BY <1>5, <2>1
<1>7. Served' = 0
  BY <1>1, <1>2, <1>3, QueuePrimed DEF Holds
<1> QED BY <1>6, <1>7 DEF Queue!Die

\* Every step of the turns is a step of the queue, or leaves it as it is.
LEMMA TurnsStepQueue ==
  ASSUME TurnsInv, TurnsInv', [TurnsNext]_turnVars
  PROVE  [Queue!Next]_(Queue!vars)
<1>1. /\ request \in Seq(RequestRow) /\ OrderInv
      /\ request' \in Seq(RequestRow) /\ OrderInv'
  BY DEF TurnsInv, Typed
<1>2. ASSUME NEW r \in Requests, Begins(r) \/ Settles(r) PROVE [Queue!Next]_(Queue!vars)
  <2>1. MovesOn(r)
    BY <1>1, <1>2, BeginsMovesOn, SettlesMovesOn
  <2>2. Alone(r)
    <3>1. Begun(r) \/ request[r].at \in Awaits \ {"waiting"}
      BY <1>2 DEF Begins, Settles, ChatBegins, ExtractBegins, ReplayBegins, BeginThrows,
                  Stored, ChatFlushed, ChatFlushFails, TurnThrows, Answered, ReplayAnswered,
                  Extracted, ExtractionFails, ExtractFlushed, ExtractFails, Awaits
    <3> QED BY <3>1, StepFacts
  <2> QED BY <1>1, <2>1, <2>2, AloneMovesQueue DEF Queue!Next, Queue!vars
<1>3. ASSUME NEW kind, NEW c, NEW p, Arrive(kind, c, p) PROVE [Queue!Next]_(Queue!vars)
  <2> DEFINE row == Arrived(kind, c, p)
  <2>1. row.at = "waiting" /\ Len(request) < MaxRequests /\ request' = Append(request, row)
    BY <1>3 DEF Arrive, Arrived
  <2> HIDE DEF row
  <2> QED BY <1>1, <2>1, ArrivesJoin DEF Queue!Next
<1>4. CASE Death
  BY <1>1, <1>4, DeathEmpties DEF Queue!Next
<1>5. ASSUME UNCHANGED request PROVE [Queue!Next]_(Queue!vars)
  BY <1>5 DEF Queue!vars, Line, Served, Requests, Over
<1>6. CASE \E c \in Conversation : Status(c)
  BY <1>5, <1>6 DEF Status
<1>7. CASE ProfileEdited \/ UNCHANGED turnVars
  BY <1>5, <1>7 DEF ProfileEdited, turnVars
<1> QED
  BY <1>2, <1>3, <1>4, <1>6, <1>7
     DEF TurnsNext, Arrives, Serves, Chat, ExtractConversationMemoryNow,
         ReplayTraceWithoutShortTermMemory

(* The lock makes of all turns one queue: they are served one at a time,   *)
(* first come first, and leave it when they end or the process dies        *)
(* (withConversationTurnLock).                                             *)
THEOREM TurnsImplementQueue ==
  TurnsSpec => Queue!Init /\ [][Queue!Next]_(Queue!vars)
<1>1. TurnsInit => Queue!Init
  <2> SUFFICES ASSUME TurnsInit PROVE Queue!Init
    OBVIOUS
  <2>1. request = <<>> /\ request \in Seq(RequestRow) /\ Len(request) = 0
    BY DEF TurnsInit
  <2>2. Requests = {}
    BY <2>1 DEF Requests
  <2>3. Line = [i \in 1 .. 0 - 0 |-> 0 + i]
    BY <2>1, <2>2, LineIs DEF OverUpTo, LineAfter
  <2>4. Line = <<>>
    BY <2>3
  <2>5. Served = 0
    BY <2>1, <2>2, ServedIs
  <2> QED BY <2>4, <2>5 DEF Queue!Init
<1>2. TurnsInv /\ TurnsInv' /\ [TurnsNext]_turnVars => [Queue!Next]_(Queue!vars)
  BY TurnsStepQueue
<1> QED BY <1>1, <1>2, TurnsCorrect, PTL DEF TurnsSpec

-----------------------------------------------------------------------------
(* The chat page in front of the turns.                                    *)

Created == {c \in Conversation : Exists(c)}

\* The conversation updated last has messages.
RecentSaid == recent \in Conversation => messages[recent] # <<>>

(* A tab names only conversations that were created, the reply it awaits   *)
(* is to a request, and it shows the current conversation unless a reply   *)
(* came whose messages are still to be reloaded, or could not be.          *)
TabRight(row, created, requests) ==
  /\ row \in TabState
  /\ {row.current, row.shown, row.previous, row.target} \cup row.opening \subseteq {None} \cup created
  /\ row.waits = "reply" => row.request \in requests
  /\ \/ row.shown = row.current
     \/ row.stale /\ (row.broken \/ row.waits \in {"list", "messages"})

ClientInv ==
  /\ TurnsInv
  /\ RecentSaid
  /\ tab \in [Tab -> TabState] /\ opens \in 0 .. MaxOpens
  /\ \A t \in Tab : TabRight(tab[t], Created, Requests)

\* What is shown is written last, and a conversation keeps its name.
SaidLast == \/ UNCHANGED <<messages, recent>>
        \/ \E c \in Conversation, role \in Roles :
             messages' = [messages EXCEPT ![c] = Append(@, role)] /\ recent' = c

KeepsItsName(r) ==
  \E row : /\ request' = [request EXCEPT ![r] = row]
           /\ request[r].conversation # None => row.conversation = request[r].conversation

LEMMA LeftKeeps ==
  ASSUME NEW row \in RequestRow, NEW at
  PROVE  Left(row, at).conversation = row.conversation
BY DEF Left, RequestRow

LEMMA UserSavedSays ==
  ASSUME NEW r, NEW row \in RequestRow, row.conversation \in Conversation, UserSaved(r, row),
         request[r].conversation \in {None, row.conversation}
  PROVE  SaidLast /\ KeepsItsName(r)
<1>1. SaidLast
  BY DEF UserSaved, SaidLast, Roles
<1> DEFINE s == [row EXCEPT !.at = "answering", !.user = Len(messages[row.conversation]) + 1]
<1>2. request' = [request EXCEPT ![r] = s]
  BY DEF UserSaved, Await
<1>3. s.conversation = row.conversation
  BY DEF RequestRow
<1> QED BY <1>1, <1>2, <1>3 DEF KeepsItsName

LEMMA FlushAwaitedSays ==
  ASSUME NEW r, NEW row \in RequestRow, NEW batch, FlushAwaited(r, row, batch),
         request[r].conversation \in {None, row.conversation}
  PROVE  SaidLast /\ KeepsItsName(r)
<1> DEFINE s == [row EXCEPT !.at = "flushing", !.batch = batch, !.upto = Latest(batch)]
<1>1. request' = [request EXCEPT ![r] = s] /\ SaidLast
  BY DEF FlushAwaited, Await, SaidLast
<1>2. s.conversation = row.conversation
  BY DEF RequestRow
<1> QED BY <1>1, <1>2 DEF KeepsItsName

LEMMA LeaveSays ==
  ASSUME NEW r, request[r] \in RequestRow, NEW at, Leave(r, at), UNCHANGED <<messages, recent>>
  PROVE  SaidLast /\ KeepsItsName(r)
BY LeftKeeps DEF Leave, SaidLast, KeepsItsName

LEMMA BeginsSays ==
  ASSUME TurnsInv, NEW r \in Requests, Begins(r)
  PROVE  SaidLast /\ KeepsItsName(r)
<1>1. request[r] \in RequestRow
  BY ElementOfSeq DEF TurnsInv, Typed, Requests
<1>2. CASE ChatBegins(r)
  <2> DEFINE p     == PreviousOf(r)
             batch == PlanOfLatest(p, state[p]).batch
             With(row) == UserSaved(r, row) \/ FlushAwaited(r, row, batch)
  <2>1. PICK c \in Conversations(r) : With([request[r] EXCEPT !.conversation = c, !.previous = p])
    BY <1>2, Zenon DEF ChatBegins
  <2> DEFINE row == [request[r] EXCEPT !.conversation = c, !.previous = p]
  <2>2. c \in Conversation /\ p \in Conversation \cup {None} /\ request[r].conversation \in {None, c}
    BY <1>1 DEF Conversations, PreviousOf, RequestRow, TurnsInv, Typed
  <2>3. row \in RequestRow /\ row.conversation = c
    BY <1>1, <2>2 DEF RequestRow
  <2>4. UserSaved(r, row) \/ FlushAwaited(r, row, batch)
    BY <2>1
  <2> HIDE DEF row
  <2> QED BY <2>2, <2>3, <2>4, UserSavedSays, FlushAwaitedSays
<1>3. CASE ExtractBegins(r)
  <2>1. \/ Leave(r, "ended") /\ UNCHANGED <<messages, recent>>
        \/ FlushAwaited(r, request[r], PlanOfLatest(request[r].conversation, state[request[r].conversation]).batch)
    BY <1>3 DEF ExtractBegins
  <2> QED BY <1>1, <2>1, LeaveSays, FlushAwaitedSays
<1>4. CASE ReplayBegins(r)
  <2>1. request' = [request EXCEPT ![r] = [request[r] EXCEPT !.at = "answering"]] /\ SaidLast
    BY <1>4 DEF ReplayBegins, Await, SaidLast
  <2>2. [request[r] EXCEPT !.at = "answering"].conversation = request[r].conversation
    BY <1>1 DEF RequestRow
  <2> QED BY <2>1, <2>2 DEF KeepsItsName
<1>5. CASE BeginThrows(r)
  BY <1>1, <1>5, LeaveSays DEF BeginThrows
<1> QED BY <1>2, <1>3, <1>4, <1>5 DEF Begins

LEMMA SettlesSays ==
  ASSUME TurnsInv, NEW r \in Requests, Settles(r)
  PROVE  SaidLast /\ KeepsItsName(r)
<1>1. request[r] \in RequestRow /\ RequestInv(request[r], messages, past)
  BY ElementOfSeq DEF TurnsInv, Typed, Requests
<1>2. CASE Stored(r)
  <2> DEFINE row == [request[r] EXCEPT !.at = IF @ = "flushing" THEN "flushed" ELSE "extracted"]
  <2>1. request' = [request EXCEPT ![r] = row] /\ SaidLast
    BY <1>2 DEF Stored, Await, SaidLast
  <2>2. row.conversation = request[r].conversation
    BY <1>1 DEF RequestRow
  <2> QED BY <2>1, <2>2 DEF KeepsItsName
<1>3. CASE ChatFlushed(r)
  <2>1. request[r].conversation \in Conversation
    BY <1>1, <1>3 DEF ChatFlushed, RequestInv, Awaits
  <2> QED BY <1>1, <1>3, <2>1, UserSavedSays DEF ChatFlushed
<1>4. CASE ChatFlushFails(r)
  <2> DEFINE row == [request[r] EXCEPT !.degraded = TRUE]
  <2>1. row \in RequestRow /\ row.conversation = request[r].conversation
    BY <1>1 DEF RequestRow
  <2>2. request[r].conversation \in Conversation
    BY <1>1, <1>4 DEF ChatFlushFails, RequestInv, Awaits
  <2>3. UserSaved(r, row)
    BY <1>4 DEF ChatFlushFails
  <2> HIDE DEF row
  <2> QED BY <2>1, <2>2, <2>3, UserSavedSays
<1>5. CASE Answered(r)
  <2>1. request[r].conversation \in Conversation
    BY <1>1, <1>5 DEF Answered, RequestInv, Awaits
  <2>2. SaidLast
    BY <1>5, <2>1 DEF Answered, SaidLast, Roles
  <2>3. CASE Leave(r, "ended")
    <3>1. Left(request[r], "ended").conversation = request[r].conversation
      BY <1>1, LeftKeeps
    <3> QED BY <2>2, <2>3, <3>1 DEF Leave, KeepsItsName
  <2>4. ASSUME NEW batch,
               Await(r, [request[r] EXCEPT !.at = "extracting", !.batch = batch, !.upto = Latest(batch)])
        PROVE  KeepsItsName(r)
    <3> DEFINE row == [request[r] EXCEPT !.at = "extracting", !.batch = batch, !.upto = Latest(batch)]
    <3>1. row.conversation = request[r].conversation
      BY <1>1 DEF RequestRow
    <3>2. request' = [request EXCEPT ![r] = row]
      BY <2>4 DEF Await
    <3> HIDE DEF row
    <3> QED BY <3>1, <3>2 DEF KeepsItsName
  <2>5. \/ Leave(r, "ended")
        \/ \E batch : Await(r, [request[r] EXCEPT !.at = "extracting", !.batch = batch,
                                                  !.upto = Latest(batch)])
    BY <1>5 DEF Answered
  <2> QED BY <2>2, <2>3, <2>4, <2>5
<1>6. CASE TurnThrows(r) \/ ReplayAnswered(r) \/ ExtractFails(r)
  BY <1>1, <1>6, LeaveSays DEF TurnThrows, ReplayAnswered, ExtractFails
<1>7. CASE Extracted(r) \/ ExtractionFails(r) \/ ExtractFlushed(r)
  BY <1>1, <1>7, LeaveSays DEF Extracted, ExtractionFails, ExtractFlushed, EndsWithStatus
<1> QED BY <1>2, <1>3, <1>4, <1>5, <1>6, <1>7 DEF Settles

\* A conversation that was created stays, and so do the requests.
Stays == /\ RecentSaid' /\ Created \subseteq Created' /\ Requests \subseteq Requests'

LEMMA ServesStays ==
  ASSUME TurnsInv, RecentSaid, Serves
  PROVE  Stays
<1>1. PICK r \in Requests : SaidLast /\ KeepsItsName(r)
  BY BeginsSays, SettlesSays DEF Serves
<1>2. PICK row : /\ request' = [request EXCEPT ![r] = row]
                 /\ request[r].conversation # None => row.conversation = request[r].conversation
  BY <1>1 DEF KeepsItsName
<1>3. request \in Seq(RequestRow) /\ messages \in [Conversation -> Seq(Roles)] /\ None \notin Conversation
  BY TurnsAssumption DEF TurnsAssumption, TurnsInv, Typed
<1>4. Len(request') = Len(request) /\ \A q \in Requests : request'[q] = IF q = r THEN row ELSE request[q]
  BY <1>2, <1>3, LenProperties DEF Requests
<1>5. Requests' = Requests
  BY <1>4 DEF Requests
<1>6. ASSUME NEW c \in Conversation
      PROVE  /\ messages[c] # <<>> => messages'[c] # <<>>
             /\ c = recent' => messages'[c] # <<>>
  <2>1. CASE UNCHANGED <<messages, recent>>
    BY <2>1 DEF RecentSaid
  <2>2. ASSUME NEW d \in Conversation, NEW role \in Roles,
               messages' = [messages EXCEPT ![d] = Append(@, role)] /\ recent' = d
        PROVE  /\ messages[c] # <<>> => messages'[c] # <<>>
               /\ c = recent' => messages'[c] # <<>>
    <3>1. Append(messages[d], role) # <<>>
      BY <1>3, AppendProperties
    <3> QED BY <1>3, <2>2, <3>1
  <2> QED BY <1>1, <2>1, <2>2 DEF SaidLast
<1>7. RecentSaid'
  BY <1>6 DEF RecentSaid
<1>8. ASSUME NEW c \in Conversation, Exists(c) PROVE Exists(c)'
  <2>1. CASE messages[c] # <<>> \/ c = recent
    BY <1>6, <2>1 DEF Exists, RecentSaid
  <2>2. CASE \E q \in Requests : request[q].conversation = c
    BY <1>2, <1>3, <1>4, <1>5, <2>2 DEF Exists
  <2> QED BY <1>8, <2>1, <2>2 DEF Exists
<1> QED BY <1>5, <1>7, <1>8 DEF Stays, Created

LEMMA ArriveStays ==
  ASSUME TurnsInv, RecentSaid, NEW kind, NEW c, NEW p, Arrive(kind, c, p)
  PROVE  Stays /\ Len(request) + 1 \in Requests'
<1>1. /\ request \in Seq(RequestRow) /\ request' = Append(request, Arrived(kind, c, p))
      /\ UNCHANGED <<messages, recent>>
  BY DEF TurnsInv, Typed, Arrive
<1>2. /\ Len(request) \in Nat /\ Len(request') = Len(request) + 1
      /\ \A q \in Requests : request'[q] = request[q]
  BY <1>1, LenProperties DEF Requests
<1>3. Requests \subseteq Requests' /\ Len(request) + 1 \in Requests'
  BY <1>2 DEF Requests
<1> QED BY <1>1, <1>2, <1>3 DEF Stays, RecentSaid, Created, Exists

LEMMA TurnsUnchanged ==
  ASSUME TurnsInv, RecentSaid, UNCHANGED turnVars
  PROVE  Stays /\ TurnsInv'
BY TurnsInvStep DEF turnVars, Stays, RecentSaid, Created, Exists, Requests

-----------------------------------------------------------------------------
(* The steps of a tab.                                                     *)

\* What a step of tab t makes of it, and what it asks of the server.
Becomes(t, row) ==
  /\ tab' = [tab EXCEPT ![t] = row]
  /\ TabRight(row, Created, Requests')
  /\ opens' \in 0 .. MaxOpens
  /\ [TurnsNext]_turnVars /\ Stays

LEMMA TabFacts ==
  ASSUME ClientInv, NEW t \in Tab
  PROVE  /\ tab[t] \in TabState /\ TabRight(tab[t], Created, Requests)
         /\ tab \in [Tab -> TabState] /\ opens \in 0 .. MaxOpens /\ MaxOpens \in Nat
         /\ None \notin Created
BY ClientAssumption, TurnsAssumption DEF ClientInv, ClientAssumption, TurnsAssumption, Created

\* A click on a conversation takes the one slot with the current one.
LEMMA SlotNamed ==
  ASSUME ClientInv, NEW t \in Tab, NEW c
  PROVE  /\ Slot(t, c) \in {tab[t].previous, tab[t].current}
         /\ Slot(t, c) \in Conversation \cup {None} /\ Slot(t, c) \in {None} \cup Created
BY TabFacts DEF Slot, TabRight, TabState

LEMMA OpensRight ==
  ASSUME ClientInv, NEW t \in Tab, NEW c \in Conversation,
         OpenConversation(t, c) \/ ConversationOpened(t, c) \/ OpenFails(t, c)
  PROVE  \E row : Becomes(t, row)
<1>1. /\ tab[t] \in TabState /\ TabRight(tab[t], Created, Requests)
      /\ tab \in [Tab -> TabState] /\ opens \in 0 .. MaxOpens /\ MaxOpens \in Nat
      /\ Slot(t, c) \in Conversation \cup {None} /\ Slot(t, c) \in {None} \cup Created
  BY TabFacts, SlotNamed
<1>2. UNCHANGED turnVars
  BY DEF OpenConversation, ConversationOpened, OpenFails
<1>3. [TurnsNext]_turnVars /\ Stays /\ Requests' = Requests
  BY <1>2, TurnsUnchanged DEF ClientInv, turnVars, Requests
<1>4. opens' \in 0 .. MaxOpens
  BY <1>1 DEF OpenConversation, ConversationOpened, OpenFails
<1> DEFINE r == tab[t]
<1>5. CASE OpenConversation(t, c)
  <2> DEFINE row == [r EXCEPT !.previous = Slot(t, c), !.opening = @ \cup {c}]
  <2>1. tab' = [tab EXCEPT ![t] = row]
    BY <1>1, <1>5 DEF OpenConversation, TabState
  <2>2. c \in Created
    BY <1>5 DEF OpenConversation, Created
  <2>3. TabRight(row, Created, Requests)
    BY <1>1, <2>2 DEF TabRight, TabState
  <2> QED BY <1>3, <1>4, <2>1, <2>3 DEF Becomes
<1>6. CASE ConversationOpened(t, c)
  <2> DEFINE row == [Shows(r, c) EXCEPT !.opening = @ \ {c}]
  <2>1. tab' = [tab EXCEPT ![t] = row]
    BY <1>6 DEF ConversationOpened
  <2>2. c \in Created
    BY <1>1, <1>6, TurnsAssumption DEF ConversationOpened, TabRight, TurnsAssumption
  <2>3. /\ row \in TabState /\ row.current = c /\ row.shown = c /\ row.previous = r.previous
        /\ row.target = r.target /\ row.opening = r.opening \ {c}
        /\ row.waits = r.waits /\ row.request = r.request
    BY <1>1 DEF TabState, Shows
  <2>4. TabRight(row, Created, Requests)
    BY <1>1, <2>2, <2>3 DEF TabRight
  <2> QED BY <1>3, <1>4, <2>1, <2>4 DEF Becomes
<1>7. CASE OpenFails(t, c)
  <2> DEFINE row == [r EXCEPT !.opening = @ \ {c}, !.broken = TRUE]
  <2>1. tab' = [tab EXCEPT ![t] = row]
    BY <1>1, <1>7 DEF OpenFails, TabState
  <2>3. TabRight(row, Created, Requests)
    BY <1>1 DEF TabRight, TabState
  <2> QED BY <1>3, <1>4, <2>1, <2>3 DEF Becomes
<1> QED BY <1>5, <1>6, <1>7

LEMMA NewRight ==
  ASSUME ClientInv, NEW t \in Tab, NewConversation(t)
  PROVE  \E row : Becomes(t, row)
<1> DEFINE p   == Slot(t, None)
           row == [Shows(tab[t], None) EXCEPT !.previous = p]
<1>1. /\ tab[t] \in TabState /\ TabRight(tab[t], Created, Requests)
      /\ opens \in 0 .. MaxOpens /\ MaxOpens \in Nat
      /\ p \in Conversation \cup {None} /\ p \in {None} \cup Created
  BY TabFacts, SlotNamed
<1>2. UNCHANGED turnVars /\ tab' = [tab EXCEPT ![t] = row] /\ opens' \in 0 .. MaxOpens
  BY <1>1 DEF NewConversation
<1>3. [TurnsNext]_turnVars /\ Stays /\ Requests' = Requests
  BY <1>2, TurnsUnchanged DEF ClientInv, turnVars, Requests
<1> HIDE DEF p
<1>4. /\ row \in TabState /\ row.current = None /\ row.shown = None /\ row.previous = p
      /\ row.target = tab[t].target /\ row.opening = tab[t].opening
      /\ row.waits = tab[t].waits /\ row.request = tab[t].request
  BY <1>1 DEF TabState, Shows
<1>5. TabRight(row, Created, Requests)
  BY <1>1, <1>4 DEF TabRight
<1> QED BY <1>2, <1>3, <1>5 DEF Becomes

\* What a tab asks for names what it knows, so the turns may be asked for it.
LEMMA AsksRight ==
  ASSUME ClientInv, NEW t \in Tab, SendMessage(t) \/ ExtractMemoryNow(t)
  PROVE  \E row : Becomes(t, row)
<1>1. /\ tab[t] \in TabState /\ TabRight(tab[t], Created, Requests)
      /\ tab \in [Tab -> TabState] /\ opens \in 0 .. MaxOpens /\ tab[t].waits = "nothing"
  BY TabFacts DEF SendMessage, ExtractMemoryNow, Frozen
<1> DEFINE c == tab[t].current
           p == tab[t].previous
           n == Len(request) + 1
<1>2. c \in {None} \cup Created /\ p \in {None} \cup Created
  BY <1>1 DEF TabRight
<1>3. /\ \/ SendMessage(t) /\ Chat(c, p)
         \/ ExtractMemoryNow(t) /\ c # None /\ ExtractConversationMemoryNow(c)
      /\ opens' = opens
  BY DEF SendMessage, ExtractMemoryNow
<1>4. TurnsNext
  BY <1>2, <1>3 DEF Created, TurnsNext, Arrives
<1>5. Stays /\ n \in Requests' /\ n \in Nat
  <2>1. \E kind, q : Arrive(kind, c, q)
    BY <1>3 DEF Chat, ExtractConversationMemoryNow
  <2> QED BY <2>1, ArriveStays, LenProperties DEF ClientInv, TurnsInv, Typed
<1>6. PICK w \in {"reply", "extraction"} : tab' = [tab EXCEPT ![t].waits = w, ![t].request = n]
  BY DEF SendMessage, ExtractMemoryNow
<1> DEFINE row == [tab[t] EXCEPT !.waits = w, !.request = n]
<1>7. tab' = [tab EXCEPT ![t] = row]
  BY <1>1, <1>6 DEF TabState
<1> HIDE DEF n
<1>8. TabRight(row, Created, Requests')
  BY <1>1, <1>5 DEF TabRight, TabState
<1> QED BY <1>1, <1>3, <1>4, <1>5, <1>7, <1>8 DEF Becomes

LEMMA AnswersRight ==
  ASSUME ClientInv, NEW t \in Tab,
         \/ ReplyReceived(t) \/ ReplyFails(t) \/ ConversationsListed(t)
         \/ MessagesReloaded(t) \/ ReloadFails(t) \/ ExtractReturns(t)
  PROVE  \E row : Becomes(t, row)
<1>1. /\ tab[t] \in TabState /\ TabRight(tab[t], Created, Requests)
      /\ tab \in [Tab -> TabState] /\ opens \in 0 .. MaxOpens
  BY TabFacts
<1>2. UNCHANGED turnVars /\ opens' = opens
  BY DEF ReplyReceived, ReplyFails, ConversationsListed, MessagesReloaded, ReloadFails, ExtractReturns
<1>3. [TurnsNext]_turnVars /\ Stays /\ Requests' = Requests
  BY <1>2, TurnsUnchanged DEF ClientInv, turnVars, Requests
<1> DEFINE r == tab[t]
<1>4. SUFFICES \E row : tab' = [tab EXCEPT ![t] = row] /\ TabRight(row, Created, Requests)
  BY <1>1, <1>2, <1>3 DEF Becomes
<1>5. CASE ReplyReceived(t)
  <2> DEFINE reply == request[r.request]
             c     == reply.conversation
             stale == r.shown # c
             lost  == r.broken \/ r.opening # {}
             p     == IF reply.degraded THEN r.previous ELSE None
             row   == [r EXCEPT !.current = c, !.stale = stale, !.broken = lost, !.previous = p,
                                !.waits = "list", !.request = 0]
  <2>1. tab' = [tab EXCEPT ![t] = row]
    BY <1>1, <1>5 DEF ReplyReceived, WaitsForList, Replied, TabState
  <2>2. r.request \in Requests
    BY <1>1, <1>5 DEF ReplyReceived, TabRight
  <2>3. reply \in RequestRow
    BY <2>2, ElementOfSeq DEF ClientInv, TurnsInv, Typed, Requests
  <2>4. c \in Conversation \cup {None} /\ c \in {None} \cup Created
    BY <2>2, <2>3 DEF RequestRow, Created, Exists
  <2>5. p \in {None, r.previous} /\ stale \in BOOLEAN /\ lost \in BOOLEAN
    BY <1>1 DEF TabState
  <2>6. stale \/ r.shown = c
    OBVIOUS
  <2> HIDE DEF c, stale, lost, p
  <2>7. /\ row \in TabState /\ row.current = c /\ row.shown = r.shown /\ row.previous = p
        /\ row.target = r.target /\ row.opening = r.opening /\ row.waits = "list"
        /\ row.stale = stale
    BY <1>1, <2>4, <2>5 DEF TabState
  <2>8. TabRight(row, Created, Requests)
    BY <1>1, <2>4, <2>5, <2>6, <2>7 DEF TabRight
  <2> QED BY <2>1, <2>8
<1>6. CASE ReplyFails(t) \/ ReloadFails(t)
  <2>1. tab' = [tab EXCEPT ![t] = Broken(r)]
    BY <1>6 DEF ReplyFails, ReloadFails
  <2>2. TabRight(Broken(r), Created, Requests)
    <3> DEFINE row == Broken(r)
    <3>1. r \in TabState /\ TabRight(r, Created, Requests)
      BY <1>1 DEF TabRight
    <3>2. /\ row \in TabState /\ row.current = r.current /\ row.shown = r.shown
          /\ row.previous = r.previous /\ row.opening = r.opening /\ row.target = None
          /\ row.waits = "nothing" /\ row.stale = r.stale /\ row.broken
      BY <3>1 DEF Broken, Idle, TabState
    <3> HIDE DEF row
    <3>3. TabRight(row, Created, Requests)
      BY <3>1, <3>2 DEF TabRight
    <3> QED BY <3>3 DEF row
  <2> QED BY <2>1, <2>2
<1>7. CASE ConversationsListed(t)
  <2> DEFINE c == IF r.current = None THEN recent ELSE r.current
             row == [r EXCEPT !.waits = "messages", !.target = c, !.previous = Slot(t, c)]
  <2>1. r.waits = "list" /\ tab' = [tab EXCEPT ![t] = row]
    BY <1>1, <1>7 DEF ConversationsListed, TabState
  <2>2. c \in Conversation \cup {None} /\ c \in {None} \cup Created
    BY <1>1 DEF TabRight, TabState, ClientInv, TurnsInv, Typed, Created, Exists
  <2>3. Slot(t, c) \in Conversation \cup {None} /\ Slot(t, c) \in {None} \cup Created
    BY SlotNamed
  <2> HIDE DEF c
  <2>4. /\ row \in TabState /\ row.current = r.current /\ row.shown = r.shown
        /\ row.previous = Slot(t, c) /\ row.target = c /\ row.opening = r.opening
        /\ row.waits = "messages" /\ row.stale = r.stale
    BY <1>1, <2>2, <2>3 DEF TabState
  <2> HIDE DEF row
  <2>5. TabRight(row, Created, Requests)
    BY <1>1, <2>1, <2>2, <2>3, <2>4 DEF TabRight
  <2> QED BY <2>1, <2>5
<1>8. CASE MessagesReloaded(t)
  <2>1. tab' = [tab EXCEPT ![t] = Idle(Shows(r, r.target))]
    BY <1>8 DEF MessagesReloaded
  <2>2. TabRight(Idle(Shows(r, r.target)), Created, Requests)
    <3> DEFINE row == Idle(Shows(r, r.target))
    <3>1. r \in TabState /\ TabRight(r, Created, Requests)
      BY <1>1 DEF TabRight
    <3>2. /\ row \in TabState /\ row.current = r.target /\ row.shown = r.target
          /\ row.previous = r.previous /\ row.opening = r.opening /\ row.target = None
          /\ row.waits = "nothing"
      BY <3>1 DEF Idle, Shows, TabState
    <3> HIDE DEF row
    <3>3. TabRight(row, Created, Requests)
      BY <3>1, <3>2 DEF TabRight
    <3> QED BY <3>3 DEF row
  <2> QED BY <2>1, <2>2
<1>9. CASE ExtractReturns(t)
  <2>1. r.waits = "extraction" /\ tab' = [tab EXCEPT ![t] = Idle(r)]
    BY <1>9 DEF ExtractReturns
  <2>2. TabRight(Idle(r), Created, Requests)
    BY <1>1, <2>1 DEF Idle, TabRight, TabState
  <2> QED BY <2>1, <2>2
<1> QED BY <1>5, <1>6, <1>7, <1>8, <1>9

\* The page asks of the turns only what any client may ask.
LEMMA PageTakesTurns ==
  ASSUME ClientInv, [ClientNext]_clientVars
  PROVE  [TurnsNext]_turnVars /\ ClientInv'
<1>1. ASSUME NEW t \in Tab, TabSteps(t) PROVE [TurnsNext]_turnVars /\ ClientInv'
  <2>1. PICK row : Becomes(t, row)
    BY <1>1, OpensRight, NewRight, AsksRight, AnswersRight DEF TabSteps
  <2>2. [TurnsNext]_turnVars /\ Stays /\ TurnsInv'
    BY <2>1, TurnsInvStep DEF Becomes, ClientInv
  <2>3. TabRight(row, Created', Requests')
    BY <2>1, <2>2 DEF Becomes, Stays, TabRight
  <2>4. \A s \in Tab : TabRight(tab[s], Created', Requests')
    BY <2>2 DEF ClientInv, Stays, TabRight
  <2>5. tab' = [tab EXCEPT ![t] = row] /\ row \in TabState /\ tab \in [Tab -> TabState]
    BY <2>1 DEF Becomes, TabRight, ClientInv
  <2>6. tab' \in [Tab -> TabState] /\ \A s \in Tab : tab'[s] = row \/ tab'[s] = tab[s]
    BY <2>5
  <2>7. \A s \in Tab : TabRight(tab'[s], Created', Requests')
    BY <2>3, <2>4, <2>6
  <2> QED BY <2>1, <2>2, <2>6, <2>7 DEF Becomes, ClientInv, Stays, TabRight, TabState
<1>2. CASE Serves /\ UNCHANGED <<tab, opens>>
  <2>1. TurnsNext /\ Stays /\ TurnsInv'
    BY <1>2, ServesStays, TurnsInvStep DEF ClientInv, TurnsNext
  <2>2. \A s \in Tab : TabRight(tab[s], Created', Requests')
    BY <2>1 DEF ClientInv, Stays, TabRight
  <2> QED BY <1>2, <2>1, <2>2 DEF ClientInv, Stays, TabRight, TabState
<1>3. CASE UNCHANGED clientVars
  <2>1. UNCHANGED turnVars /\ UNCHANGED <<tab, opens>>
    BY <1>3 DEF clientVars
  <2>2. Stays /\ TurnsInv' /\ \A s \in Tab : TabRight(tab[s], Created', Requests')
    BY <2>1, TurnsUnchanged DEF ClientInv, Stays, TabRight
  <2> QED BY <2>1, <2>2 DEF ClientInv, Stays, TabRight, TabState
<1> QED BY <1>1, <1>2, <1>3 DEF ClientNext

LEMMA ClientInvInit == ClientInit => ClientInv
<1> SUFFICES ASSUME ClientInit PROVE ClientInv
  OBVIOUS
<1>1. TurnsInv /\ recent = None /\ None \notin Conversation /\ MaxOpens \in Nat
  BY TurnsInvInit, TurnsAssumption, ClientAssumption
     DEF ClientInit, TurnsInit, TurnsAssumption, ClientAssumption
<1>2. Blank \in TabState /\ TabRight(Blank, Created, Requests)
  BY DEF Blank, TabState, TabRight
<1> QED BY <1>1, <1>2 DEF ClientInit, ClientInv, RecentSaid

-----------------------------------------------------------------------------
(* What holds of every page.                                               *)

(* The page is one of the clients that the turns are specified for: all    *)
(* that holds of the turns holds behind it.                                *)
THEOREM PageIsAClient == ClientSpec => TurnsInit /\ [][TurnsNext]_turnVars
<1>1. ClientInit => TurnsInit
  BY DEF ClientInit
<1> QED BY <1>1, ClientInvInit, PageTakesTurns, PTL DEF ClientSpec

\* Tabs keep their types, and so do the turns behind them.
THEOREM ClientTypes == ClientSpec => []ClientTypeOK
<1>1. ClientInv => ClientTypeOK
  BY TurnsTyped DEF ClientInv, ClientTypeOK
<1> QED BY <1>1, ClientInvInit, PageTakesTurns, PTL DEF ClientSpec

(* A message goes to the conversation whose messages are shown, however    *)
(* replies, clicks and reloads interleave, unless a reload failed.         *)
THEOREM MessagesGoWhereShown == ClientSpec => SentWhereShown
<1>1. ClientInv /\ [ClientNext]_clientVars =>
        [\A t \in Tab : SendMessage(t) =>
           tab[t].shown = tab[t].current \/ (tab[t].stale /\ tab[t].broken)]_clientVars
  <2> SUFFICES ASSUME ClientInv, NEW t \in Tab, SendMessage(t)
               PROVE  tab[t].shown = tab[t].current \/ (tab[t].stale /\ tab[t].broken)
    OBVIOUS
  <2> QED BY TabFacts DEF SendMessage, Frozen, TabRight
<1> QED BY <1>1, ClientInvInit, PageTakesTurns, PTL DEF ClientSpec, SentWhereShown
=============================================================================
