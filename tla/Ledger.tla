------------------------------- MODULE Ledger -------------------------------
(***************************************************************************)
(* The bitemporal ledger of one scope, lib/memory.js and lib/temporal.js:  *)
(* versions of events and the claims that rest on them.  A version holds   *)
(* in the story from its "from" up to its "to", and was believed from      *)
(* "known" up to "until"; 0 leaves an interval open.  Nothing is           *)
(* rewritten: a change closes versions and inserts others.  An erased row   *)
(* leaves a tombstone in the model, so that ids stay what they are.        *)
(*                                                                         *)
(* Storing an event or a claim is one step up to its embedding, which is   *)
(* awaited; what comes after it is the index, in module EntityRepair.      *)
(* What a claim is about stands for its subject, predicate, scope, kind    *)
(* and phase.                                                              *)
(* Relations are kept in a table of their own by the same steps as claims  *)
(* that are not single valued, and are claims here.                        *)
(*                                                                         *)
(* An operator named for a mistake stands before the one it mistakes; no   *)
(* action uses it, the checks substitute it.                               *)
(***************************************************************************)
EXTENDS Naturals, Sequences, SequencesExt, FiniteSetsExt, RowOrder

CONSTANTS
  Key,          \* event_key, the fresh ones included
  Title,        \* type and title of an event
  FreshKey,     \* collisionSafeEventKey, by title and source message
  About,        \* what a claim is about
  Object,       \* what a claim may say of it
  None,         \* no previous object
  ClaimsTold,   \* claims as they are passed in
  EventsTold,   \* events as they are passed in
  MaxTime,      \* bound: the time of the story
  MaxClock,     \* bound: the clock
  MaxCalls      \* bound: events and claims stored or forgotten, and restarts

Operation == {"create", "enrich", "update", "supersede", "retract"}

Claim ==
  [about: About, operation: Operation, object: Object, previous: Object \cup {None},
   from: 0 .. MaxTime, to: 0 .. MaxTime, single: BOOLEAN]

Event ==
  [key: Key, title: Title, operation: Operation, source: Nat, from: 0 .. MaxTime,
   to: 0 .. MaxTime, claims: Seq(Claim), aliases: SUBSET Nat, meeting: BOOLEAN,
   attends: SUBSET About]

ASSUME LedgerAssumption ==
  /\ None \notin Object /\ ClaimsTold \subseteq Claim /\ EventsTold \subseteq Event
  /\ FreshKey \in [{<<e.title, e.source>> : e \in {d \in EventsTold : d.source # 0}} -> Key]
  /\ {MaxTime, MaxCalls} \subseteq Nat /\ MaxClock \in 1 .. MaxTime

VARIABLES
  events,    \* rows of events, by id
  claims,    \* rows of claims, by id
  clock,
  twins,     \* history: keys of which a second event was created on request
  loose,     \* history: what may have several current claims
  calls

ledgerVars == <<events, claims, clock, twins, loose, calls>>

Time == 1 .. MaxTime

Clock == 1 .. MaxClock

Status == {"active", "superseded", "retracted", "historical", "erased"}

EventRow ==
  [key: Key, title: Title, status: Status, version: Nat, source: Nat,
   from: Time, to: 0 .. MaxTime, known: Clock, until: {0} \cup Clock]

ClaimRow ==
  [about: About, object: Object, event: Nat, status: Status,
   from: Time, to: 0 .. MaxTime, known: Clock, until: {0} \cup Clock]

LedgerTypeOK ==
  /\ events \in Seq(EventRow) /\ claims \in Seq(ClaimRow)
  /\ \A i \in DOMAIN claims : claims[i].event \in {0} \cup DOMAIN events
  /\ clock \in Clock /\ twins \subseteq Key /\ loose \subseteq About
  /\ calls \in 0 .. MaxCalls

-----------------------------------------------------------------------------
(* temporal.js, and what the rows say.                                     *)

Current(rows) == {i \in DOMAIN rows : rows[i].status = "active" /\ rows[i].until = 0}

ClosedInPlace(rows, ids, status) ==
  [i \in DOMAIN rows |-> IF i \in ids
                         THEN [rows[i] EXCEPT !.status = status, !.to = clock, !.until = clock]
                         ELSE rows[i]]

Closed(rows, ids, status) ==
  [i \in DOMAIN rows |-> IF i \in ids THEN [rows[i] EXCEPT !.status = status, !.until = clock]
                         ELSE rows[i]]

\* An open end, unless the interval has something in it.
End(from, to) == IF to > from THEN to ELSE 0

NeedsCarryOpen(row, boundary) ==
  row.from < boundary /\ row.to = 0

NeedsCarryForward(row, boundary) ==
  row.from < boundary /\ (row.to = 0 \/ boundary < row.to)

\* carryEventVersion, carryClaimVersion, carryEdgeVersion.
Carried(row, boundary) ==
  [row EXCEPT !.status = "historical", !.to = boundary, !.known = clock, !.until = 0]

\* A claim that is carried for a carried event rests on that one.
CarriedClaim(row, boundary, event) ==
  [Carried(row, boundary) EXCEPT !.event = IF event = 0 THEN @ ELSE event]

\* The carried versions of some claims; their order is of no effect.
CarriedAll(rows, ids, boundary, event) ==
  LET due == {i \in ids : NeedsCarryForward(rows[i], boundary)}
  IN [n \in 1 .. Cardinality(due) |-> CarriedClaim(rows[Nth(due, n)], boundary, event)]

\* The rows an as-of question about story time t finds, as known at k.
Believed(rows, t, k) ==
  {i \in DOMAIN rows :
     /\ rows[i].status # "erased"
     /\ rows[i].from <= t /\ (rows[i].to = 0 \/ t < rows[i].to)
     /\ rows[i].known <= k /\ (rows[i].until = 0 \/ k < rows[i].until)}

-----------------------------------------------------------------------------
(* applyClaim, and the relations of storeEvent.                            *)

CurrentAbout(rows, about) == {i \in Current(rows) : rows[i].about = about}

Starts(told, otherwise) == IF told = 0 THEN otherwise ELSE told

\* A claim of a single-valued predicate replaces the ones there are.
OperationAsTold(c, active, exact) == c.operation

EffectiveOperation(c, active, exact) ==
  IF exact = {} /\ active # {} /\ c.single /\ c.operation \in {"create", "enrich"}
  THEN "update" ELSE c.operation

Affected(rows, c, active, exact) ==
  IF c.previous # None THEN {i \in active : rows[i].object = c.previous}
  ELSE IF c.operation = "retract" /\ exact # {} THEN {Max(exact)}
  ELSE active

ApplyClaim(rows, c, event, carryEvent) ==
  LET active    == CurrentAbout(rows, c.about)
      exact     == {i \in active : rows[i].object = c.object}
      operation == EffectiveOperation(c, active, exact)
      affected  == Affected(rows, c, active, exact)
      closes    == affected # {} /\ operation \in {"update", "supersede", "retract"}
      closed    == IF closes
                   THEN Closed(rows, affected, IF operation = "retract" THEN "retracted" ELSE "superseded")
                   ELSE rows
      carried   == IF closes /\ operation = "update"
                   THEN CarriedAll(rows, affected, Starts(c.from, clock), carryEvent) ELSE <<>>
      replaced  == IF affected # {} THEN Max(affected) ELSE IF active # {} THEN Max(active) ELSE 0
      from      == Starts(c.from, IF operation = "supersede" /\ replaced # 0
                                  THEN rows[replaced].from ELSE clock)
      made      == [about |-> c.about, object |-> c.object, event |-> event, status |-> "active",
                    from |-> from, to |-> End(from, c.to), known |-> clock, until |-> 0]
  IN IF exact # {} /\ operation \in {"create", "enrich"} THEN rows
     ELSE IF closes /\ operation = "retract" THEN closed
     ELSE closed \o carried \o <<made>>

\* History: several current claims are asked for, or the previous one missed.
Loosens(rows, c) ==
  LET active == CurrentAbout(rows, c.about) IN
  \/ ~c.single
  \/ c.previous # None /\ {i \in active : rows[i].object = c.previous} # active

Applying(s, c, event, carryEvent) ==
  [rows  |-> ApplyClaim(s.rows, c, event, carryEvent),
   loose |-> IF Loosens(s.rows, c) THEN s.loose \cup {c.about} ELSE s.loose]

\* One claim is applied after the other.
Applied(s, told, event, carryEvent) ==
  LET after[n \in 0 .. Len(told)] ==
        IF n = 0 THEN s ELSE Applying(after[n - 1], told[n], event, carryEvent)
  IN after[Len(told)]

-----------------------------------------------------------------------------
(* storeEvent, up to the embedding.                                        *)

\* The current event of a key with the highest version, 0 for none.
ActiveEvent(key) ==
  LET current == {i \in Current(events) : events[i].key = key}
  IN IF current = {} THEN 0
     ELSE CHOOSE i \in current : \A j \in current : events[j].version <= events[i].version

RestingOn(rows, ids) == {i \in Current(rows) : rows[i].event \in ids}

\* What an interface call stores has the source 0, which is never met again.
Duplicate(e) ==
  /\ e.operation = "create" /\ e.source # 0
  /\ \E i \in Current(events) : events[i].title = e.title /\ events[i].source = e.source

\* The other current events the new version stands for as well.
Aliased(e, active) == (e.aliases \cap Current(events)) \ {active}

IsVersion(e, active) == active # 0 /\ e.operation # "create"

EventsAfter(e, active) ==
  LET replaced == IF IsVersion(e, active)
                  THEN {i \in Current(events) : events[i].key = e.key} ELSE {}
      closed   == Closed(events, replaced \cup Aliased(e, active), "superseded")
      carried  == IF /\ IsVersion(e, active) /\ e.operation = "update"
                     /\ NeedsCarryForward(events[active], Starts(e.from, clock))
                  THEN <<Carried(events[active], Starts(e.from, clock))>> ELSE <<>>
      from     == Starts(e.from, IF active # 0 /\ e.operation \in {"enrich", "supersede"}
                                 THEN events[active].from ELSE clock)
      made     == [key |-> e.key, title |-> e.title, source |-> e.source,
                   status  |-> IF e.operation = "retract" THEN "retracted" ELSE "active",
                   version |-> IF active = 0 THEN 1 ELSE events[active].version + 1,
                   from |-> from, to |-> End(from, e.to), known |-> clock, until |-> 0]
  IN closed \o carried \o <<made>>

\* The claims of a replaced event go on with the new version of it.
ClaimsLeft(rows, active, id, operation) == rows

ClaimsMoved(rows, active, id, operation) ==
  IF operation = "retract" THEN Closed(rows, RestingOn(rows, {active}), "retracted")
  ELSE [i \in DOMAIN rows |-> IF i \in RestingOn(rows, {active})
                              THEN [rows[i] EXCEPT !.event = id] ELSE rows[i]]

\* The claims that go before those the event brings are applied.
ClaimsBefore(e, active) ==
  LET aliased == Closed(claims, RestingOn(claims, Aliased(e, active)), "superseded")
  IN IF active = 0 THEN aliased
     ELSE Closed(aliased, {i \in RestingOn(aliased, {active}) : aliased[i].about \in e.attends},
                 "superseded")

\* What enriches an event brings claims that enrich.
Brought(e, c) ==
  [c EXCEPT !.operation = IF e.operation = "enrich" /\ @ = "create" THEN "enrich" ELSE @]

ClaimsBrought(e) == [n \in DOMAIN e.claims |-> Brought(e, e.claims[n])]

ClaimsAfter(e, active, id, carryEvent) ==
  Applied([rows |-> ClaimsBefore(e, active), loose |-> loose], ClaimsBrought(e), id, carryEvent)

StoreEvent(e) ==
  LET active == ActiveEvent(e.key)
      after  == EventsAfter(e, active)
      id     == Len(after)
      carry  == IF id = Len(events) + 2 THEN id - 1 ELSE 0
      told   == ClaimsAfter(e, active, id, carry)
  IN IF Duplicate(e)
     THEN UNCHANGED <<events, claims, loose>>
     ELSE /\ events' = after
          /\ claims' = IF IsVersion(e, active)
                       THEN ClaimsMoved(told.rows, active, id, e.operation) ELSE told.rows
          /\ loose' = told.loose

Calls == calls < MaxCalls /\ calls' = calls + 1

\* A second current event of a key is only made on request.
Twins(e) == IF e.operation = "create" /\ ActiveEvent(e.key) # 0 /\ ~Duplicate(e)
            THEN twins \cup {e.key} ELSE twins

\* mutateMemory of an event.
MutateEvent(e) ==
  /\ Calls /\ StoreEvent(e) /\ twins' = Twins(e)
  /\ UNCHANGED clock

\* storeSemanticClaim.
StoreSemanticClaim(c) ==
  /\ Calls
  /\ claims' = ApplyClaim(claims, c, 0, 0)
  /\ loose' = IF Loosens(claims, c) THEN loose \cup {c.about} ELSE loose
  /\ UNCHANGED <<events, clock, twins>>

-----------------------------------------------------------------------------
(* reconcileExtractedEvent.  Which events the text is related to, and      *)
(* whether it adds to them or changes them, is a choice; "others" are the  *)
(* other related ones, when the text refers to a known event.              *)

OperationOfRelated(e, adds) ==
  IF e.operation = "retract" THEN "retract"
  ELSE IF e.operation = "enrich" \/ adds THEN "enrich" ELSE "supersede"

\* The claims of a meeting follow what becomes of its event.
Reconciled(e, c, adds) ==
  IF e.meeting
  THEN [c EXCEPT !.operation =
          IF OperationOfRelated(e, adds) = "enrich" THEN "enrich" ELSE "supersede"]
  ELSE c

ReconciledToRelated(e, related, others, adds) ==
  [e EXCEPT !.key = events[related].key, !.aliases = others,
            !.operation = OperationOfRelated(e, adds),
            !.claims = [n \in DOMAIN e.claims |-> Reconciled(e, e.claims[n], adds)]]

ReconciledByKeyAlone(e, adds) ==
  [e EXCEPT !.operation = IF adds /\ ActiveEvent(e.key) # 0 THEN "enrich" ELSE "create"]

\* The key made of what tells an event from others, where its own is taken.
CollisionSafeKey(e) == FreshKey[<<e.title, e.source>>]

\* A key that is taken by an unrelated event is replaced by a fresh one.
ReconciledByKey(e, adds) ==
  IF ActiveEvent(e.key) = 0 THEN [e EXCEPT !.operation = "create"]
  ELSE IF adds THEN [e EXCEPT !.operation = "enrich"]
  ELSE [e EXCEPT !.operation = "create", !.key = CollisionSafeKey(e)]

\* The fresh key may be taken itself, and a second event of it is created then.
TwinsOfFresh(e, event) == IF event.key = CollisionSafeKey(e) THEN Twins(event) ELSE twins

\* findRelatedActiveEvents: any current event may share names or words.
RelatedEvents(e) == Current(events)

\* One event of extractAndCommitMemory.
ExtractEvent(e, adds) ==
  /\ Calls /\ e.source # 0
  /\ \/ LET event == ReconciledByKey(e, adds)
        IN StoreEvent(event) /\ twins' = TwinsOfFresh(e, event)
     \/ \E related \in RelatedEvents(e) :
          \E others \in {{}, RelatedEvents(e) \ {related}} :
            LET event == ReconciledToRelated(e, related, others, adds)
            IN /\ ~(event.operation = "retract" /\ events[related].source = e.source)
               /\ StoreEvent(event) /\ twins' = twins
  /\ UNCHANGED clock

-----------------------------------------------------------------------------
(* Forgetting, the clock, the end and the start of the process.            *)

\* forgetEvent, mode retract: whichever version is named, its key ends.
RetractEvent(id) ==
  /\ Calls /\ events[id].status # "erased"
  /\ StoreEvent([key |-> events[id].key, title |-> events[id].title, operation |-> "retract",
                 source |-> 0, from |-> 0, to |-> 0, claims |-> <<>>, aliases |-> {},
                 meeting |-> FALSE, attends |-> {}])
  /\ UNCHANGED <<clock, twins>>

\* forgetEvent, mode erase.
EraseEvent(id) ==
  /\ Calls /\ events[id].status # "erased"
  /\ events' = [events EXCEPT ![id].status = "erased"]
  /\ claims' = [i \in DOMAIN claims |-> IF claims[i].event = id
                                        THEN [claims[i] EXCEPT !.status = "erased"] ELSE claims[i]]
  /\ UNCHANGED <<clock, twins, loose>>

RetractClaim(id) ==
  /\ Calls /\ claims[id].status # "erased"
  /\ claims' = Closed(claims, {id}, "retracted")
  /\ UNCHANGED <<events, clock, twins, loose>>

EraseClaim(id) ==
  /\ Calls /\ claims[id].status # "erased"
  /\ claims' = [claims EXCEPT ![id].status = "erased"]
  /\ UNCHANGED <<events, clock, twins, loose>>

\* repairActiveEvidenceLinks, when the database is opened.
Repaired(i) ==
  LET id == claims[i].event
  IN IF i \in Current(claims) /\ id # 0 /\ events[id].status \notin {"active", "erased"}
        /\ ActiveEvent(events[id].key) # 0
     THEN [claims[i] EXCEPT !.event = ActiveEvent(events[id].key)] ELSE claims[i]

Restart ==
  /\ Calls
  /\ claims' = [i \in DOMAIN claims |-> Repaired(i)]
  /\ UNCHANGED <<events, clock, twins, loose>>

Tick ==
  /\ clock < MaxClock /\ clock' = clock + 1
  /\ UNCHANGED <<events, claims, twins, loose, calls>>

LedgerInit ==
  /\ events = <<>> /\ claims = <<>> /\ clock = 1 /\ calls = 0
  /\ twins = {} /\ loose = {}

LedgerNext ==
  \/ \E c \in ClaimsTold : StoreSemanticClaim(c)
  \/ \E e \in EventsTold : MutateEvent(e)
  \/ \E e \in EventsTold, adds \in BOOLEAN : ExtractEvent(e, adds)
  \/ \E id \in DOMAIN events :
       RetractEvent(id) \/ EraseEvent(id)
  \/ \E id \in DOMAIN claims : RetractClaim(id) \/ EraseClaim(id)
  \/ Restart \/ Tick

LedgerSpec == LedgerInit /\ [][LedgerNext]_ledgerVars

-----------------------------------------------------------------------------
(* Properties.                                                             *)

Told(rows, t, k) == {<<rows[i].about, rows[i].object>> : i \in Believed(rows, t, k)}

\* What an as-of question finds for an earlier knowledge time never changes
\* afterwards, whatever is stored, carried forward, retracted or repaired,
\* unless rows are erased or a version that had already ended is retracted
\* again: closing and carrying versions never rewrites the past.
KnownStaysKnown ==
  [][\A t \in Time, k \in 1 .. clock - 1 :
       \/ Told(claims', t, k) = Told(claims, t, k)
       \/ \E i \in DOMAIN claims :
            \/ claims[i].status # "erased" /\ claims'[i].status = "erased"
            \/ claims[i].until # 0 /\ claims'[i].until # claims[i].until]_ledgerVars

\* A change of the world from a moment on leaves what holds before it, as it
\* is known now: storing an update keeps every earlier answer, but for
\* versions that ended before the change.
UpdateKeepsThePast ==
  [][\A c \in ClaimsTold :
       (c.operation = "update" /\ StoreSemanticClaim(c)) =>
         \A t \in 1 .. Starts(c.from, clock) - 1 :
           \A i \in Believed(claims, t, clock) :
             \/ <<claims[i].about, claims[i].object>> \in Told(claims', t, clock)
             \/ claims[i].to # 0 /\ claims[i].to <= Starts(c.from, clock)]_ledgerVars

\* However creations, corrections, updates and retractions follow each other
\* by events and by themselves, what is single valued has one current claim.
OneCurrentClaim ==
  \A about \in About \ loose : Cardinality(CurrentAbout(claims, about)) <= 1

\* A key has one current event, unless a caller created a second one or a
\* message was extracted again after its event had gone on.
OneCurrentEvent ==
  \A key \in Key \ twins :
    Cardinality({i \in Current(events) : events[i].key = key}) <= 1

\* A current claim rests on a current event: when an event is replaced,
\* retracted, merged as an alias or erased its claims go with it, but for the
\* claims a retraction itself brings.
EvidenceFollows ==
  \A i \in Current(claims) :
    claims[i].event # 0 =>
      \/ claims[i].event \in Current(events)
      \/ events[claims[i].event].status = "retracted"
      \/ events[claims[i].event].key \in twins
=============================================================================
