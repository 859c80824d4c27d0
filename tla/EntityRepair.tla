---------------------------- MODULE EntityRepair ----------------------------
(***************************************************************************)
(* The entities of one scope, the events and claims that name them, and    *)
(* the views a recall searches: lib/entity-repair.js, lib/memory-views.js, *)
(* the end of storeEvent (lib/memory.js) and the recovery of server.js.    *)
(*                                                                         *)
(* Storing an event, and merging or splitting entities, are transactions;  *)
(* the views of what they wrote are built after them, with a promise       *)
(* awaited in the middle of each event, while other requests go on.  The   *)
(* model has what each of them read before it waited.  A claim names one   *)
(* entity; a relation is a claim.  An id is a position, and an erased row  *)
(* leaves a tombstone.                                                     *)
(*                                                                         *)
(* An operator named for a mistake stands before the one it mistakes; no   *)
(* action uses it, the checks substitute it.                               *)
(***************************************************************************)
EXTENDS Naturals, Sequences, SequencesExt, FiniteSetsExt, RowOrder

CONSTANTS
  Entity,      \* entities, one per name
  Nil,         \* no entity
  Stored,        \* events as they are told: entities, and those of their claims
  MaxEvents,   \* bound: rows of events
  MaxClaims,   \* bound: rows of claims
  MaxRepairs,  \* bound: merges and splits
  MaxRequests  \* bound: requests of every kind

ASSUME EntityRepairAssumption ==
  /\ Nil \notin Entity /\ IsFiniteSet(Entity)
  /\ Stored \subseteq [names: SUBSET Entity, about: SUBSET Entity]
  /\ {MaxEvents, MaxClaims, MaxRepairs, MaxRequests} \subseteq Nat

VARIABLES
  entities,  \* the status of each, "none" before there is a row
  redirect,  \* entity_repair_redirects
  records,   \* rows of events, with their links and their views
  named,     \* rows of claims, with the entity each names
  repairs,   \* entity_repairs
  refresh,   \* projectionRuns: where the projection of each repair waits
  walk,      \* a walk over the scope that builds views
  requests

repairVars == <<entities, redirect, records, named, repairs, refresh, walk, requests>>

\* Storing the event waits for its embedding, then for those of its views;
\* it is lost when the process ends or the event is erased meanwhile.
Storing == {"no", "embedding", "views", "lost"}

Record == [links: SUBSET Entity, derived: SUBSET Entity, status: {"current", "past", "erased"},
           views: {"none", "active", "inactive"}, storing: Storing, read: BOOLEAN]

Naming == [entity: Entity, record: 0 .. MaxEvents, status: {"current", "past", "erased"},
           embedded: BOOLEAN]

Repair == [claims: SUBSET (1 .. MaxClaims), records: SUBSET (1 .. MaxEvents),
           status: {"pending", "completed"}]

Wait == [at: {"nowhere", "claim", "record"}, id: Nat, left: SUBSET Nat, read: BOOLEAN]

Nowhere == [at |-> "nowhere", id |-> 0, left |-> {}, read |-> FALSE]

RepairTypeOK ==
  /\ entities \in [Entity -> {"none", "active", "merged"}]
  /\ redirect \in [Entity -> Entity \cup {Nil}]
  /\ records \in Seq(Record) /\ Len(records) <= MaxEvents
  /\ named \in Seq(Naming) /\ Len(named) <= MaxClaims
  /\ \A i \in DOMAIN named : named[i].record \in {0} \cup DOMAIN records
  /\ repairs \in Seq(Repair) /\ Len(repairs) <= MaxRepairs
  /\ refresh \in [1 .. MaxRepairs -> Wait] /\ walk \in Wait
  /\ requests \in 0 .. MaxRequests

Requests == requests < MaxRequests /\ requests' = requests + 1

-----------------------------------------------------------------------------

Standing(rows) == {i \in DOMAIN rows : rows[i].status = "current"}

Linked(i) == records[i].links \cup records[i].derived

\* Where following the redirects ends.
Resolved(x) ==
  LET after[n \in 0 .. Cardinality(Entity)] ==
        IF n = 0 THEN x
        ELSE IF entities[after[n - 1]] = "merged" THEN redirect[after[n - 1]] ELSE after[n - 1]
  IN after[Cardinality(Entity)]

\* The views of the events are no longer searched.
Deactivated(rows, ids) ==
  [i \in DOMAIN rows |-> IF i \in ids /\ rows[i].views = "active"
                         THEN [rows[i] EXCEPT !.views = "inactive"] ELSE rows[i]]

Passed(rows, ids) ==
  [i \in DOMAIN rows |-> IF i \in ids THEN [rows[i] EXCEPT !.status = "past"] ELSE rows[i]]

\* upsertView for the six views, with the status of the event as it was read.
Viewed(rows, i, read) ==
  [rows EXCEPT ![i].views = IF read THEN "active" ELSE "inactive"]

-----------------------------------------------------------------------------
(* storeEvent: ensureEntity finds or makes the entities of the names, the  *)
(* version before is closed and its claims move on; a retraction leaves    *)
(* none current.  "before" is 0 when there is none.                        *)

StoreRecord(names, about, before, retract) ==
  LET links == {Resolved(x) : x \in names}
      told  == {Resolved(x) : x \in about}
      id    == Len(records) + 1
      moved == {i \in Standing(named) : before # 0 /\ named[i].record = before}
  IN /\ Requests /\ id <= MaxEvents /\ Len(named) + Cardinality(about) <= MaxClaims
     /\ entities' = [x \in Entity |-> IF x \in names \cup about /\ entities[x] = "none"
                                      THEN "active" ELSE entities[x]]
     /\ records' = Append(Passed(Deactivated(records, {before}), {before}),
          [links |-> links \cup (IF before = 0 THEN {} ELSE records[before].links),
           derived |-> told \cup (IF before = 0 THEN {} ELSE records[before].derived),
           status |-> IF retract THEN "past" ELSE "current",
           views |-> "none", storing |-> "embedding", read |-> FALSE])
     /\ named' = [i \in DOMAIN named |->
                    IF i \notin moved THEN named[i]
                    ELSE IF retract THEN [named[i] EXCEPT !.status = "past"]
                    ELSE [named[i] EXCEPT !.record = id]]
                 \o SetToSeq({[entity |-> x, record |-> id, status |-> "current",
                               embedded |-> FALSE] : x \in told})
     /\ UNCHANGED <<redirect, repairs, refresh, walk>>

\* The embedding arrives; syncMemoryViewsForEvent reads the event.
EmbedRecord(i) ==
  /\ records[i].storing = "embedding"
  /\ records' = [records EXCEPT ![i].storing = IF records[i].status = "erased" THEN "lost" ELSE "views",
                                ![i].read = records[i].status = "current"]
  /\ UNCHANGED <<entities, redirect, named, repairs, refresh, walk, requests>>

\* The embeddings of the views arrive.
ViewRecord(i) ==
  /\ records[i].storing = "views"
  /\ records' = Viewed([records EXCEPT ![i].storing = "no", ![i].read = FALSE], i, records[i].read)
  /\ UNCHANGED <<entities, redirect, named, repairs, refresh, walk, requests>>

\* forgetMemory, mode erase, of an event or a claim.
EraseRecord(i) ==
  /\ Requests /\ records[i].status # "erased"
  /\ records' = [records EXCEPT ![i].status = "erased", ![i].links = {}, ![i].derived = {}]
  /\ named' = [c \in DOMAIN named |-> IF named[c].record = i
                                      THEN [named[c] EXCEPT !.status = "erased"] ELSE named[c]]
  /\ UNCHANGED <<entities, redirect, repairs, refresh, walk>>

EraseNaming(c) ==
  /\ Requests /\ named[c].status # "erased" /\ named' = [named EXCEPT ![c].status = "erased"]
  /\ UNCHANGED <<entities, redirect, records, repairs, refresh, walk>>

-----------------------------------------------------------------------------
(* refreshProjection: the claims one by one, then the events one by one.   *)
(* A row that was erased throws, and the repair stays pending.  "n" and    *)
(* "r" are the rows of claims and of events at that moment.                *)

Failed == [status |-> "pending", wait |-> Nowhere]

Completed == [status |-> "completed", wait |-> Nowhere]

Waiting(at, id, left, read) ==
  [status |-> "pending", wait |-> [at |-> at, id |-> id, left |-> left \ {id}, read |-> read]]

AtRecords(r, left) ==
  IF left = {} THEN Completed
  ELSE LET i == Min(left)
       IN IF r[i].status = "erased" THEN Failed
          ELSE Waiting("record", i, left, r[i].status = "current")

FromRecords(r, ids) ==
  IF \E i \in ids : r[i].status = "erased" THEN Failed
  ELSE AtRecords(r, ids \cap Standing(r))

FromClaims(n, r, left, ids) ==
  LET open == {c \in left : n[c].status # "past"}
  IN IF open = {} THEN FromRecords(r, ids)
     ELSE IF n[Min(open)].status = "erased" THEN Failed
     ELSE Waiting("claim", Min(open), open, FALSE)

Proceed(k, outcome) ==
  /\ repairs' = [repairs EXCEPT ![k].status = outcome.status]
  /\ refresh' = [refresh EXCEPT ![k] = outcome.wait]

\* The embedding of a claim arrives.
EmbedClaim(k) ==
  LET c == refresh[k].id
      n == IF named[c].status = "current" THEN [named EXCEPT ![c].embedded = TRUE] ELSE named
  IN /\ refresh[k].at = "claim"
     /\ named' = n
     /\ Proceed(k, IF named[c].status = "erased" THEN Failed
                   ELSE FromClaims(n, records, refresh[k].left, repairs[k].records))
     /\ UNCHANGED <<entities, redirect, records, walk, requests>>

\* The views of an event are written, and the next event is read.
ViewRepaired(k) ==
  LET r == Viewed(records, refresh[k].id, refresh[k].read)
  IN /\ refresh[k].at = "record"
     /\ records' = r
     /\ Proceed(k, AtRecords(r, refresh[k].left))
     /\ UNCHANGED <<entities, redirect, named, walk, requests>>

\* replayEntityRepairProjections, every 30 seconds and at the start, or the
\* same request sent again.
ReplayRepair(k) ==
  /\ repairs[k].status = "pending" /\ refresh[k].at = "nowhere"
  /\ Proceed(k, FromClaims(named, records, repairs[k].claims, repairs[k].records))
  /\ UNCHANGED <<entities, redirect, records, named, walk, requests>>

-----------------------------------------------------------------------------
(* performRepair and repairRecords, up to the first await of the refresh.  *)
(* A request that names rows which have changed since is refused, so that  *)
(* a split is of current ones.                                             *)

Merges ==
  [operation: {"merge"}, target: Entity, from: SUBSET Entity, records: {{}}, claims: {{}}]

Splits ==
  [operation: {"split"}, target: Entity, from: {{x} : x \in Entity},
   records: SUBSET Standing(records), claims: SUBSET Standing(named)]

Mapped(q) ==
  {c \in Standing(named) :
     /\ named[c].entity \in q.from
     /\ q.operation = "merge" \/ c \in q.claims \/ named[c].record \in q.records}

AffectedRecords(q) ==
  q.records \cup ({named[c].record : c \in Mapped(q)} \ {0})
  \cup {i \in Standing(records) : q.operation = "merge" /\ Linked(i) \cap q.from # {}}

AffectedNamings(q) ==
  {c \in Standing(named) : named[c].record \in AffectedRecords(q)} \cup Mapped(q)

MappedTo(q, x) == IF x \in q.from THEN q.target ELSE x

\* The position of the version that takes the place of a row.
VersionOf(ids, rows, i) == Len(rows) + Cardinality({j \in ids : j <= i})

NewNaming(q, c) ==
  LET at == named[c].record
  IN [entity |-> IF c \in Mapped(q) THEN MappedTo(q, named[c].entity) ELSE named[c].entity,
      record |-> IF at \in AffectedRecords(q) THEN VersionOf(AffectedRecords(q), records, at) ELSE at,
      status |-> "current",
      embedded |-> c \notin Mapped(q) /\ named[c].embedded]

NewRecord(q, i) ==
  [links |-> IF q.operation = "merge" \/ i \in q.records
             THEN {MappedTo(q, x) : x \in records[i].links} ELSE records[i].links,
   derived |-> {NewNaming(q, c).entity : c \in {d \in AffectedNamings(q) : named[d].record = i}},
   status |-> "current", views |-> "none", storing |-> "no", read |-> FALSE]

NewRecords(q) ==
  [n \in 1 .. Cardinality(AffectedRecords(q)) |-> NewRecord(q, Nth(AffectedRecords(q), n))]

NewNamings(q) ==
  [n \in 1 .. Cardinality(AffectedNamings(q)) |-> NewNaming(q, Nth(AffectedNamings(q), n))]

Added(rows, ids) == (Len(rows) + 1) .. (Len(rows) + Cardinality(ids))

\* Those that are linked to the survivor, whose aliases change.
TargetRecords(q, r) ==
  {i \in Standing(r) : q.operation = "merge" /\ q.target \in (r[i].links \cup r[i].derived)}

RebuildOfReplaced(q, r) == AffectedRecords(q) \cup TargetRecords(q, r)

RebuildList(q, r) == Added(records, AffectedRecords(q)) \cup TargetRecords(q, r)

Mergeable(q) == \A x \in q.from : entities[x] = "active"

SurvivorKnown(q) == entities[q.target] # "none"

SurvivorCurrent(q) == entities[q.target] = "active"

Requestable(q) ==
  IF q.operation = "merge"
  THEN q.from # {} /\ q.target \notin q.from /\ SurvivorCurrent(q) /\ Mergeable(q)
  ELSE /\ q.records \cup q.claims # {} /\ entities[q.target] = "none" /\ Mergeable(q)
       /\ \A i \in q.records : Linked(i) \cap q.from # {}
       /\ \A c \in q.claims : named[c].entity \in q.from

PerformRepair(q) ==
  LET r    == Passed(records, AffectedRecords(q)) \o NewRecords(q)
      n    == Passed(named, AffectedNamings(q)) \o NewNamings(q)
      list == RebuildList(q, r)
      k    == Len(repairs) + 1
      told == Added(named, AffectedNamings(q))
      begun == FromClaims(n, r, told, list)
  IN /\ Requests /\ Requestable(q) /\ AffectedRecords(q) \subseteq Standing(records)
     /\ k <= MaxRepairs /\ Len(r) <= MaxEvents /\ Len(n) <= MaxClaims
     /\ entities' = [x \in Entity |->
                       IF q.operation = "merge"
                       THEN IF x \in q.from THEN "merged" ELSE entities[x]
                       ELSE IF x = q.target THEN "active" ELSE entities[x]]
     /\ redirect' = [x \in Entity |-> IF q.operation = "merge" /\ x \in q.from
                                      THEN q.target ELSE redirect[x]]
     /\ named' = n
     /\ records' = Deactivated(r, AffectedRecords(q) \cup
                                  (IF q.operation = "merge" THEN list ELSE {}))
     /\ repairs' = Append(repairs, [claims |-> told, records |-> list, status |-> begun.status])
     /\ refresh' = [refresh EXCEPT ![k] = begun.wait]
     /\ UNCHANGED walk

-----------------------------------------------------------------------------
(* ensureMemoryViewsForScope, at the start of a recall, builds the views   *)
(* that are missing; rebuildMemoryViews builds all of them.                *)

Missing == {i \in Standing(records) : records[i].views # "active"}

Walk(ids) ==
  /\ Requests /\ walk.at = "nowhere" /\ ids # {}
  /\ walk' = AtRecords(records, ids).wait
  /\ UNCHANGED <<entities, redirect, records, named, repairs, refresh>>

EnsureViews == Walk(Missing)

RebuildViews == Walk(Standing(records))

ViewWalked ==
  LET r == Viewed(records, walk.id, walk.read)
  IN /\ walk.at = "record"
     /\ records' = r /\ walk' = AtRecords(r, walk.left).wait
     /\ UNCHANGED <<entities, redirect, named, repairs, refresh, requests>>

\* The process ends and starts again.
RepairRestart ==
  /\ walk' = Nowhere /\ refresh' = [k \in 1 .. MaxRepairs |-> Nowhere]
  /\ records' = [i \in DOMAIN records |->
                   IF records[i].storing = "no" THEN records[i]
                   ELSE [records[i] EXCEPT !.storing = "lost", !.read = FALSE]]
  /\ UNCHANGED <<entities, redirect, named, repairs, requests>>

RepairInit ==
  /\ entities = [x \in Entity |-> "none"] /\ redirect = [x \in Entity |-> Nil]
  /\ records = <<>> /\ named = <<>> /\ repairs = <<>>
  /\ refresh = [k \in 1 .. MaxRepairs |-> Nowhere] /\ walk = Nowhere
  /\ requests = 0

RepairNext ==
  \/ \E e \in Stored, before \in {0} \cup Standing(records) :
       \E retract \in {FALSE, before # 0} : StoreRecord(e.names, e.about, before, retract)
  \/ \E i \in DOMAIN records : EmbedRecord(i) \/ ViewRecord(i) \/ EraseRecord(i)
  \/ \E c \in DOMAIN named : EraseNaming(c)
  \/ \E q \in Merges \cup Splits : PerformRepair(q)
  \/ \E k \in DOMAIN repairs : EmbedClaim(k) \/ ViewRepaired(k) \/ ReplayRepair(k)
  \/ EnsureViews \/ RebuildViews \/ ViewWalked \/ RepairRestart

RepairSpec == RepairInit /\ [][RepairNext]_repairVars

-----------------------------------------------------------------------------
(* Properties.                                                             *)

\* However stores, merges, splits, erasures and restarts fall between the
\* awaits of each other, a current event is searched by its views, or they
\* are being built, or a pending repair will build them, or the process ended
\* while it was stored; and a repair that completed embedded its claims.
NothingLeftUnindexed ==
  /\ \A i \in Standing(records) :
       \/ records[i].views = "active" \/ records[i].storing # "no"
       \/ \E k \in DOMAIN repairs : repairs[k].status = "pending" /\ i \in repairs[k].records
  /\ \A k \in DOMAIN repairs : repairs[k].status = "completed" =>
       \A c \in repairs[k].claims \cap Standing(named) : named[c].embedded

\* The redirects of merged entities end at an active one, after any sequence
\* of merges and splits: a name that was merged away can always be stored.
MergedEntitiesResolve ==
  \A x \in Entity : entities[x] # "none" => entities[Resolved(x)] = "active"
=============================================================================
