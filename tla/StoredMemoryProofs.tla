------------------------- MODULE StoredMemoryProofs -------------------------
(***************************************************************************)
(* Proofs about the memory a scope has stored, for every value of the      *)
(* constants: the ledger of events and claims, the fields with their       *)
(* history, the repair of entities, the reviews, and the four as they      *)
(* stand side by side.  What they need of numbers, of the order of rows    *)
(* and of functions that go on step by step is proved first.               *)
(***************************************************************************)
EXTENDS MCMemory, FiniteSetTheorems, SequenceTheorems, WellFoundedInduction, TLAPS

(* Every set of numbers that is not empty has a least member: what is      *)
(* proved by induction below is proved of the least counterexample.        *)
LEMMA LeastIsMember ==
  ASSUME NEW S \in SUBSET Nat, S # {}
  PROVE  \E x \in S : \A y \in S : x <= y
<1>1. PICK x \in S : \A y \in S : ~ (<<y, x>> \in OpToRel(<, Nat))
  BY NatLessThanWellFounded, WFMin
<1>2. ASSUME NEW y \in S PROVE x <= y
  <2>1. x \in Nat /\ y \in Nat /\ ~ (<<y, x>> \in {ss \in Nat \X Nat : ss[1] < ss[2]})
    BY <1>1 DEF OpToRel
  <2>2. ~ (y < x)
    BY <2>1
  <2> QED
    BY <2>1, <2>2
<1> QED
  BY <1>2

LEMMA MinIsLeast ==
  ASSUME NEW S \in SUBSET Nat, S # {}
  PROVE  Min(S) \in S /\ \A y \in S : Min(S) <= y
BY LeastIsMember DEF Min

LEMMA SetInduction ==
  ASSUME NEW T, 0 \in T, \A n \in Nat : n \in T => n + 1 \in T
  PROVE  \A n \in Nat : n \in T
<1> DEFINE S == {n \in Nat : n \notin T}
<1> SUFFICES ASSUME S # {} PROVE FALSE
  OBVIOUS
<1>1. PICK x \in S : \A y \in S : x <= y
  BY LeastIsMember
<1>2. x # 0 /\ x \in Nat /\ x - 1 \in Nat
  BY <1>1
<1>3. x - 1 \notin S
  BY <1>1, <1>2
<1>4. x - 1 \in T /\ x = (x - 1) + 1
  BY <1>2, <1>3
<1>5. x \in T
  BY <1>2, <1>4
<1> QED
  BY <1>5

\* A function that goes on from what it was, step by step.
Iterated(f, start, step, last) ==
  f[0] = start /\ \A n \in 1 .. last : f[n] = step[n][f[n - 1]]

LEMMA Iterates ==
  ASSUME NEW dom, NEW start \in dom, NEW step \in [Nat -> [dom -> dom]], NEW last \in Nat
  PROVE  \E f \in [0 .. last -> dom] : Iterated(f, start, step, last)
<1> DEFINE Right(f, m) == Iterated(f, start, step, m)
           T == {m \in Nat : \E f \in [0 .. m -> dom] : Right(f, m)}
<1>1. 0 \in T
  <2>1. [n \in 0 .. 0 |-> start] \in [0 .. 0 -> dom] /\ Right([n \in 0 .. 0 |-> start], 0)
    BY DEF Iterated
  <2> QED BY <2>1
<1>2. ASSUME NEW m \in Nat, m \in T PROVE m + 1 \in T
  <2>1. PICK f \in [0 .. m -> dom] : Right(f, m)
    BY <1>2
  <2> DEFINE g == [n \in 0 .. (m + 1) |-> IF n = m + 1 THEN step[n][f[m]] ELSE f[n]]
  <2>2. g \in [0 .. (m + 1) -> dom] /\ g[0] = start
    BY <2>1 DEF Iterated
  <2>3. ASSUME NEW n \in 1 .. (m + 1)
        PROVE  g[n] = step[n][g[n - 1]]
    <3>1. CASE n = m + 1
      BY <2>1, <3>1 DEF Iterated
    <3>2. CASE n # m + 1
      <4>1. n \in 1 .. m /\ g[n] = f[n] /\ n - 1 \in 0 .. m /\ g[n - 1] = f[n - 1]
        BY <3>2
      <4> QED BY <2>1, <4>1 DEF Iterated
    <3> QED BY <3>1, <3>2
  <2>4. Right(g, m + 1)
    BY <2>2, <2>3 DEF Iterated
  <2> HIDE DEF g, Right
  <2> QED BY <2>2, <2>4
<1> HIDE DEF T
<1>3. last \in T
  BY <1>1, <1>2, SetInduction
<1> QED BY <1>3 DEF T

-----------------------------------------------------------------------------
\* The n-th of a set of positions is one of them, and each of them is one.
LEMMA NthRight ==
  ASSUME NEW S \in SUBSET Nat, IsFiniteSet(S)
  PROVE  /\ \A n \in 1 .. Cardinality(S) : Nth(S, n) \in S
         /\ \A i \in S : \E n \in 1 .. Cardinality(S) : Nth(S, n) = i
         /\ \A n, m \in 1 .. Cardinality(S) : Nth(S, n) = Nth(S, m) => n = m
<1> DEFINE Upto(i) == {j \in S : j <= i}
           rank == [i \in S |-> Cardinality(Upto(i))]
           T == 1 .. Cardinality(S)
<1>1. Cardinality(S) \in Nat
  BY FS_CardinalityType
<1>2. \A i \in S : /\ IsFiniteSet(Upto(i)) /\ Cardinality(Upto(i)) \in Nat
                   /\ Cardinality(Upto(i)) <= Cardinality(S) /\ Upto(i) # {}
  <2> SUFFICES ASSUME NEW i \in S
               PROVE  /\ IsFiniteSet(Upto(i)) /\ Cardinality(Upto(i)) \in Nat
                      /\ Cardinality(Upto(i)) <= Cardinality(S) /\ Upto(i) # {}
    OBVIOUS
  <2>1. Upto(i) \in SUBSET S /\ i \in Upto(i)
    OBVIOUS
  <2> HIDE DEF Upto
  <2> QED BY <2>1, FS_Subset, FS_CardinalityType
<1>3. \A i \in S : Cardinality(Upto(i)) # 0
  BY <1>2, FS_EmptySet
<1>4. rank \in [S -> T]
  BY <1>1, <1>2, <1>3
<1>5. ASSUME NEW i \in S, NEW k \in S, i < k PROVE rank[i] # rank[k]
  <2>0. \A j \in S : j \in Nat
    OBVIOUS
  <2>1. \A j \in S : j <= i => j <= k
    BY <1>5, <2>0
  <2>2. ~ (k <= i) /\ k <= k
    BY <1>5, <2>0
  <2>3. Upto(i) \in SUBSET Upto(k) /\ k \in Upto(k) /\ k \notin Upto(i)
    BY <2>1, <2>2
  <2> HIDE DEF Upto
  <2>4. Cardinality(Upto(k)) # Cardinality(Upto(i))
    BY <1>2, <2>3, FS_Subset
  <2> QED BY <2>4
<1>6. \A i, k \in S : rank[i] = rank[k] => i = k
  <2> SUFFICES ASSUME NEW i \in S, NEW k \in S, rank[i] = rank[k], i # k PROVE FALSE
    OBVIOUS
  <2> HIDE DEF rank
  <2>1. i < k \/ k < i
    OBVIOUS
  <2> QED BY <1>5, <2>1
<1> HIDE DEF rank
<1>7. rank \in Injection(S, T)
  BY <1>4, <1>6 DEF Injection, IsInjective
<1>8. IsFiniteSet(T) /\ Cardinality(T) = Cardinality(S)
  BY <1>1, FS_Interval
<1>9. rank \in Surjection(S, T)
  BY <1>7, <1>8, FS_Injection
<1>10. ASSUME NEW n \in 1 .. Cardinality(S)
       PROVE  Nth(S, n) \in S /\ Cardinality({j \in S : j <= Nth(S, n)}) = n
  <2>1. PICK i \in S : rank[i] = n
    BY <1>9 DEF Surjection
  <2>2. Cardinality({j \in S : j <= i}) = n
    BY <2>1 DEF rank
  <2> QED BY <2>2 DEF Nth
<1>11. ASSUME NEW i \in S PROVE \E n \in 1 .. Cardinality(S) : Nth(S, n) = i
  <2>1. rank[i] \in 1 .. Cardinality(S)
    BY <1>4
  <2>2. \A k \in S : Cardinality({j \in S : j <= k}) = rank[i] => k = i
    BY <1>6 DEF rank
  <2>3. Cardinality({j \in S : j <= i}) = rank[i]
    BY DEF rank
  <2>4. Nth(S, rank[i]) = i
    BY <2>2, <2>3 DEF Nth
  <2> QED BY <2>1, <2>4
<1> QED BY <1>10, <1>11

LEMMA NthIsMember ==
  ASSUME NEW S \in SUBSET Nat, IsFiniteSet(S), NEW n \in 1 .. Cardinality(S)
  PROVE  Nth(S, n) \in S
BY NthRight

\* A set of numbers that has a bound has a greatest member.
LEMMA MaxIsGreatest ==
  ASSUME NEW S \in SUBSET Nat, S # {}, NEW bound \in Nat, \A x \in S : x <= bound
  PROVE  Max(S) \in S /\ \A x \in S : x <= Max(S)
<1> DEFINE B == {m \in Nat : \A x \in S : x <= m}
<1>1. PICK m \in B : \A y \in B : m <= y
  <2>1. B \in SUBSET Nat /\ bound \in B
    OBVIOUS
  <2> HIDE DEF B
  <2> QED BY <2>1, LeastIsMember
<1>2. m \in S
  <2> SUFFICES ASSUME m \notin S PROVE FALSE
    OBVIOUS
  <2>1. PICK x \in S : TRUE
    OBVIOUS
  <2>2. \A z \in S : z \in Nat /\ z <= m /\ z # m
    OBVIOUS
  <2>3. m - 1 \in Nat /\ \A z \in S : z <= m - 1
    BY <2>1, <2>2
  <2>4. m - 1 \in B
    BY <2>3
  <2> QED BY <1>1, <2>4
<1> QED BY <1>1, <1>2 DEF Max

\* Of some rows, one has a greatest version.
LEMMA GreatestRow ==
  ASSUME NEW f, NEW S \in SUBSET Nat, S # {}, IsFiniteSet(S), \A i \in S : f[i] \in Nat
  PROVE  \E i \in S : \A j \in S : f[j] <= f[i]
<1> DEFINE Sized(U, n) == U \in SUBSET S /\ U # {} /\ IsFiniteSet(U) /\ Cardinality(U) = n
           Top(U) == \E i \in U : \A j \in U : f[j] <= f[i]
           T == {n \in Nat : \A U \in SUBSET S : Sized(U, n) => Top(U)}
<1>1. 0 \in T
  BY FS_EmptySet
<1>2. ASSUME NEW n \in Nat, n \in T PROVE n + 1 \in T
  <2> SUFFICES ASSUME NEW U \in SUBSET S, Sized(U, n + 1) PROVE Top(U)
    OBVIOUS
  <2>1. PICK x \in U : TRUE
    OBVIOUS
  <2> DEFINE V == U \ {x}
  <2>2. V \in SUBSET S /\ IsFiniteSet(V) /\ Cardinality(V) = n
    BY <2>1, FS_RemoveElement
  <2>3. CASE V = {}
    <3>1. \A j \in U : j = x
      BY <2>3
    <3> QED BY <2>1, <3>1
  <2>4. CASE V # {}
    <3>1. Top(V)
      BY <1>2, <2>2, <2>4
    <3>2. PICK i \in V : \A j \in V : f[j] <= f[i]
      BY <3>1
    <3>3. f[i] \in Nat /\ f[x] \in Nat /\ \A j \in U : j = x \/ j \in V
      BY <2>1
    <3>4. CASE f[x] <= f[i]
      BY <3>2, <3>3, <3>4
    <3>5. CASE f[i] <= f[x]
      <4>1. \A j \in V : f[j] <= f[x]
        BY <3>2, <3>3, <3>5
      <4> QED BY <2>1, <3>3, <4>1
    <3> QED BY <3>3, <3>4, <3>5
  <2> QED BY <2>3, <2>4
<1> HIDE DEF T
<1>3. Cardinality(S) \in T
  BY <1>1, <1>2, SetInduction, FS_CardinalityType
<1> QED BY <1>3 DEF T

LEMMA RowByRow ==
  ASSUME NEW S, NEW s \in Seq(S), NEW g, DOMAIN g = DOMAIN s, g = [i \in DOMAIN s |-> g[i]],
         \A i \in DOMAIN s : g[i] \in S
  PROVE  g \in Seq(S) /\ Len(g) = Len(s)
<1>1. DOMAIN s = 1 .. Len(s) /\ Len(s) \in Nat
  OBVIOUS
<1>2. g \in [1 .. Len(s) -> S]
  BY <1>1
<1> QED BY <1>1, <1>2

\* Each of the rows is there once.
Picks(rows, ids, b) ==
  \E g \in [DOMAIN b -> ids] :
    /\ \A n \in DOMAIN b : b[n] = rows[g[n]]
    /\ \A i \in ids : \E n \in DOMAIN b : g[n] = i
    /\ \A n, m \in DOMAIN b : g[n] = g[m] => n = m

LEMMA RowsOfRight ==
  ASSUME NEW S, NEW rows \in Seq(S), NEW ids \in SUBSET DOMAIN rows,
         NEW b, b = RowsOf(rows, ids)
  PROVE  b \in Seq(S) /\ Picks(rows, ids, b)
<1>1. IsFiniteSet(ids) /\ ids \in SUBSET Nat
  <2>1. DOMAIN rows = 1 .. Len(rows) /\ Len(rows) \in Nat
    OBVIOUS
  <2>2. IsFiniteSet(DOMAIN rows)
    BY <2>1, FS_Interval
  <2> QED BY <2>1, <2>2, FS_Subset
<1> DEFINE N == Cardinality(ids)
           g == [n \in 1 .. N |-> Nth(ids, n)]
<1>2. N \in Nat
  BY <1>1, FS_CardinalityType
<1>3. /\ \A n \in 1 .. N : Nth(ids, n) \in ids
      /\ \A i \in ids : \E n \in 1 .. N : Nth(ids, n) = i
      /\ \A n, m \in 1 .. N : Nth(ids, n) = Nth(ids, m) => n = m
  BY <1>1, NthRight
<1>4. b = [n \in 1 .. N |-> rows[g[n]]]
  BY DEF RowsOf
<1>5. DOMAIN b = 1 .. N /\ \A n \in 1 .. N : b[n] = rows[g[n]]
  BY <1>4
<1>6. /\ g \in [1 .. N -> ids]
      /\ \A i \in ids : \E n \in 1 .. N : g[n] = i
      /\ \A n, m \in 1 .. N : g[n] = g[m] => n = m
  BY <1>3
<1> HIDE DEF N, g
<1>7. \A n \in 1 .. N : rows[g[n]] \in S
  BY <1>6
<1>8. b \in [1 .. N -> S]
  BY <1>4, <1>7
<1>9. b \in Seq(S)
  BY <1>2, <1>8
<1>10. Picks(rows, ids, b)
  <2>1. g \in [DOMAIN b -> ids]
    BY <1>5, <1>6
  <2>2. /\ \A n \in DOMAIN b : b[n] = rows[g[n]]
        /\ \A i \in ids : \E n \in DOMAIN b : g[n] = i
        /\ \A n, m \in DOMAIN b : g[n] = g[m] => n = m
    BY <1>5, <1>6
  <2> QED BY <2>1, <2>2, Zenon DEF Picks
<1> QED BY <1>9, <1>10
-----------------------------------------------------------------------------
\* Rows, those carried, and a new one.
Joins(s, a, b, x) ==
  /\ Len(s) \in DOMAIN s \ DOMAIN a /\ s[Len(s)] = x
  /\ \A i \in DOMAIN a : i \in DOMAIN s /\ s[i] = a[i]
  /\ \A m \in DOMAIN b : \E i \in DOMAIN s \ DOMAIN a : s[i] = b[m]
  /\ \A i \in DOMAIN s : \/ i \in DOMAIN a
                         \/ i = Len(s)
                         \/ \E m \in DOMAIN b : s[i] = b[m]

LEMMA Joined ==
  ASSUME NEW S, NEW a \in Seq(S), NEW b \in Seq(S), NEW x \in S, NEW s, s = a \o b \o <<x>>
  PROVE  s \in Seq(S) /\ Joins(s, a, b, x)
<1> DEFINE t == a \o b
<1>1. /\ t \in Seq(S) /\ Len(t) = Len(a) + Len(b) /\ Len(a) \in Nat /\ Len(b) \in Nat
      /\ DOMAIN a = 1 .. Len(a) /\ DOMAIN b = 1 .. Len(b)
  OBVIOUS
<1>2. /\ \A i \in DOMAIN a : t[i] = a[i]
      /\ \A m \in DOMAIN b : t[Len(a) + m] = b[m]
  OBVIOUS
<1>3. s = t \o <<x>>
  OBVIOUS
<1> HIDE DEF t
<1>4. /\ s \in Seq(S) /\ Len(s) = Len(t) + 1 /\ s[Len(s)] = x
      /\ \A i \in 1 .. Len(t) : s[i] = t[i]
  <2>1. <<x>> \in Seq(S) /\ Len(<<x>>) = 1 /\ <<x>>[1] = x
    OBVIOUS
  <2>2. s \in Seq(S) /\ Len(s) = Len(t) + 1
    BY <1>1, <1>3, <2>1
  <2>3. s[Len(t) + 1] = x
    BY <1>1, <1>3, <2>1
  <2>4. ASSUME NEW i \in 1 .. Len(t) PROVE s[i] = t[i]
    <3>1. t \in Seq(S) /\ Len(t) \in Nat /\ i \in Nat /\ 1 <= i /\ i <= Len(t)
      BY <1>1
    <3>2. i \in 1 .. Len(t) + Len(<<x>>)
      BY <2>1, <3>1
    <3> QED BY <1>3, <2>1, <3>1, <3>2
  <2> QED BY <2>2, <2>3, <2>4
<1>5. DOMAIN s = 1 .. Len(s)
  BY <1>4
<1>6. \A i \in DOMAIN a : i \in DOMAIN s /\ s[i] = a[i]
  BY <1>1, <1>2, <1>4, <1>5
<1>7. \A m \in DOMAIN b : Len(a) + m \in DOMAIN s \ DOMAIN a /\ s[Len(a) + m] = b[m]
  BY <1>1, <1>2, <1>4, <1>5
<1>8. ASSUME NEW i \in DOMAIN s, i \notin DOMAIN a, i # Len(s)
      PROVE  \E m \in DOMAIN b : s[i] = b[m]
  <2>1. /\ i \in Nat /\ Len(a) < i /\ i < Len(s)
        /\ Len(s) = Len(a) + Len(b) + 1 /\ Len(a) \in Nat /\ Len(b) \in Nat
    BY <1>1, <1>4, <1>5, <1>8
  <2>2. i - Len(a) \in 1 .. Len(b) /\ Len(a) + (i - Len(a)) = i
    BY <2>1
  <2> QED BY <1>1, <1>7, <2>2
<1>9. Len(s) \in DOMAIN s \ DOMAIN a
  BY <1>1, <1>4, <1>5
<1> QED BY <1>4, <1>6, <1>7, <1>8, <1>9 DEF Joins

LEMMA RowsAreFinite ==
  ASSUME NEW R, NEW rows \in Seq(R)
  PROVE  /\ Len(rows) \in Nat /\ DOMAIN rows = 1 .. Len(rows)
         /\ \A ids \in SUBSET DOMAIN rows : IsFiniteSet(ids) /\ ids \in SUBSET Nat
         /\ \A ids \in SUBSET DOMAIN rows : ids # {} => Max(ids) \in ids
<1>1. Len(rows) \in Nat /\ DOMAIN rows = 1 .. Len(rows)
  OBVIOUS
<1>2. IsFiniteSet(DOMAIN rows)
  BY <1>1, FS_Interval
<1>3. ASSUME NEW ids \in SUBSET DOMAIN rows PROVE IsFiniteSet(ids) /\ ids \in SUBSET Nat
  BY <1>1, <1>2, FS_Subset
<1>4. ASSUME NEW ids \in SUBSET DOMAIN rows, ids # {} PROVE Max(ids) \in ids
  <2>1. \A x \in ids : x <= Len(rows)
    BY <1>1
  <2> QED BY <1>1, <1>3, <1>4, <2>1, MaxIsGreatest
<1> QED BY <1>1, <1>3, <1>4

LEMMA TwoRows ==
  ASSUME NEW S, NEW x \in S, NEW y \in S
  PROVE  <<x>> \o <<y>> = <<x, y>>
<1> DEFINE a == <<x>> \o <<y>>
           b == <<x, y>>
<1>1. a \in Seq(S) /\ b \in Seq(S) /\ Len(a) = 2 /\ Len(b) = 2
  OBVIOUS
<1>2. a[1] = x /\ a[2] = y /\ b[1] = x /\ b[2] = y
  OBVIOUS
<1> HIDE DEF a, b
<1>3. a = b
  BY <1>1, <1>2, SeqEqual
<1> QED BY <1>3 DEF a, b

-----------------------------------------------------------------------------
(***************************************************************************)
(* The ledger.                                                             *)
(***************************************************************************)

\* A row of the n events there are, or of none.
Rests(n) == {row \in ClaimRow : row.event \in 0 .. n}

LEMMA RestsOnAnother ==
  ASSUME NEW n \in Nat, NEW x \in Rests(n), NEW e \in 0 .. n
  PROVE  [x EXCEPT !.event = e] \in Rests(n)
<1>1. e \in Nat
  OBVIOUS
<1>2. x \in ClaimRow
  BY DEF Rests
<1>3. [x EXCEPT !.event = e] \in ClaimRow
  BY <1>1, <1>2 DEF ClaimRow
<1>4. [x EXCEPT !.event = e].event = e
  BY <1>2 DEF ClaimRow
<1> QED BY <1>3, <1>4 DEF Rests

LEMMA LedgerBounds ==
  /\ MaxTime \in Nat /\ MaxClock \in Nat /\ MaxCalls \in Nat /\ Clock \subseteq Time
  /\ Time \subseteq 0 .. MaxTime /\ 1 \in Clock
  /\ \A k \in Clock : k \in Nat /\ k # 0
  /\ \A t \in Time : t \in Nat /\ t # 0
BY LedgerAssumption DEF LedgerAssumption, Clock, Time

LEMMA TimesTyped ==
  ASSUME NEW told \in 0 .. MaxTime, NEW otherwise \in Time, NEW to \in 0 .. MaxTime
  PROVE  /\ Starts(told, otherwise) \in Time
         /\ End(Starts(told, otherwise), to) \in 0 .. MaxTime
BY LedgerBounds DEF Starts, End, Time

-----------------------------------------------------------------------------
(* What becomes of a row while nothing is erased: it stays what it says,   *)
(* and what was believed until further notice may end now.                 *)

Follows(x, y, when) ==
  /\ y.about = x.about /\ y.object = x.object
  /\ y.from = x.from /\ y.to = x.to /\ y.known = x.known
  /\ y.status = "erased" <=> x.status = "erased"
  /\ y.until = x.until \/ (x.until = 0 /\ y.until = when)

Grows(a, b, when) ==
  /\ \A i \in DOMAIN a : i \in DOMAIN b /\ Follows(a[i], b[i], when)
  /\ \A i \in DOMAIN b : i \in DOMAIN a \/ b[i].known = when

LEMMA GrowsOn ==
  ASSUME NEW a, NEW b, NEW c, NEW when, when # 0, Grows(a, b, when), Grows(b, c, when)
  PROVE  Grows(a, c, when)
<1>1. ASSUME NEW i \in DOMAIN a PROVE i \in DOMAIN c /\ Follows(a[i], c[i], when)
  BY DEF Grows, Follows
<1>2. ASSUME NEW i \in DOMAIN c PROVE i \in DOMAIN a \/ c[i].known = when
  BY DEF Grows, Follows
<1> QED BY <1>1, <1>2 DEF Grows

LEMMA GrowsNot ==
  ASSUME NEW a, NEW when
  PROVE  Grows(a, a, when)
BY DEF Grows, Follows

\* Rows that stand now stood before, as they are, or rest on an event.
Stand(a, b, event) ==
  \A i \in Current(b) : (i \in Current(a) /\ b[i] = a[i]) \/ b[i].event = event

Single(rows, about) == \A i, j \in CurrentAbout(rows, about) : i = j

LEMMA StandOn ==
  ASSUME NEW a, NEW b, NEW c, NEW event, Stand(a, b, event), Stand(b, c, event)
  PROVE  Stand(a, c, event)
BY DEF Stand

LEMMA ClosedRight ==
  ASSUME NEW n \in Nat, NEW rows \in Seq(Rests(n)), NEW ids \in SUBSET Current(rows),
         NEW status \in {"superseded", "retracted"}, clock \in Clock,
         NEW b, b = Closed(rows, ids, status)
  PROVE  /\ b \in Seq(Rests(n)) /\ DOMAIN b = DOMAIN rows /\ Len(b) = Len(rows)
         /\ Grows(rows, b, clock)
         /\ Current(b) = Current(rows) \ ids
         /\ \A i \in DOMAIN rows \ ids : b[i] = rows[i]
<1> DEFINE R == Rests(n)
<1>1. b = [i \in DOMAIN rows |-> b[i]] /\ DOMAIN b = DOMAIN rows
  BY DEF Closed
<1>2. \A i \in DOMAIN rows : rows[i] \in R
  OBVIOUS
<1>3. \A i \in DOMAIN rows \ ids : b[i] = rows[i]
  BY DEF Closed
<1>4. ASSUME NEW i \in ids
      PROVE  /\ b[i] \in R /\ Follows(rows[i], b[i], clock)
             /\ b[i].status # "active"
  <2>1. i \in DOMAIN rows /\ rows[i].status = "active" /\ rows[i].until = 0
    BY DEF Current
  <2>2. b[i] = [rows[i] EXCEPT !.status = status, !.until = clock]
    BY <2>1 DEF Closed
  <2>3. rows[i] \in R
    BY <1>2, <2>1
  <2> QED BY <2>1, <2>2, <2>3 DEF Rests, ClaimRow, Follows, Status
<1>5. \A i \in DOMAIN rows : b[i] \in R
  BY <1>2, <1>3, <1>4
<1> HIDE DEF R
<1>6. b \in Seq(R) /\ Len(b) = Len(rows)
  <2>1. rows \in Seq(R)
    BY DEF R
  <2> QED BY <1>1, <1>5, <2>1, RowByRow
<1>7. ids \subseteq DOMAIN rows
  BY DEF Current
<1>8. Grows(rows, b, clock)
  BY <1>1, <1>3, <1>4 DEF Grows, Follows
<1>9. Current(b) = Current(rows) \ ids
  BY <1>1, <1>3, <1>4 DEF Current
<1> QED BY <1>1, <1>3, <1>6, <1>8, <1>9 DEF R

CarriesOn(b, rows, ids, boundary, event) ==
  /\ \A i \in DOMAIN b : b[i].status = "historical" /\ b[i].known = clock
  /\ \A i \in ids : NeedsCarryForward(rows[i], boundary) =>
       \E m \in DOMAIN b : b[m] = CarriedClaim(rows[i], boundary, event)

LEMMA CarriedRight ==
  ASSUME NEW n \in Nat, NEW rows \in Seq(Rests(n)), NEW ids \in SUBSET DOMAIN rows,
         NEW boundary \in Time, NEW event \in 0 .. n, clock \in Clock,
         NEW b, b = CarriedAll(rows, ids, boundary, event)
  PROVE  /\ b \in Seq(Rests(n))
         /\ CarriesOn(b, rows, ids, boundary, event)
<1> DEFINE due == {i \in ids : NeedsCarryForward(rows[i], boundary)}
<1>1. IsFiniteSet(due) /\ due \in SUBSET Nat /\ due \in SUBSET DOMAIN rows
  <2>1. due \in SUBSET DOMAIN rows
    OBVIOUS
  <2> HIDE DEF due
  <2> QED BY <2>1, RowsAreFinite
<1>2. b = [m \in 1 .. Cardinality(due) |-> CarriedClaim(rows[Nth(due, m)], boundary, event)]
  BY DEF CarriedAll
<1>3. \A i \in ids : NeedsCarryForward(rows[i], boundary) <=> i \in due
  OBVIOUS
<1> HIDE DEF due
<1>4. Cardinality(due) \in Nat
  BY <1>1, FS_CardinalityType
<1>5. ASSUME NEW i \in DOMAIN rows
      PROVE  /\ CarriedClaim(rows[i], boundary, event) \in Rests(n)
             /\ CarriedClaim(rows[i], boundary, event).status = "historical"
             /\ CarriedClaim(rows[i], boundary, event).known = clock
  <2>1. rows[i] \in Rests(n)
    OBVIOUS
  <2>2. boundary \in 0 .. MaxTime /\ 0 \in {0} \cup Clock
    BY LedgerBounds
  <2>3. Carried(rows[i], boundary) \in Rests(n)
    BY <2>1, <2>2 DEF Carried, Rests, ClaimRow, Status
  <2>4. Carried(rows[i], boundary).status = "historical" /\ Carried(rows[i], boundary).known = clock
    BY <2>1 DEF Carried, Rests, ClaimRow
  <2>5. PICK x \in Rests(n) : x = Carried(rows[i], boundary)
    BY <2>3
  <2>6. PICK e \in 0 .. n : e = IF event = 0 THEN x.event ELSE event
    BY DEF Rests
  <2>7. CarriedClaim(rows[i], boundary, event) = [x EXCEPT !.event = e]
    BY <2>5, <2>6 DEF CarriedClaim
  <2>8. [x EXCEPT !.event = e] \in Rests(n)
    BY RestsOnAnother
  <2> QED BY <2>4, <2>5, <2>7, <2>8 DEF Rests, ClaimRow
<1>6. \A m \in 1 .. Cardinality(due) : Nth(due, m) \in due
  BY <1>1, NthRight
<1>7. \A m \in 1 .. Cardinality(due) : b[m] \in Rests(n)
  BY <1>1, <1>2, <1>5, <1>6
<1>8. b \in Seq(Rests(n))
  <2>1. b \in [1 .. Cardinality(due) -> Rests(n)]
    BY <1>2, <1>7
  <2> QED BY <1>4, <2>1
<1>9. \A i \in DOMAIN b : b[i].status = "historical" /\ b[i].known = clock
  BY <1>1, <1>2, <1>5, <1>6
<1>10. \A i \in due : \E m \in DOMAIN b : b[m] = CarriedClaim(rows[i], boundary, event)
  <2>1. \A i \in due : \E m \in 1 .. Cardinality(due) : Nth(due, m) = i
    BY <1>1, NthRight
  <2> QED BY <1>2, <2>1
<1> QED BY <1>3, <1>8, <1>9, <1>10 DEF CarriesOn
-----------------------------------------------------------------------------
(* Applying a claim.                                                       *)

StaySingle(a, b, c) ==
  \A about : Single(a, about) /\ ~(about = c.about /\ Loosens(a, c)) => Single(b, about)

PastStays(a, b, boundary, event) ==
  \A i \in DOMAIN a :
    \/ b[i] = a[i]
    \/ ~NeedsCarryForward(a[i], boundary)
    \/ \E j \in DOMAIN b : b[j] = CarriedClaim(a[i], boundary, event)

LEMMA ApplyClaimRight ==
  ASSUME NEW n \in Nat, NEW rows \in Seq(Rests(n)), NEW c \in Claim,
         NEW event \in 0 .. n, NEW carryEvent \in 0 .. n, clock \in Clock,
         NEW b, b = ApplyClaim(rows, c, event, carryEvent)
  PROVE  /\ b \in Seq(Rests(n)) /\ Grows(rows, b, clock) /\ Stand(rows, b, event)
         /\ StaySingle(rows, b, c)
         /\ c.operation = "update" => PastStays(rows, b, Starts(c.from, clock), carryEvent)
<1> DEFINE active    == CurrentAbout(rows, c.about)
           exact     == {i \in active : rows[i].object = c.object}
           operation == EffectiveOperation(c, active, exact)
           affected  == Affected(rows, c, active, exact)
           closes    == affected # {} /\ operation \in {"update", "supersede", "retract"}
           status    == IF operation = "retract" THEN "retracted" ELSE "superseded"
           closed    == IF closes THEN Closed(rows, affected, status) ELSE rows
           boundary  == Starts(c.from, clock)
           carried   == IF closes /\ operation = "update"
                        THEN CarriedAll(rows, affected, boundary, carryEvent) ELSE <<>>
           replaced  == IF affected # {} THEN Max(affected)
                        ELSE IF active # {} THEN Max(active) ELSE 0
           otherwise == IF operation = "supersede" /\ replaced # 0 THEN rows[replaced].from ELSE clock
           from      == Starts(c.from, otherwise)
           made      == [about |-> c.about, object |-> c.object, event |-> event,
                         status |-> "active", from |-> from, to |-> End(from, c.to),
                         known |-> clock, until |-> 0]
           whole     == closed \o carried \o <<made>>
           same      == exact # {} /\ operation \in {"create", "enrich"}
           ends      == closes /\ operation = "retract"
<1>1. b = IF same THEN rows ELSE IF ends THEN closed ELSE whole
  BY DEF ApplyClaim
<1>2. active \in SUBSET Current(rows) /\ active \in SUBSET DOMAIN rows
  BY DEF CurrentAbout, Current
<1>3. exact \in SUBSET active
  OBVIOUS
<1>4. affected \in SUBSET active
  <2>1. exact # {} => Max(exact) \in exact
    BY <1>2, <1>3, RowsAreFinite
  <2> QED BY <1>3, <2>1 DEF Affected
<1>5. /\ c.about \in About /\ c.object \in Object /\ c.from \in 0 .. MaxTime /\ c.to \in 0 .. MaxTime
      /\ c.operation \in Operation /\ operation \in Operation
      /\ c.operation = "update" => operation = "update"
  BY DEF Claim, Operation, EffectiveOperation
<1>6. /\ closed \in Seq(Rests(n)) /\ DOMAIN closed = DOMAIN rows /\ Len(closed) = Len(rows)
      /\ Grows(rows, closed, clock) /\ Current(closed) \subseteq Current(rows)
      /\ closes => Current(closed) = Current(rows) \ affected
      /\ \A i \in DOMAIN rows \ affected : closed[i] = rows[i]
      /\ ~closes => closed = rows
  <2>1. CASE closes
    <3>1. affected \in SUBSET Current(rows) /\ status \in {"superseded", "retracted"}
      BY <1>2, <1>4
    <3>2. closed = Closed(rows, affected, status)
      BY <2>1
    <3> HIDE DEF affected, status, closed, closes
    <3> QED BY <2>1, <3>1, <3>2, ClosedRight
  <2>2. CASE ~closes
    BY <2>2, GrowsNot
  <2> QED BY <2>1, <2>2
<1>7. boundary \in Time
  BY <1>5, LedgerBounds, TimesTyped
<1>8. /\ carried \in Seq(Rests(n))
      /\ \A m \in DOMAIN carried : carried[m].status = "historical" /\ carried[m].known = clock
      /\ closes /\ operation = "update" =>
           CarriesOn(carried, rows, affected, boundary, carryEvent)
  <2>1. CASE closes /\ operation = "update"
    <3>1. affected \in SUBSET DOMAIN rows
      BY <1>2, <1>4
    <3>2. carried = CarriedAll(rows, affected, boundary, carryEvent)
      BY <2>1
    <3> HIDE DEF affected, boundary, carried, closes, operation
    <3>3. /\ carried \in Seq(Rests(n))
          /\ CarriesOn(carried, rows, affected, boundary, carryEvent)
      BY <1>7, <3>1, <3>2, CarriedRight
    <3> QED BY <3>3 DEF CarriesOn
  <2>2. CASE ~(closes /\ operation = "update")
    <3>1. carried = <<>>
      BY <2>2
    <3>2. <<>> \in Seq(Rests(n)) /\ DOMAIN <<>> = {}
      OBVIOUS
    <3> HIDE DEF carried, closes, operation, affected, boundary
    <3> QED BY <2>2, <3>1, <3>2
  <2> QED BY <2>1, <2>2
<1>9. made \in Rests(n) /\ made.event = event /\ made.about = c.about /\ made.known = clock
  <2>1. otherwise \in Time
    <3>1. replaced # 0 => replaced \in DOMAIN rows
      BY <1>2, <1>4, RowsAreFinite
    <3>2. \A i \in DOMAIN rows : rows[i] \in Rests(n)
      OBVIOUS
    <3>3. replaced # 0 => rows[replaced].from \in Time
      BY <3>1, <3>2 DEF Rests, ClaimRow
    <3> HIDE DEF replaced, operation
    <3> QED BY <3>3, LedgerBounds
  <2> HIDE DEF otherwise
  <2>2. from \in Time /\ End(from, c.to) \in 0 .. MaxTime
    BY <1>5, <2>1, TimesTyped
  <2> HIDE DEF from
  <2>3. "active" \in Status /\ event \in Nat
    BY DEF Status
  <2>4. made \in ClaimRow
    BY <1>5, <2>2, <2>3 DEF ClaimRow
  <2> QED BY <2>4 DEF Rests
<1> HIDE DEF closed, carried, made
<1>10. whole \in Seq(Rests(n)) /\ Joins(whole, closed, carried, made)
  <2>1. whole = closed \o carried \o <<made>>
    OBVIOUS
  <2>2. closed \in Seq(Rests(n)) /\ carried \in Seq(Rests(n)) /\ made \in Rests(n)
    BY <1>6, <1>8, <1>9
  <2> HIDE DEF whole
  <2> QED BY <2>1, <2>2, Joined
<1> HIDE DEF whole
<1> USE DEF Joins
<1>11. Grows(rows, whole, clock)
  <2>1. Grows(closed, whole, clock)
    <3>1. \A i \in DOMAIN whole : i \in DOMAIN closed \/ whole[i].known = clock
      BY <1>8, <1>9, <1>10
    <3>2. \A i \in DOMAIN closed : Follows(closed[i], whole[i], clock)
      BY <1>10 DEF Follows
    <3> QED BY <1>10, <3>1, <3>2 DEF Grows
  <2> QED BY <1>6, <2>1, LedgerBounds, GrowsOn
<1>12. Current(whole) \subseteq Current(closed) \cup {Len(whole)}
  <2>1. \A m \in DOMAIN carried : carried[m].status # "active"
    BY <1>8
  <2> QED BY <1>10, <2>1 DEF Current
<1>13. \A i \in Current(closed) : i \in Current(rows) /\ closed[i] = rows[i]
  <2>1. CASE closes
    <3>1. \A i \in Current(rows) : i \in DOMAIN rows
      BY DEF Current
    <3> HIDE DEF affected, closes
    <3> QED BY <1>6, <2>1, <3>1
  <2>2. CASE ~closes
    BY <1>6, <2>2
  <2> QED BY <2>1, <2>2
<1>14. Stand(rows, b, event)
  <2>1. Stand(rows, closed, event)
    BY <1>13 DEF Stand
  <2>2. Stand(rows, whole, event)
    <3>1. \A i \in Current(closed) : i \in DOMAIN closed
      BY DEF Current
    <3> QED BY <1>9, <1>10, <1>12, <1>13, <3>1 DEF Stand
  <2>3. Stand(rows, rows, event)
    BY DEF Stand
  <2> QED BY <1>1, <2>1, <2>2, <2>3
<1>15. b \in Seq(Rests(n)) /\ Grows(rows, b, clock)
  BY <1>1, <1>6, <1>10, <1>11, GrowsNot
<1>16. ASSUME NEW about, Single(rows, about), ~(about = c.about /\ Loosens(rows, c))
       PROVE  Single(b, about)
  <2>1. Single(closed, about)
    BY <1>13, <1>16 DEF Single, CurrentAbout
  <2>2. ASSUME ~same, ~ends PROVE Single(whole, about)
    <3>0. \A i \in Current(closed) : i \in DOMAIN closed /\ whole[i] = closed[i]
      BY <1>10 DEF Current
    <3>1. CASE about # c.about
      <4>1. \A i \in CurrentAbout(whole, about) : i \in CurrentAbout(closed, about)
        BY <1>9, <1>10, <1>12, <3>0, <3>1 DEF CurrentAbout
      <4> QED BY <2>1, <4>1 DEF Single
    <3>2. CASE about = c.about
      <4>1. c.single /\ (c.previous # None => {i \in active : rows[i].object = c.previous} = active)
        BY <1>16, <3>2 DEF Loosens
      <4>2. CASE active = {}
        <5>1. CurrentAbout(closed, about) = {}
          BY <1>13, <3>2, <4>2 DEF CurrentAbout
        <5>2. \A i \in CurrentAbout(whole, about) : i = Len(whole)
          BY <1>12, <3>0, <5>1 DEF CurrentAbout
        <5> QED BY <5>2 DEF Single
      <4>3. CASE active # {}
        <5>1. affected = active
          <6>1. CASE c.previous # None
            BY <4>1, <6>1 DEF Affected
          <6>2. CASE c.previous = None /\ ~(c.operation = "retract" /\ exact # {})
            BY <6>2 DEF Affected
          <6>3. CASE c.previous = None /\ c.operation = "retract" /\ exact # {}
            <7>1. operation = "retract"
              BY <6>3 DEF EffectiveOperation
            <7>2. affected # {}
              <8>1. affected = {Max(exact)}
                BY <6>3 DEF Affected
              <8> QED BY <8>1
            <7> QED BY <2>2, <7>1, <7>2
          <6> QED BY <6>1, <6>2, <6>3
        <5>2. operation \in {"update", "supersede", "retract"}
          BY <1>5, <2>2, <4>1, <4>3 DEF EffectiveOperation, Operation
        <5>3. closes
          BY <4>3, <5>1, <5>2
        <5>4. Current(closed) = Current(rows) \ active
          BY <1>6, <5>1, <5>3
        <5>5. CurrentAbout(closed, about) = {}
          BY <1>13, <3>2, <5>4 DEF CurrentAbout
        <5>6. \A i \in CurrentAbout(whole, about) : i = Len(whole)
          BY <1>12, <3>0, <5>5 DEF CurrentAbout
        <5> QED BY <5>6 DEF Single
      <4> QED BY <4>2, <4>3
    <3> QED BY <3>1, <3>2
  <2> QED BY <1>1, <1>16, <2>1, <2>2
<1>17. ASSUME c.operation = "update", NEW i \in DOMAIN rows, b[i] # rows[i],
              NeedsCarryForward(rows[i], boundary)
       PROVE  \E j \in DOMAIN b : b[j] = CarriedClaim(rows[i], boundary, carryEvent)
  <2>1. operation = "update" /\ ~same /\ ~ends /\ b = whole
    BY <1>1, <1>5, <1>17
  <2>2. whole[i] = closed[i]
    BY <1>6, <1>10
  <2>3. i \in affected /\ closes
    BY <1>6, <1>17, <2>1, <2>2
  <2>4. PICK m \in DOMAIN carried : carried[m] = CarriedClaim(rows[i], boundary, carryEvent)
    BY <1>8, <1>17, <2>1, <2>3 DEF CarriesOn
  <2> QED BY <1>10, <2>1, <2>4
<1> QED BY <1>14, <1>15, <1>16, <1>17 DEF StaySingle, PastStays
-----------------------------------------------------------------------------
(* The claims of an event, one after the other.                            *)

Ledgers(n) == [rows: Seq(Rests(n)), loose: SUBSET About]

OneEach(s) == \A about \in About \ s.loose : Single(s.rows, about)

LeadsTo(s, r, event) ==
  /\ Grows(s.rows, r.rows, clock) /\ Stand(s.rows, r.rows, event)
  /\ OneEach(s) => OneEach(r)

LEMMA ApplyingRight ==
  ASSUME NEW n \in Nat, NEW s \in Ledgers(n), NEW c \in Claim,
         NEW event \in 0 .. n, NEW carryEvent \in 0 .. n, clock \in Clock,
         NEW r, r = Applying(s, c, event, carryEvent)
  PROVE  r \in Ledgers(n) /\ LeadsTo(s, r, event)
<1> DEFINE b == ApplyClaim(s.rows, c, event, carryEvent)
           l == IF Loosens(s.rows, c) THEN s.loose \cup {c.about} ELSE s.loose
<1>1. s.rows \in Seq(Rests(n)) /\ s.loose \in SUBSET About /\ c.about \in About
  BY DEF Ledgers, Claim
<1>2. /\ b \in Seq(Rests(n)) /\ Grows(s.rows, b, clock) /\ Stand(s.rows, b, event)
      /\ StaySingle(s.rows, b, c)
  <2> HIDE DEF b
  <2> QED BY <1>1, ApplyClaimRight DEF b
<1>3. r = [rows |-> b, loose |-> l]
  BY DEF Applying
<1> HIDE DEF b
<1>4. r.rows = b /\ r.loose = l
  BY <1>3
<1>5. r \in Ledgers(n)
  BY <1>1, <1>2, <1>3 DEF Ledgers
<1>6. ASSUME OneEach(s), NEW about \in About \ l PROVE Single(b, about)
  <2>1. about \notin s.loose /\ ~(about = c.about /\ Loosens(s.rows, c))
    BY <1>6
  <2> QED BY <1>2, <1>6, <2>1 DEF OneEach, StaySingle
<1> QED BY <1>2, <1>4, <1>5, <1>6 DEF LeadsTo, OneEach

LEMMA AppliedRight ==
  ASSUME NEW n \in Nat, NEW s \in Ledgers(n), NEW told \in Seq(Claim),
         NEW event \in 0 .. n, NEW carryEvent \in 0 .. n, clock \in Clock,
         NEW r, r = Applied(s, told, event, carryEvent)
  PROVE  r \in Ledgers(n) /\ LeadsTo(s, r, event)
<1> DEFINE N == Len(told)
           Right(f) == f = [m \in 0 .. N |-> IF m = 0 THEN s
                                             ELSE Applying(f[m - 1], told[m], event, carryEvent)]
           after == CHOOSE f : Right(f)
           step == [m \in Nat |-> [x \in Ledgers(n) |->
                      IF m \in 1 .. N THEN Applying(x, told[m], event, carryEvent) ELSE x]]
           Good(x) == x \in Ledgers(n) /\ LeadsTo(s, x, event)
           T == {m \in Nat : m <= N => Good(after[m])}
<1>1. r = after[N]
  BY DEF Applied
<1>2. N \in Nat /\ \A m \in 1 .. N : told[m] \in Claim
  OBVIOUS
<1> HIDE DEF N
<1>3. ASSUME NEW m \in 1 .. N, NEW x \in Ledgers(n)
      PROVE  /\ Applying(x, told[m], event, carryEvent) \in Ledgers(n)
             /\ LeadsTo(x, Applying(x, told[m], event, carryEvent), event)
  BY <1>2, ApplyingRight
<1>4. step \in [Nat -> [Ledgers(n) -> Ledgers(n)]]
  BY <1>3
<1>5. PICK f \in [0 .. N -> Ledgers(n)] : Iterated(f, s, step, N)
  <2> HIDE DEF step
  <2> QED BY <1>2, <1>4, Iterates
<1>6. Right(f)
  <2>1. \A m \in 0 .. N : m # 0 => m - 1 \in 0 .. N /\ m \in 1 .. N
    BY <1>2
  <2>2. ASSUME NEW m \in 0 .. N, m # 0
        PROVE  f[m] = Applying(f[m - 1], told[m], event, carryEvent)
    <3>1. m \in 1 .. N /\ m \in Nat /\ f[m - 1] \in Ledgers(n)
      BY <1>2, <2>1, <2>2
    <3>2. f[m] = step[m][f[m - 1]]
      BY <1>5, <3>1 DEF Iterated
    <3> QED BY <3>1, <3>2
  <2>3. f[0] = s
    BY <1>5 DEF Iterated
  <2> QED BY <1>5, <2>2, <2>3
<1>7. Right(after)
  <2> HIDE DEF Right
  <2> QED BY <1>6
<1> HIDE DEF after
<1>8. 0 \in T
  <2>1. after[0] = s
    BY <1>2, <1>7
  <2>2. Stand(s.rows, s.rows, event)
    BY DEF Stand
  <2> QED BY <2>1, <2>2, GrowsNot DEF LeadsTo
<1>9. ASSUME NEW m \in Nat, m \in T PROVE m + 1 \in T
  <2> SUFFICES ASSUME m + 1 <= N PROVE Good(after[m + 1])
    OBVIOUS
  <2>1. Good(after[m])
    BY <1>2, <1>9
  <2>2. m + 1 \in 1 .. N /\ m + 1 \in 0 .. N /\ (m + 1) - 1 = m /\ m + 1 # 0
    BY <1>2
  <2>3. after[m + 1] = Applying(after[m], told[m + 1], event, carryEvent)
    <3>1. \A k \in 0 .. N : after[k] = IF k = 0 THEN s
                                       ELSE Applying(after[k - 1], told[k], event, carryEvent)
      BY <1>7
    <3> QED BY <2>2, <3>1
  <2>4. after[m + 1] \in Ledgers(n) /\ LeadsTo(after[m], after[m + 1], event)
    BY <1>3, <2>1, <2>2, <2>3
  <2>5. clock # 0
    BY LedgerBounds
  <2>6. LeadsTo(s, after[m + 1], event)
    <3>1. Grows(s.rows, after[m + 1].rows, clock)
      BY <2>1, <2>4, <2>5, GrowsOn DEF LeadsTo
    <3>2. Stand(s.rows, after[m + 1].rows, event)
      BY <2>1, <2>4, StandOn DEF LeadsTo
    <3> QED BY <2>1, <2>4, <3>1, <3>2 DEF LeadsTo
  <2> QED BY <2>4, <2>6
<1> HIDE DEF T
<1>10. N \in T
  BY <1>2, <1>8, <1>9, SetInduction
<1> QED BY <1>1, <1>2, <1>10 DEF T
-----------------------------------------------------------------------------
(* Storing an event.                                                       *)

LEMMA ActiveEventRight ==
  ASSUME events \in Seq(EventRow), NEW key
  PROVE  \/ ActiveEvent(key) = 0 /\ \A i \in Current(events) : events[i].key # key
         \/ /\ ActiveEvent(key) \in Current(events) /\ ActiveEvent(key) # 0
            /\ events[ActiveEvent(key)].key = key
<1> DEFINE current == {i \in Current(events) : events[i].key = key}
<1>1. CASE current = {}
  BY <1>1 DEF ActiveEvent
<1>2. CASE current # {}
  <2>1. current \in SUBSET DOMAIN events
    BY DEF Current
  <2>2. current \in SUBSET Nat /\ IsFiniteSet(current)
    <3> HIDE DEF current
    <3> QED BY <2>1, RowsAreFinite
  <2>3. \A i \in DOMAIN events : events[i].version \in Nat
    <3>1. \A i \in DOMAIN events : events[i] \in EventRow
      OBVIOUS
    <3> QED BY <3>1 DEF EventRow
  <2> DEFINE f == [i \in DOMAIN events |-> events[i].version]
  <2>4. \A i \in current : f[i] \in Nat /\ f[i] = events[i].version
    BY <2>1, <2>3
  <2>5. \E i \in current : \A j \in current : f[j] <= f[i]
    <3> HIDE DEF current, f
    <3> QED BY <1>2, <2>2, <2>4, GreatestRow
  <2>6. \E i \in current : \A j \in current : events[j].version <= events[i].version
    BY <2>4, <2>5
  <2>7. ActiveEvent(key) = CHOOSE i \in current : \A j \in current : events[j].version <= events[i].version
    BY <1>2 DEF ActiveEvent
  <2>8. ActiveEvent(key) \in current
    <3> HIDE DEF current, f
    <3> QED BY <2>6, <2>7
  <2>9. 0 \notin DOMAIN events
    OBVIOUS
  <2> QED BY <2>1, <2>8, <2>9
<1> QED BY <1>1, <1>2

\* The rows of events, where "ended" are superseded and the last is new.
Renews(a, b, ended) ==
  /\ Len(b) \in DOMAIN b \ DOMAIN a
  /\ \A i \in DOMAIN a : /\ i \in DOMAIN b /\ b[i].key = a[i].key
                         /\ i \notin ended => b[i] = a[i]
  /\ Current(b) \subseteq (Current(a) \ ended) \cup {Len(b)}

LEMMA EventsAfterRight ==
  ASSUME events \in Seq(EventRow), clock \in Clock, NEW e \in Event, NEW active,
         active = ActiveEvent(e.key),
         NEW b, b = EventsAfter(e, active)
  PROVE  /\ b \in Seq(EventRow) /\ (Len(b) = Len(events) + 2 => Len(b) - 1 \in 0 .. Len(b))
         /\ Renews(events, b, Aliased(e, active)
                              \cup (IF IsVersion(e, active)
                                    THEN {i \in Current(events) : events[i].key = e.key} ELSE {}))
         /\ b[Len(b)].key = e.key /\ b[Len(b)].until = 0
         /\ b[Len(b)].status = IF e.operation = "retract" THEN "retracted" ELSE "active"
<1> DEFINE replaced == IF IsVersion(e, active)
                       THEN {i \in Current(events) : events[i].key = e.key} ELSE {}
           ended    == replaced \cup Aliased(e, active)
           closed   == Closed(events, ended, "superseded")
           carries  == /\ IsVersion(e, active) /\ e.operation = "update"
                       /\ NeedsCarryForward(events[active], Starts(e.from, clock))
           carried  == IF carries THEN <<Carried(events[active], Starts(e.from, clock))>> ELSE <<>>
           otherwise == IF active # 0 /\ e.operation \in {"enrich", "supersede"}
                        THEN events[active].from ELSE clock
           from     == Starts(e.from, otherwise)
           status   == IF e.operation = "retract" THEN "retracted" ELSE "active"
           version  == IF active = 0 THEN 1 ELSE events[active].version + 1
           made     == [key |-> e.key, title |-> e.title, source |-> e.source, status |-> status,
                        version |-> version, from |-> from, to |-> End(from, e.to),
                        known |-> clock, until |-> 0]
           whole    == closed \o carried \o <<made>>
<1>1. b = whole
  BY DEF EventsAfter
<1>2. /\ e.key \in Key /\ e.title \in Title /\ e.source \in Nat /\ e.operation \in Operation
      /\ e.from \in 0 .. MaxTime /\ e.to \in 0 .. MaxTime
  BY DEF Event
<1>3. active # 0 => active \in DOMAIN events /\ events[active] \in EventRow
  <2>1. active # 0 => active \in DOMAIN events
    BY ActiveEventRight DEF Current
  <2>2. \A i \in DOMAIN events : events[i] \in EventRow
    OBVIOUS
  <2> QED BY <2>1, <2>2
<1>4. ended \in SUBSET Current(events)
  BY DEF Aliased
<1> HIDE DEF ended
<1>5. /\ closed \in Seq(EventRow) /\ DOMAIN closed = DOMAIN events /\ Len(closed) = Len(events)
      /\ \A i \in DOMAIN events \ ended : closed[i] = events[i]
      /\ \A i \in DOMAIN events : closed[i].key = events[i].key
      /\ Current(closed) \subseteq Current(events) \ ended
  <2>1. DOMAIN closed = DOMAIN events /\ closed = [i \in DOMAIN events |-> closed[i]]
    BY DEF Closed
  <2>2. \A i \in DOMAIN events : events[i] \in EventRow
    OBVIOUS
  <2>3. \A i \in DOMAIN events \ ended : closed[i] = events[i]
    BY DEF Closed
  <2>4. ASSUME NEW i \in ended
        PROVE  closed[i] \in EventRow /\ closed[i].key = events[i].key /\ closed[i].status = "superseded"
    <3>1. i \in DOMAIN events
      BY <1>4 DEF Current
    <3>2. closed[i] = [events[i] EXCEPT !.status = "superseded", !.until = clock]
      BY <3>1 DEF Closed
    <3>3. events[i] \in EventRow
      BY <2>2, <3>1
    <3> QED BY <3>2, <3>3 DEF EventRow, Status
  <2> HIDE DEF closed
  <2>5. \A i \in DOMAIN events : closed[i] \in EventRow /\ closed[i].key = events[i].key
    BY <2>2, <2>3, <2>4
  <2>6. closed \in Seq(EventRow) /\ Len(closed) = Len(events)
    BY <2>1, <2>5, RowByRow
  <2>7. Current(closed) \subseteq Current(events) \ ended
    BY <2>1, <2>3, <2>4 DEF Current
  <2> QED BY <2>1, <2>3, <2>5, <2>6, <2>7
<1>6. /\ carried \in Seq(EventRow) /\ Len(carried) \in {0, 1}
      /\ \A m \in DOMAIN carried : carried[m].status = "historical"
  <2>1. CASE ~carries
    BY <2>1
  <2>2. CASE carries
    <3> DEFINE x == Carried(events[active], Starts(e.from, clock))
    <3>1. events[active] \in EventRow
      BY <1>3, <2>2 DEF IsVersion
    <3>2. Starts(e.from, clock) \in 0 .. MaxTime
      BY <1>2, LedgerBounds, TimesTyped
    <3>3. x \in EventRow /\ x.status = "historical"
      BY <3>1, <3>2 DEF Carried, EventRow, Status
    <3>4. carried = <<x>>
      BY <2>2
    <3> HIDE DEF x, carried
    <3> QED BY <3>3, <3>4
  <2> QED BY <2>1, <2>2
<1>7. /\ made \in EventRow /\ made.key = e.key /\ made.until = 0
      /\ made.status = status
  <2>1. otherwise \in Time
    BY <1>3, LedgerBounds DEF EventRow
  <2> HIDE DEF otherwise
  <2>2. from \in Time /\ End(from, e.to) \in 0 .. MaxTime
    BY <1>2, <2>1, TimesTyped
  <2>3. version \in Nat
    BY <1>3 DEF EventRow
  <2> HIDE DEF from, version
  <2>4. status \in Status
    BY DEF Status
  <2> QED BY <1>2, <2>2, <2>3, <2>4 DEF EventRow
<1> HIDE DEF closed, carried, made, carries
<1>8. whole \in Seq(EventRow) /\ Joins(whole, closed, carried, made)
  <2>1. whole = closed \o carried \o <<made>>
    OBVIOUS
  <2> HIDE DEF whole
  <2> QED BY <1>5, <1>6, <1>7, <2>1, Joined
<1>9. Len(whole) = Len(events) + 2 => Len(whole) - 1 \in 0 .. Len(whole)
  OBVIOUS
<1> HIDE DEF whole
<1>10. Renews(events, whole, ended)
  <2>1. Len(whole) \in DOMAIN whole \ DOMAIN events
    BY <1>5, <1>8 DEF Joins
  <2>2. \A i \in DOMAIN events : /\ i \in DOMAIN whole /\ whole[i].key = events[i].key
                                 /\ i \notin ended => whole[i] = events[i]
    BY <1>5, <1>8 DEF Joins
  <2>3. Current(whole) \subseteq Current(closed) \cup {Len(whole)}
    BY <1>6, <1>8 DEF Joins, Current
  <2> QED BY <1>5, <2>1, <2>2, <2>3 DEF Renews
<1>11. whole[Len(whole)] = made
  BY <1>8 DEF Joins
<1>12. Aliased(e, active) \cup replaced = ended
  BY DEF ended
<1> QED BY <1>1, <1>7, <1>8, <1>9, <1>10, <1>11, <1>12
-----------------------------------------------------------------------------
(* The invariant: types, one current claim about what is single valued,    *)
(* one current event of a key, and claims that rest on current events.     *)

OneClaim == \A about \in About \ loose : Single(claims, about)

OneEvent ==
  \A i, j \in Current(events) : events[i].key = events[j].key => i = j \/ events[i].key \in twins

LedgerInv == LedgerTypeOK /\ OneClaim /\ OneEvent /\ EvidenceFollows

LEMMA ClaimsRest == LedgerTypeOK => claims \in Seq(Rests(Len(events)))
<1> SUFFICES ASSUME LedgerTypeOK PROVE claims \in Seq(Rests(Len(events)))
  OBVIOUS
<1>1. DOMAIN events = 1 .. Len(events) /\ Len(events) \in Nat
  BY DEF LedgerTypeOK
<1>2. \A i \in DOMAIN claims : claims[i] \in Rests(Len(events))
  <2>1. \A i \in DOMAIN claims : claims[i] \in ClaimRow
    BY DEF LedgerTypeOK
  <2> QED BY <1>1, <2>1 DEF Rests, LedgerTypeOK
<1>3. claims \in Seq(ClaimRow)
  BY DEF LedgerTypeOK
<1>4. DOMAIN claims = 1 .. Len(claims) /\ Len(claims) \in Nat /\ claims = [i \in DOMAIN claims |-> claims[i]]
  BY <1>3
<1>5. claims \in [1 .. Len(claims) -> Rests(Len(events))]
  BY <1>2, <1>4
<1> QED BY <1>4, <1>5

LEMMA RestMore ==
  ASSUME NEW m \in Nat, NEW n \in Nat, m <= n, NEW s \in Seq(Rests(m))
  PROVE  s \in Seq(Rests(n))
<1>1. Rests(m) \subseteq Rests(n)
  BY DEF Rests
<1>2. \A i \in DOMAIN s : s[i] \in Rests(n)
  BY <1>1
<1>3. DOMAIN s = 1 .. Len(s) /\ Len(s) \in Nat /\ s \in [1 .. Len(s) -> Rests(n)]
  BY <1>2
<1> QED BY <1>3

LEMMA RestsTyped ==
  ASSUME NEW n \in Nat, NEW s \in Seq(Rests(n))
  PROVE  s \in Seq(ClaimRow) /\ \A i \in DOMAIN s : s[i].event \in 0 .. n
<1>1. \A i \in DOMAIN s : s[i] \in ClaimRow /\ s[i].event \in 0 .. n
  <2>1. \A i \in DOMAIN s : s[i] \in Rests(n)
    OBVIOUS
  <2> QED BY <2>1 DEF Rests
<1>2. DOMAIN s = 1 .. Len(s) /\ Len(s) \in Nat /\ s \in [1 .. Len(s) -> ClaimRow]
  BY <1>1
<1> QED BY <1>1, <1>2

\* Claims that stood on an event that ends do not stand after it.
LEMMA ClaimsBeforeRight ==
  ASSUME LedgerTypeOK, NEW e \in Event, NEW active, NEW b, b = ClaimsBefore(e, active)
  PROVE  /\ b \in Seq(Rests(Len(events))) /\ Grows(claims, b, clock)
         /\ \A i \in Current(b) : /\ i \in Current(claims) /\ b[i] = claims[i]
                                  /\ b[i].event \notin Aliased(e, active)
<1> DEFINE n == Len(events)
           ids == RestingOn(claims, Aliased(e, active))
           aliased == Closed(claims, ids, "superseded")
           absent == {i \in RestingOn(aliased, {active}) : aliased[i].about \in e.attends}
           attended == Closed(aliased, absent, "superseded")
<1>1. n \in Nat /\ claims \in Seq(Rests(n)) /\ clock \in Clock /\ clock # 0
  BY ClaimsRest, LedgerBounds DEF LedgerTypeOK
<1>2. ids \in SUBSET Current(claims)
  BY DEF RestingOn
<1>3. /\ aliased \in Seq(Rests(n)) /\ DOMAIN aliased = DOMAIN claims /\ Grows(claims, aliased, clock)
      /\ Current(aliased) = Current(claims) \ ids
      /\ \A i \in DOMAIN claims \ ids : aliased[i] = claims[i]
  <2> HIDE DEF ids, n
  <2> QED BY <1>1, <1>2, ClosedRight
<1>4. ASSUME NEW i \in Current(aliased)
      PROVE  /\ i \in Current(claims) /\ aliased[i] = claims[i]
             /\ aliased[i].event \notin Aliased(e, active)
  <2>1. i \in Current(claims) /\ i \in DOMAIN claims /\ i \notin ids
    BY <1>3 DEF Current
  <2> QED BY <1>3, <2>1 DEF RestingOn
<1> HIDE DEF aliased, n
<1>5. absent \in SUBSET Current(aliased)
  BY DEF RestingOn
<1>6. /\ attended \in Seq(Rests(n)) /\ Grows(aliased, attended, clock)
      /\ Current(attended) = Current(aliased) \ absent
      /\ \A i \in DOMAIN aliased \ absent : attended[i] = aliased[i]
  <2> HIDE DEF absent
  <2> QED BY <1>1, <1>3, <1>5, ClosedRight
<1>7. \A i \in Current(attended) : i \in Current(aliased) /\ attended[i] = aliased[i]
  <2>1. \A i \in Current(aliased) : i \in DOMAIN aliased
    BY DEF Current
  <2> HIDE DEF absent, attended
  <2> QED BY <1>6, <2>1
<1>8. Grows(claims, attended, clock)
  <2> HIDE DEF attended
  <2> QED BY <1>1, <1>3, <1>6, GrowsOn
<1>9. b = IF active = 0 THEN aliased ELSE attended
  BY DEF ClaimsBefore, aliased
<1> HIDE DEF attended
<1> QED BY <1>3, <1>4, <1>6, <1>7, <1>8, <1>9 DEF n

GoesOn(a, b, active, id) ==
  \A i \in Current(b) : /\ i \in Current(a) /\ b[i].about = a[i].about
                        /\ b[i].event = id \/ (b[i] = a[i] /\ b[i].event # active)

LEMMA ClaimsMovedRight ==
  ASSUME NEW n \in Nat, NEW rows \in Seq(Rests(n)), NEW active, NEW id \in 1 .. n,
         NEW operation, clock \in Clock, NEW b, b = ClaimsMoved(rows, active, id, operation)
  PROVE  /\ b \in Seq(Rests(n)) /\ Grows(rows, b, clock)
         /\ GoesOn(rows, b, active, id)
<1> DEFINE ids == RestingOn(rows, {active})
           closed == Closed(rows, ids, "retracted")
           moved == [i \in DOMAIN rows |-> IF i \in ids THEN [rows[i] EXCEPT !.event = id] ELSE rows[i]]
<1>1. ids \in SUBSET Current(rows) /\ \A i \in Current(rows) \ ids : rows[i].event # active
  BY DEF RestingOn
<1>2. \A i \in Current(rows) : i \in DOMAIN rows
  BY DEF Current
<1> HIDE DEF ids
<1> USE DEF GoesOn
<1>3. CASE operation = "retract"
  <2>1. b = closed
    BY <1>3 DEF ClaimsMoved, ids
  <2>2. /\ closed \in Seq(Rests(n)) /\ Grows(rows, closed, clock)
        /\ Current(closed) = Current(rows) \ ids
        /\ \A i \in DOMAIN rows \ ids : closed[i] = rows[i]
    BY <1>1, ClosedRight
  <2> HIDE DEF closed
  <2> QED BY <1>1, <1>2, <2>1, <2>2
<1>4. CASE operation # "retract"
  <2>1. b = moved
    BY <1>4 DEF ClaimsMoved, ids
  <2>2. \A i \in DOMAIN rows : rows[i] \in Rests(n)
    OBVIOUS
  <2>3. ASSUME NEW i \in DOMAIN rows
        PROVE  /\ moved[i] \in Rests(n) /\ Follows(rows[i], moved[i], clock)
               /\ moved[i].about = rows[i].about /\ moved[i].status = rows[i].status
               /\ moved[i].until = rows[i].until
               /\ i \in ids => moved[i].event = id
               /\ i \notin ids => moved[i] = rows[i]
    <3>1. rows[i] \in Rests(n) /\ id \in 0 .. n
      BY <2>2
    <3>2. CASE i \notin ids
      BY <3>1, <3>2 DEF Follows
    <3>3. CASE i \in ids
      <4>1. moved[i] = [rows[i] EXCEPT !.event = id]
        BY <3>3
      <4>2. moved[i] \in Rests(n)
        BY <3>1, <4>1, RestsOnAnother
      <4> QED BY <3>1, <3>3, <4>1, <4>2 DEF Follows, Rests, ClaimRow
    <3> QED BY <3>2, <3>3
  <2>4. DOMAIN moved = DOMAIN rows /\ moved = [i \in DOMAIN rows |-> moved[i]]
    OBVIOUS
  <2> HIDE DEF moved
  <2>5. moved \in Seq(Rests(n))
    BY <2>3, <2>4, RowByRow
  <2>6. Grows(rows, moved, clock)
    BY <2>3, <2>4 DEF Grows
  <2>7. \A i \in Current(moved) : i \in Current(rows)
    BY <2>3, <2>4 DEF Current
  <2> QED BY <1>1, <1>2, <2>1, <2>3, <2>5, <2>6, <2>7
<1> QED BY <1>3, <1>4
LEMMA StoredRight ==
  ASSUME LedgerInv, NEW e \in Event, StoreEvent(e), clock' = clock,
         twins' \in SUBSET Key, twins \subseteq twins', Twins(e) \subseteq twins',
         calls' \in 0 .. MaxCalls
  PROVE  LedgerInv' /\ Grows(claims, claims', clock)
<1> DEFINE active == ActiveEvent(e.key)
           after  == EventsAfter(e, active)
           id     == Len(after)
           carry  == IF id = Len(events) + 2 THEN id - 1 ELSE 0
           told   == ClaimsAfter(e, active, id, carry)
           before == ClaimsBefore(e, active)
           ended  == Aliased(e, active)
                     \cup (IF IsVersion(e, active)
                           THEN {i \in Current(events) : events[i].key = e.key} ELSE {})
           moved  == IF IsVersion(e, active)
                     THEN ClaimsMoved(told.rows, active, id, e.operation) ELSE told.rows
<1>1. /\ events \in Seq(EventRow) /\ clock \in Clock /\ clock # 0 /\ LedgerTypeOK
      /\ Len(events) \in Nat /\ DOMAIN events = 1 .. Len(events)
  BY LedgerBounds DEF LedgerInv, LedgerTypeOK
<1>2. CASE Duplicate(e)
  <2>1. events' = events /\ claims' = claims /\ loose' = loose
    BY <1>2 DEF StoreEvent
  <2>2. LedgerTypeOK'
    BY <1>1, <2>1 DEF LedgerTypeOK
  <2>3. OneClaim'
    BY <2>1 DEF LedgerInv, OneClaim
  <2>4. OneEvent'
    BY <2>1 DEF LedgerInv, OneEvent
  <2>5. EvidenceFollows'
    BY <2>1 DEF LedgerInv, EvidenceFollows
  <2> QED BY <2>1, <2>2, <2>3, <2>4, <2>5, GrowsNot DEF LedgerInv
<1>3. CASE ~Duplicate(e)
  <2>1. events' = after /\ claims' = moved /\ loose' = told.loose
    BY <1>3 DEF StoreEvent
  <2>2. /\ after \in Seq(EventRow) /\ (id = Len(events) + 2 => id - 1 \in 0 .. id)
        /\ Renews(events, after, ended)
        /\ after[id].key = e.key /\ after[id].until = 0
        /\ after[id].status = IF e.operation = "retract" THEN "retracted" ELSE "active"
    <3> HIDE DEF active, after
    <3> QED BY <1>1, EventsAfterRight DEF active, after
  <2>3. /\ id \in Nat /\ Len(events) < id /\ id \in DOMAIN after /\ id \notin DOMAIN events
        /\ DOMAIN after = 1 .. id /\ id \in 1 .. id
    <3> HIDE DEF after
    <3>1. DOMAIN after = 1 .. Len(after) /\ Len(after) \in Nat
      BY <2>2
    <3>2. Len(after) \in 1 .. Len(after) /\ ~ (Len(after) \in 1 .. Len(events))
      BY <1>1, <2>2, <3>1 DEF Renews
    <3> QED BY <1>1, <3>1, <3>2
  <2> PICK n \in Nat : n = id
    BY <2>3
  <2>4. /\ before \in Seq(Rests(Len(events))) /\ Grows(claims, before, clock)
        /\ \A i \in Current(before) : /\ i \in Current(claims) /\ before[i] = claims[i]
                                      /\ before[i].event \notin Aliased(e, active)
    <3> HIDE DEF active, before
    <3> QED BY <1>1, ClaimsBeforeRight DEF before
  <2>5. ActiveEvent(e.key) = active
    OBVIOUS
  <2>6. \/ active = 0 /\ \A i \in Current(events) : events[i].key # e.key
        \/ active \in Current(events) /\ active # 0 /\ events[active].key = e.key
    BY <1>1, ActiveEventRight
  <2> HIDE DEF active, after, before
  <2>7. carry \in 0 .. id /\ id \in 0 .. id
    BY <2>2, <2>3
  <2>8. /\ told \in Ledgers(n)
        /\ LeadsTo([rows |-> before, loose |-> loose], told, id)
    <3>1. [rows |-> before, loose |-> loose] \in Ledgers(n)
      <4>1. before \in Seq(Rests(n))
        BY <1>1, <2>3, <2>4, RestMore
      <4> QED BY <1>1, <4>1 DEF Ledgers, LedgerTypeOK
    <3>2. ClaimsBrought(e) \in Seq(Claim)
      <4>1. e.claims \in Seq(Claim) /\ e.operation \in Operation
        BY DEF Event
      <4>2. \A m \in DOMAIN e.claims : e.claims[m] \in Claim
        BY <4>1
      <4>3. \A c \in Claim : Brought(e, c) \in Claim
        <5> TAKE c \in Claim
        <5>1. CASE e.operation = "enrich" /\ c.operation = "create"
          <6>1. Brought(e, c) = [c EXCEPT !.operation = "enrich"]
            BY <5>1 DEF Brought
          <6> QED BY <6>1 DEF Claim, Operation
        <5>2. CASE ~(e.operation = "enrich" /\ c.operation = "create")
          <6>1. Brought(e, c) = [c EXCEPT !.operation = c.operation]
            BY <5>2 DEF Brought
          <6> QED BY <6>1 DEF Claim
        <5> QED BY <5>1, <5>2
      <4>4. /\ DOMAIN ClaimsBrought(e) = DOMAIN e.claims
            /\ ClaimsBrought(e) = [m \in DOMAIN e.claims |-> ClaimsBrought(e)[m]]
            /\ \A m \in DOMAIN e.claims : ClaimsBrought(e)[m] \in Claim
        BY <4>2, <4>3 DEF ClaimsBrought
      <4> QED BY <4>1, <4>4, RowByRow
    <3>3. told = Applied([rows |-> before, loose |-> loose], ClaimsBrought(e), n, carry)
      BY DEF ClaimsAfter, before
    <3>4. carry \in 0 .. n /\ n \in 0 .. n
      BY <2>7
    <3> HIDE DEF told, carry
    <3> QED BY <1>1, <3>1, <3>2, <3>3, <3>4, AppliedRight
  <2>9. /\ told.rows \in Seq(Rests(n)) /\ told.loose \in SUBSET About
        /\ Grows(before, told.rows, clock) /\ Stand(before, told.rows, n)
        /\ (\A about \in About \ loose : Single(before, about))
             => \A about \in About \ told.loose : Single(told.rows, about)
    <3> HIDE DEF told
    <3> QED BY <2>8 DEF LeadsTo, Ledgers, OneEach
  <2> HIDE DEF told
  <2>10. /\ moved \in Seq(Rests(n)) /\ Grows(told.rows, moved, clock)
         /\ \A i \in Current(moved) :
              /\ i \in Current(told.rows) /\ moved[i].about = told.rows[i].about
              /\ \/ moved[i].event = n
                 \/ moved[i] = told.rows[i] /\ (IsVersion(e, active) => moved[i].event # active)
    <3>1. CASE IsVersion(e, active)
      <4>1. moved = ClaimsMoved(told.rows, active, n, e.operation) /\ n \in 1 .. n
        BY <3>1, <2>3
      <4> HIDE DEF moved
      <4>2. told.rows \in Seq(Rests(n)) /\ clock \in Clock
        BY <1>1, <2>9
      <4>3. /\ moved \in Seq(Rests(n)) /\ Grows(told.rows, moved, clock)
            /\ GoesOn(told.rows, moved, active, n)
        BY <4>1, <4>2, ClaimsMovedRight
      <4> QED BY <4>3 DEF GoesOn
    <3>2. CASE ~IsVersion(e, active)
      <4>1. moved = told.rows
        BY <3>2
      <4> QED BY <2>9, <3>2, <4>1, GrowsNot
    <3> QED BY <3>1, <3>2
  <2> HIDE DEF moved
  <2>11. Grows(claims, claims', clock)
    <3>1. Grows(claims, told.rows, clock)
      BY <1>1, <2>4, <2>9, GrowsOn
    <3> QED BY <1>1, <2>1, <2>10, <3>1, GrowsOn
  <2>12. LedgerTypeOK'
    <3>1. claims' \in Seq(ClaimRow) /\ \A i \in DOMAIN claims' : claims'[i].event \in 0 .. n
      BY <2>1, <2>10, RestsTyped
    <3>2. events' \in Seq(EventRow) /\ DOMAIN events' = 1 .. n
      BY <2>1, <2>2, <2>3
    <3>3. \A i \in DOMAIN claims' : claims'[i].event \in {0} \cup DOMAIN events'
      BY <3>1, <3>2
    <3>4. loose' \in SUBSET About
      BY <2>1, <2>9
    <3> QED BY <1>1, <3>1, <3>2, <3>3, <3>4 DEF LedgerTypeOK
  <2>13. OneClaim'
    <3>1. \A about \in About \ loose : Single(before, about)
      BY <2>4 DEF LedgerInv, OneClaim, Single, CurrentAbout
    <3>2. \A about \in About \ loose' : Single(told.rows, about)
      BY <2>1, <2>9, <3>1
    <3>3. \A about : CurrentAbout(moved, about) \subseteq CurrentAbout(told.rows, about)
      BY <2>10 DEF CurrentAbout
    <3> QED BY <2>1, <3>2, <3>3 DEF OneClaim, Single
  <2>14. Current(events') \subseteq (Current(events) \ ended) \cup {n}
    BY <2>1, <2>2 DEF Renews
  <2>15. \A i \in Current(events) : i \in DOMAIN events /\ events'[i].key = events[i].key
    BY <2>1, <2>2 DEF Renews, Current
  <2>16. events'[n].key = e.key /\ n \notin DOMAIN events
    BY <2>1, <2>2, <2>3
  <2>17. OneEvent'
    <3>1. ASSUME NEW i \in Current(events) \ ended, n \in Current(events'), events[i].key = e.key
          PROVE  e.key \in twins'
      <4>1. ~IsVersion(e, active)
        BY <3>1
      <4>2. active # 0
        BY <2>6, <3>1
      <4>3. e.operation = "create"
        BY <4>1, <4>2 DEF IsVersion
      <4>4. e.key \in Twins(e)
        BY <1>3, <4>2, <4>3 DEF Twins, active
      <4> QED BY <4>4
    <3>2. ASSUME NEW i \in Current(events'), NEW j \in Current(events'),
                 events'[i].key = events'[j].key, i # j
          PROVE  events'[i].key \in twins'
      <4>1. CASE i # n /\ j # n
        <5>1. i \in Current(events) /\ j \in Current(events) /\ events[i].key = events[j].key
          BY <2>14, <2>15, <3>2, <4>1
        <5>2. events[i].key \in twins
          BY <3>2, <5>1 DEF LedgerInv, OneEvent
        <5> QED BY <2>15, <5>1, <5>2
      <4>2. CASE i = n \/ j = n
        <5>1. PICK k \in {i, j} : k # n /\ n \in {i, j} /\ k \in Current(events) \ ended
          BY <2>14, <3>2, <4>2
        <5>2. n \in Current(events') /\ events[k].key = e.key /\ events'[i].key = e.key
          BY <2>15, <2>16, <3>2, <5>1
        <5> QED BY <3>1, <5>1, <5>2
      <4> QED BY <4>1, <4>2
    <3> QED BY <3>2 DEF OneEvent
  <2>18. EvidenceFollows'
    <3> SUFFICES ASSUME NEW i \in Current(claims'), claims'[i].event # 0
                 PROVE  \/ claims'[i].event \in Current(events')
                        \/ events'[claims'[i].event].status = "retracted"
                        \/ events'[claims'[i].event].key \in twins'
      BY DEF EvidenceFollows
    <3>1. CASE claims'[i].event = n
      <4>1. n \in DOMAIN events' /\ events'[n].until = 0
            /\ events'[n].status = IF e.operation = "retract" THEN "retracted" ELSE "active"
        BY <2>1, <2>2, <2>3
      <4> QED BY <3>1, <4>1 DEF Current
    <3>2. CASE claims'[i].event # n
      <4> DEFINE ev == claims[i].event
      <4>1. /\ i \in Current(told.rows) /\ claims'[i] = told.rows[i]
            /\ (IsVersion(e, active) => claims'[i].event # active)
        BY <2>1, <2>10, <3>2
      <4>2. i \in Current(before) /\ told.rows[i] = before[i]
        BY <2>9, <3>2, <4>1 DEF Stand
      <4>3. /\ i \in Current(claims) /\ claims'[i].event = ev /\ ev # 0
            /\ ev \notin Aliased(e, active)
        BY <2>4, <4>1, <4>2
      <4>4. ev \in DOMAIN events
        BY <1>1, <4>3 DEF LedgerTypeOK, Current
      <4>5. events'[ev].key = events[ev].key /\ (ev \notin ended => events'[ev] = events[ev])
            /\ ev \in DOMAIN events'
        BY <2>1, <2>2, <4>4 DEF Renews
      <4>6. \/ ev \in Current(events)
            \/ events[ev].status = "retracted" /\ ev \notin Current(events)
            \/ events[ev].key \in twins
        BY <4>3 DEF LedgerInv, EvidenceFollows, Current
      <4>7. ended \subseteq Current(events)
        BY DEF Aliased
      <4>8. CASE ev \in Current(events) /\ ev \notin ended
        BY <4>3, <4>5, <4>8 DEF Current
      <4>9. CASE ev \in ended
        <5>1. IsVersion(e, active) /\ events[ev].key = e.key /\ ev \in Current(events)
          BY <4>3, <4>9
        <5>2. ev # active /\ active \in Current(events) /\ events[active].key = e.key
          BY <2>6, <4>1, <4>3, <5>1
        <5>3. events[ev].key \in twins
          BY <5>1, <5>2 DEF LedgerInv, OneEvent
        <5> QED BY <4>3, <4>5, <5>3
      <4>10. CASE events[ev].status = "retracted" /\ ev \notin Current(events)
        BY <4>3, <4>5, <4>7, <4>10
      <4>11. CASE events[ev].key \in twins
        BY <4>3, <4>5, <4>11
      <4> QED BY <4>6, <4>8, <4>9, <4>10, <4>11
    <3> QED BY <3>1, <3>2
  <2> QED BY <2>11, <2>12, <2>13, <2>17, <2>18 DEF LedgerInv
<1> QED BY <1>2, <1>3
-----------------------------------------------------------------------------
(* The steps.  A step leaves the claims as they grow, or rewrites one of   *)
(* them in the ways that are told.                                         *)

Rewrites ==
  \E i \in DOMAIN claims :
    \/ claims[i].status # "erased" /\ claims'[i].status = "erased"
    \/ claims[i].until # 0 /\ claims'[i].until # claims[i].until

Keeps == Grows(claims, claims', clock) \/ Rewrites

\* Claims that only end, and stay with their events.
LEMMA EndedClaimsRight ==
  ASSUME LedgerInv, loose' = loose, claims' \in Seq(ClaimRow), DOMAIN claims' = DOMAIN claims,
         \A i \in DOMAIN claims :
           /\ claims'[i].event = claims[i].event /\ claims'[i].about = claims[i].about
           /\ claims'[i].status = "active" /\ claims'[i].until = 0
                => claims[i].status = "active" /\ claims[i].until = 0
  PROVE  /\ OneClaim'
         /\ \A i \in Current(claims') : i \in Current(claims) /\ claims'[i].event = claims[i].event
<1>1. \A i \in Current(claims') : /\ i \in Current(claims) /\ claims'[i].event = claims[i].event
                                  /\ claims'[i].about = claims[i].about
  BY DEF Current
<1>2. \A about : CurrentAbout(claims', about) \subseteq CurrentAbout(claims, about)
  BY <1>1 DEF CurrentAbout
<1> QED BY <1>1, <1>2 DEF LedgerInv, OneClaim, Single

LEMMA StoreSemanticClaimRight ==
  ASSUME LedgerInv, NEW c \in ClaimsTold, StoreSemanticClaim(c)
  PROVE  LedgerInv' /\ Grows(claims, claims', clock)
<1>1. /\ c \in Claim /\ clock \in Clock /\ Len(events) \in Nat /\ claims \in Seq(Rests(Len(events)))
      /\ DOMAIN events = 1 .. Len(events) /\ loose \in SUBSET About /\ c.about \in About
      /\ events' = events /\ clock' = clock /\ twins' = twins /\ calls' \in 0 .. MaxCalls
  BY ClaimsRest, LedgerAssumption, LedgerBounds
     DEF LedgerAssumption, LedgerInv, LedgerTypeOK, Claim, StoreSemanticClaim, Calls
<1>2. claims' = ApplyClaim(claims, c, 0, 0)
  BY DEF StoreSemanticClaim
<1>3. /\ claims' \in Seq(Rests(Len(events))) /\ Grows(claims, claims', clock)
      /\ Stand(claims, claims', 0)
      /\ StaySingle(claims, claims', c)
  <2>1. 0 \in 0 .. Len(events)
    BY <1>1
  <2> QED BY <1>1, <1>2, <2>1, ApplyClaimRight
<1>4. loose' = IF Loosens(claims, c) THEN loose \cup {c.about} ELSE loose
  BY DEF StoreSemanticClaim
<1>5. OneClaim'
  <2> SUFFICES ASSUME NEW about \in About \ loose' PROVE Single(claims', about)
    BY DEF OneClaim
  <2>1. about \notin loose /\ ~(about = c.about /\ Loosens(claims, c))
    BY <1>4
  <2> QED BY <1>3, <2>1 DEF LedgerInv, OneClaim, StaySingle
<1>6. OneEvent'
  BY <1>1 DEF LedgerInv, OneEvent
<1>7. EvidenceFollows'
  BY <1>1, <1>3 DEF LedgerInv, EvidenceFollows, Stand
<1>8. LedgerTypeOK'
  <2>1. claims' \in Seq(ClaimRow) /\ \A i \in DOMAIN claims' : claims'[i].event \in 0 .. Len(events)
    BY <1>1, <1>3, RestsTyped
  <2>2. \A i \in DOMAIN claims' : claims'[i].event \in {0} \cup DOMAIN events'
    BY <1>1, <2>1
  <2> QED BY <1>1, <1>4, <2>1, <2>2 DEF LedgerInv, LedgerTypeOK
<1> QED BY <1>3, <1>5, <1>6, <1>7, <1>8 DEF LedgerInv

LEMMA TwinsTyped ==
  ASSUME LedgerInv, NEW e \in Event
  PROVE  /\ Twins(e) \in SUBSET Key /\ twins \subseteq Twins(e)
         /\ e.operation # "create" => Twins(e) = twins
BY DEF LedgerInv, LedgerTypeOK, Twins, Event

LEMMA MutateEventRight ==
  ASSUME LedgerInv, NEW e \in EventsTold, MutateEvent(e)
  PROVE  LedgerInv' /\ Grows(claims, claims', clock)
<1>1. e \in Event
  BY LedgerAssumption DEF LedgerAssumption
<1>2. StoreEvent(e) /\ clock' = clock /\ twins' = Twins(e) /\ calls' \in 0 .. MaxCalls
  BY LedgerBounds DEF MutateEvent, Calls, LedgerInv, LedgerTypeOK
<1> QED BY <1>1, <1>2, TwinsTyped, StoredRight

LEMMA ReconciledByKeyRight ==
  ASSUME NEW e \in EventsTold, e.source # 0, NEW adds \in BOOLEAN
  PROVE  ReconciledByKey(e, adds) \in Event
<1>1. e \in Event
  BY LedgerAssumption DEF LedgerAssumption
<1>2. CollisionSafeKey(e) \in Key
  BY LedgerAssumption DEF LedgerAssumption, CollisionSafeKey
<1>3. /\ [e EXCEPT !.operation = "create"] \in Event
      /\ [e EXCEPT !.operation = "enrich"] \in Event
      /\ [e EXCEPT !.operation = "create", !.key = CollisionSafeKey(e)] \in Event
  BY <1>1, <1>2 DEF Event, Operation
<1> QED BY <1>3 DEF ReconciledByKey

\* An event of a key that was told has no other beside it.
LEMMA ReconciledByKeyTwins ==
  ASSUME NEW e \in EventsTold, NEW adds \in BOOLEAN
  PROVE  TwinsOfFresh(e, ReconciledByKey(e, adds)) = Twins(ReconciledByKey(e, adds))
<1>1. e \in Event
  BY LedgerAssumption DEF LedgerAssumption
<1>2. CASE ActiveEvent(e.key) = 0
  <2>1. PICK event : event = [e EXCEPT !.operation = "create"]
    OBVIOUS
  <2>2. event.key = e.key
    BY <1>1, <2>1 DEF Event
  <2>3. Twins(event) = twins
    BY <1>2, <2>2 DEF Twins
  <2> QED BY <1>2, <2>1, <2>3 DEF ReconciledByKey, TwinsOfFresh
<1>3. CASE ActiveEvent(e.key) # 0 /\ adds
  <2>1. PICK event : event = [e EXCEPT !.operation = "enrich"]
    OBVIOUS
  <2>2. event.operation # "create"
    BY <1>1, <2>1 DEF Event
  <2>3. Twins(event) = twins
    BY <2>2 DEF Twins
  <2> QED BY <1>3, <2>1, <2>3 DEF ReconciledByKey, TwinsOfFresh
<1>4. CASE ActiveEvent(e.key) # 0 /\ ~adds
  <2>1. PICK event : event = [e EXCEPT !.operation = "create", !.key = CollisionSafeKey(e)]
    OBVIOUS
  <2>2. event.key = CollisionSafeKey(e)
    BY <1>1, <2>1 DEF Event
  <2> QED BY <1>4, <2>1, <2>2 DEF ReconciledByKey, TwinsOfFresh
<1> QED BY <1>2, <1>3, <1>4

LEMMA ReconciledToRelatedRight ==
  ASSUME LedgerInv, NEW e \in EventsTold, NEW adds \in BOOLEAN, NEW related \in RelatedEvents(e),
         NEW others \in {{}, RelatedEvents(e) \ {related}}
  PROVE  /\ ReconciledToRelated(e, related, others, adds) \in Event
         /\ ReconciledToRelated(e, related, others, adds).operation # "create"
<1> DEFINE operation == OperationOfRelated(e, adds)
           told == [m \in DOMAIN e.claims |-> Reconciled(e, e.claims[m], adds)]
           key == events[related].key
<1>1. e \in Event /\ e.claims \in Seq(Claim)
  BY LedgerAssumption DEF LedgerAssumption, Event
<1>2. operation \in Operation /\ operation # "create"
  BY DEF OperationOfRelated, Operation
<1>3. related \in DOMAIN events /\ others \in SUBSET Nat /\ key \in Key
  <2>1. \A i \in DOMAIN events : events[i] \in EventRow
    BY DEF LedgerInv, LedgerTypeOK
  <2>2. RelatedEvents(e) \in SUBSET DOMAIN events /\ DOMAIN events \in SUBSET Nat
    BY DEF RelatedEvents, Current, LedgerInv, LedgerTypeOK
  <2> QED BY <2>1, <2>2 DEF EventRow
<1>4. told \in Seq(Claim)
  <2>1. \A m \in DOMAIN e.claims : e.claims[m] \in Claim
    BY <1>1
  <2>2. \A c \in Claim : Reconciled(e, c, adds) \in Claim
    BY DEF Reconciled, Claim, Operation
  <2>3. /\ DOMAIN told = DOMAIN e.claims /\ told = [m \in DOMAIN e.claims |-> told[m]]
        /\ \A m \in DOMAIN e.claims : told[m] \in Claim
    BY <2>1, <2>2
  <2> HIDE DEF told
  <2> QED BY <1>1, <2>3, RowByRow
<1>5. ReconciledToRelated(e, related, others, adds)
        = [e EXCEPT !.key = key, !.aliases = others, !.operation = operation, !.claims = told]
  BY DEF ReconciledToRelated
<1> HIDE DEF operation, told, key
<1> QED BY <1>1, <1>2, <1>3, <1>4, <1>5 DEF Event

LEMMA ExtractEventRight ==
  ASSUME LedgerInv, NEW e \in EventsTold, NEW adds \in BOOLEAN, ExtractEvent(e, adds)
  PROVE  LedgerInv' /\ Grows(claims, claims', clock)
<1>1. clock' = clock /\ calls' \in 0 .. MaxCalls /\ e.source # 0
  BY LedgerBounds DEF ExtractEvent, Calls, LedgerInv, LedgerTypeOK
<1>2. CASE /\ StoreEvent(ReconciledByKey(e, adds))
            /\ twins' = TwinsOfFresh(e, ReconciledByKey(e, adds))
  <2>1. PICK event : event = ReconciledByKey(e, adds)
    OBVIOUS
  <2>2. event \in Event
    BY <1>1, <2>1, ReconciledByKeyRight
  <2>3. TwinsOfFresh(e, event) = Twins(event)
    BY <2>1, ReconciledByKeyTwins
  <2>4. StoreEvent(event) /\ twins' = Twins(event)
    BY <1>2, <2>1, <2>3
  <2> QED BY <1>1, <2>2, <2>4, TwinsTyped, StoredRight
<1>3. ASSUME NEW related \in RelatedEvents(e), NEW others \in {{}, RelatedEvents(e) \ {related}},
             StoreEvent(ReconciledToRelated(e, related, others, adds)), twins' = twins
      PROVE  LedgerInv' /\ Grows(claims, claims', clock)
  <2>1. PICK event : event = ReconciledToRelated(e, related, others, adds)
    OBVIOUS
  <2>2. event \in Event /\ event.operation # "create"
    BY <2>1, ReconciledToRelatedRight
  <2>3. Twins(event) = twins /\ twins \in SUBSET Key
    BY <2>2, TwinsTyped DEF LedgerInv, LedgerTypeOK
  <2>4. StoreEvent(event)
    BY <1>3, <2>1
  <2>5. Twins(event) \subseteq twins' /\ twins' \in SUBSET Key /\ twins \subseteq twins'
    BY <1>3, <2>3
  <2> QED BY <1>1, <2>2, <2>4, <2>5, StoredRight
<1> QED BY <1>2, <1>3 DEF ExtractEvent

LEMMA RetractEventRight ==
  ASSUME LedgerInv, NEW id \in DOMAIN events, RetractEvent(id)
  PROVE  LedgerInv' /\ Grows(claims, claims', clock)
<1> DEFINE e == [key |-> events[id].key, title |-> events[id].title, operation |-> "retract",
                 source |-> 0, from |-> 0, to |-> 0, claims |-> <<>>, aliases |-> {},
                 meeting |-> FALSE, attends |-> {}]
<1>1. StoreEvent(e) /\ clock' = clock /\ twins' = twins /\ calls' \in 0 .. MaxCalls
  BY LedgerBounds DEF RetractEvent, Calls, LedgerInv, LedgerTypeOK
<1>2. e \in Event
  <2>1. events[id] \in EventRow
    BY DEF LedgerInv, LedgerTypeOK
  <2>2. events[id].key \in Key /\ events[id].title \in Title
    BY <2>1 DEF EventRow
  <2>3. <<>> \in Seq(Claim) /\ 0 \in 0 .. MaxTime /\ "retract" \in Operation
    BY LedgerBounds DEF Operation
  <2> QED BY <2>2, <2>3 DEF Event
<1>3. e.operation # "create"
  OBVIOUS
<1> HIDE DEF e
<1>4. Twins(e) = twins /\ twins \in SUBSET Key
  BY <1>2, <1>3, TwinsTyped DEF LedgerInv, LedgerTypeOK
<1>5. Twins(e) \subseteq twins' /\ twins' \in SUBSET Key /\ twins \subseteq twins'
  BY <1>1, <1>4
<1> QED BY <1>1, <1>2, <1>5, StoredRight

\* An erased claim.
LEMMA ErasedClaimRight ==
  ASSUME NEW row \in ClaimRow, NEW b, b = [row EXCEPT !.status = "erased"]
  PROVE  /\ b \in ClaimRow /\ b.status = "erased" /\ b.event = row.event /\ b.about = row.about
         /\ row.status = "erased" => b = row
BY DEF ClaimRow, Status

LEMMA EraseEventRight ==
  ASSUME LedgerInv, NEW id \in DOMAIN events, EraseEvent(id)
  PROVE  LedgerInv' /\ Keeps
<1>1. /\ events \in Seq(EventRow) /\ claims \in Seq(ClaimRow) /\ calls' \in 0 .. MaxCalls
      /\ clock' = clock /\ twins' = twins /\ loose' = loose
      /\ events' = [events EXCEPT ![id].status = "erased"]
      /\ claims' = [i \in DOMAIN claims |-> IF claims[i].event = id
                                            THEN [claims[i] EXCEPT !.status = "erased"] ELSE claims[i]]
  BY LedgerBounds DEF EraseEvent, Calls, LedgerInv, LedgerTypeOK
<1>2. ASSUME NEW i \in DOMAIN claims
      PROVE  /\ claims'[i] \in ClaimRow
             /\ claims'[i].event = claims[i].event /\ claims'[i].about = claims[i].about
             /\ claims[i].event # id => claims'[i] = claims[i]
             /\ claims[i].event = id => claims'[i].status = "erased"
             /\ claims[i].status = "erased" => claims'[i] = claims[i]
  <2>1. claims[i] \in ClaimRow
    BY <1>1
  <2>2. CASE claims[i].event = id
    <3>1. claims'[i] = [claims[i] EXCEPT !.status = "erased"]
      BY <1>1, <2>2
    <3> QED BY <2>1, <2>2, <3>1, ErasedClaimRight
  <2>3. CASE claims[i].event # id
    BY <1>1, <2>1, <2>3
  <2> QED BY <2>2, <2>3
<1>3. DOMAIN claims' = DOMAIN claims /\ claims' = [i \in DOMAIN claims |-> claims'[i]]
  BY <1>1
<1>4. claims' \in Seq(ClaimRow)
  BY <1>1, <1>2, <1>3, RowByRow
<1>5. /\ OneClaim'
      /\ \A i \in Current(claims') : i \in Current(claims) /\ claims'[i].event = claims[i].event
  <2>1. \A i \in DOMAIN claims :
           /\ claims'[i].event = claims[i].event /\ claims'[i].about = claims[i].about
           /\ claims'[i].status = "active" /\ claims'[i].until = 0
                => claims[i].status = "active" /\ claims[i].until = 0
    BY <1>2
  <2> QED BY <1>1, <1>3, <1>4, <2>1, EndedClaimsRight
<1>6. /\ events' \in Seq(EventRow) /\ DOMAIN events' = DOMAIN events
      /\ \A i \in DOMAIN events : i # id => events'[i] = events[i]
      /\ events'[id].status = "erased" /\ events'[id].key = events[id].key
  <2>1. \A i \in DOMAIN events : events[i] \in EventRow
    BY <1>1
  <2>2. /\ DOMAIN events' = DOMAIN events /\ events' = [i \in DOMAIN events |-> events'[i]]
        /\ \A i \in DOMAIN events : i # id => events'[i] = events[i]
        /\ events'[id] = [events[id] EXCEPT !.status = "erased"]
    BY <1>1
  <2>3. events'[id] \in EventRow /\ events'[id].status = "erased" /\ events'[id].key = events[id].key
    BY <2>1, <2>2 DEF EventRow, Status
  <2>4. \A i \in DOMAIN events : events'[i] \in EventRow
    BY <2>1, <2>2, <2>3
  <2> QED BY <1>1, <2>2, <2>3, <2>4, RowByRow
<1>7. LedgerTypeOK'
  BY <1>1, <1>2, <1>3, <1>4, <1>6 DEF LedgerInv, LedgerTypeOK
<1>8. \A i \in Current(events') : i \in Current(events) /\ i # id /\ events'[i] = events[i]
  BY <1>6 DEF Current
<1>9. OneEvent'
  BY <1>1, <1>8 DEF LedgerInv, OneEvent
<1>10. EvidenceFollows'
  <2> SUFFICES ASSUME NEW i \in Current(claims'), claims'[i].event # 0
               PROVE  \/ claims'[i].event \in Current(events')
                      \/ events'[claims'[i].event].status = "retracted"
                      \/ events'[claims'[i].event].key \in twins'
    BY DEF EvidenceFollows
  <2>1. /\ i \in Current(claims) /\ i \in DOMAIN claims /\ claims'[i].event = claims[i].event
        /\ claims'[i].status = "active" /\ claims[i].event # 0
    BY <1>3, <1>5 DEF Current
  <2>2. claims[i].event # id /\ claims[i].event \in DOMAIN events
    BY <1>2, <2>1 DEF LedgerInv, LedgerTypeOK
  <2>3. events'[claims[i].event] = events[claims[i].event]
    BY <1>6, <2>2
  <2> QED BY <1>1, <1>6, <2>1, <2>2, <2>3 DEF LedgerInv, EvidenceFollows, Current
<1>11. Keeps
  <2>1. CASE \E i \in DOMAIN claims : claims[i].event = id /\ claims[i].status # "erased"
    BY <1>2, <2>1 DEF Keeps, Rewrites
  <2>2. CASE ~ \E i \in DOMAIN claims : claims[i].event = id /\ claims[i].status # "erased"
    <3>1. \A i \in DOMAIN claims : claims'[i] = claims[i]
      BY <1>2, <2>2
    <3> QED BY <1>3, <3>1 DEF Keeps, Grows, Follows
  <2> QED BY <2>1, <2>2
<1> QED BY <1>5, <1>7, <1>9, <1>10, <1>11 DEF LedgerInv

\* One claim ends, and stays with its event.
LEMMA OneClaimEnds ==
  ASSUME LedgerInv, NEW id \in DOMAIN claims,
         DOMAIN claims' = DOMAIN claims, claims' = [i \in DOMAIN claims |-> claims'[i]],
         \A i \in DOMAIN claims : i # id => claims'[i] = claims[i],
         claims'[id] \in ClaimRow, claims'[id].status # "active",
         claims'[id].event = claims[id].event, claims'[id].about = claims[id].about,
         UNCHANGED <<events, clock, twins, loose>>, calls' \in 0 .. MaxCalls
  PROVE  LedgerInv'
<1>1. \A i \in DOMAIN claims : claims[i] \in ClaimRow
  BY DEF LedgerInv, LedgerTypeOK
<1>2. ASSUME NEW i \in DOMAIN claims
      PROVE  /\ claims'[i] \in ClaimRow
             /\ claims'[i].event = claims[i].event /\ claims'[i].about = claims[i].about
             /\ claims'[i].status = "active" /\ claims'[i].until = 0
                  => claims[i].status = "active" /\ claims[i].until = 0
  BY <1>1
<1>3. claims' \in Seq(ClaimRow)
  <2>1. claims \in Seq(ClaimRow)
    BY DEF LedgerInv, LedgerTypeOK
  <2> QED BY <1>2, <2>1, RowByRow
<1>4. /\ OneClaim'
      /\ \A i \in Current(claims') : i \in Current(claims) /\ claims'[i].event = claims[i].event
  BY <1>2, <1>3, EndedClaimsRight
<1>5. LedgerTypeOK'
  BY <1>2, <1>3 DEF LedgerInv, LedgerTypeOK
<1>6. OneEvent' /\ EvidenceFollows'
  BY <1>4 DEF LedgerInv, OneEvent, EvidenceFollows
<1> QED BY <1>4, <1>5, <1>6 DEF LedgerInv

LEMMA RetractClaimRight ==
  ASSUME LedgerInv, NEW id \in DOMAIN claims, RetractClaim(id)
  PROVE  LedgerInv' /\ Keeps
<1>1. /\ calls' \in 0 .. MaxCalls /\ claims' = Closed(claims, {id}, "retracted")
      /\ UNCHANGED <<events, clock, twins, loose>> /\ clock \in Clock /\ clock # 0
      /\ claims[id].status # "erased" /\ claims[id] \in ClaimRow
  BY LedgerBounds DEF RetractClaim, Calls, LedgerInv, LedgerTypeOK
<1>2. /\ DOMAIN claims' = DOMAIN claims /\ claims' = [i \in DOMAIN claims |-> claims'[i]]
      /\ \A i \in DOMAIN claims : i # id => claims'[i] = claims[i]
      /\ claims'[id] = [claims[id] EXCEPT !.status = "retracted", !.until = clock]
  BY <1>1 DEF Closed
<1>3. /\ claims'[id] \in ClaimRow /\ claims'[id].status = "retracted" /\ claims'[id].until = clock
      /\ claims'[id].event = claims[id].event /\ claims'[id].about = claims[id].about
      /\ claims[id].until = 0 => Follows(claims[id], claims'[id], clock)
  BY <1>1, <1>2 DEF ClaimRow, Status, Follows
<1>4. LedgerInv'
  BY <1>1, <1>2, <1>3, OneClaimEnds
<1>5. CASE claims[id].until = 0
  <2>1. \A i \in DOMAIN claims : Follows(claims[i], claims'[i], clock)
    BY <1>2, <1>3, <1>5 DEF Follows
  <2> QED BY <1>2, <1>4, <2>1 DEF Keeps, Grows
<1>6. CASE claims[id].until # 0 /\ claims[id].until # clock
  BY <1>3, <1>4, <1>6 DEF Keeps, Rewrites
<1>7. CASE claims[id].until = clock
  <2>1. Follows(claims[id], claims'[id], clock)
    BY <1>1, <1>2, <1>7 DEF ClaimRow, Follows
  <2>2. \A i \in DOMAIN claims : Follows(claims[i], claims'[i], clock)
    BY <1>2, <2>1 DEF Follows
  <2> QED BY <1>2, <1>4, <2>2 DEF Keeps, Grows
<1> QED BY <1>5, <1>6, <1>7

LEMMA EraseClaimRight ==
  ASSUME LedgerInv, NEW id \in DOMAIN claims, EraseClaim(id)
  PROVE  LedgerInv' /\ Keeps
<1>1. /\ calls' \in 0 .. MaxCalls /\ claims' = [claims EXCEPT ![id].status = "erased"]
      /\ UNCHANGED <<events, clock, twins, loose>>
      /\ claims[id].status # "erased" /\ claims[id] \in ClaimRow /\ claims \in Seq(ClaimRow)
  BY LedgerBounds DEF EraseClaim, Calls, LedgerInv, LedgerTypeOK
<1>2. /\ DOMAIN claims' = DOMAIN claims /\ claims' = [i \in DOMAIN claims |-> claims'[i]]
      /\ \A i \in DOMAIN claims : i # id => claims'[i] = claims[i]
      /\ claims'[id] = [claims[id] EXCEPT !.status = "erased"]
  BY <1>1
<1>3. /\ claims'[id] \in ClaimRow /\ claims'[id].status = "erased"
      /\ claims'[id].event = claims[id].event /\ claims'[id].about = claims[id].about
  BY <1>1, <1>2, ErasedClaimRight
<1>4. LedgerInv'
  BY <1>1, <1>2, <1>3, OneClaimEnds
<1> QED BY <1>1, <1>3, <1>4 DEF Keeps, Rewrites

LEMMA RestartRight ==
  ASSUME LedgerInv, Restart
  PROVE  LedgerInv' /\ Grows(claims, claims', clock)
<1>1. /\ calls' \in 0 .. MaxCalls /\ claims' = [i \in DOMAIN claims |-> Repaired(i)]
      /\ UNCHANGED <<events, clock, twins, loose>>
      /\ claims \in Seq(ClaimRow) /\ events \in Seq(EventRow) /\ LedgerTypeOK
  BY LedgerBounds DEF Restart, Calls, LedgerInv, LedgerTypeOK
<1>2. ASSUME NEW i \in DOMAIN claims
      PROVE  /\ claims'[i] \in ClaimRow /\ Follows(claims[i], claims'[i], clock)
             /\ claims'[i].status = claims[i].status /\ claims'[i].until = claims[i].until
             /\ claims'[i].about = claims[i].about
             /\ claims'[i].event = claims[i].event \/ claims'[i].event \in Current(events)
  <2>1. claims[i] \in ClaimRow /\ claims'[i] = Repaired(i)
    BY <1>1
  <2>2. CASE Repaired(i) = claims[i]
    BY <2>1, <2>2 DEF Follows
  <2>3. ASSUME NEW key, ActiveEvent(key) # 0, claims'[i] = [claims[i] EXCEPT !.event = ActiveEvent(key)]
        PROVE  /\ claims'[i] \in ClaimRow /\ Follows(claims[i], claims'[i], clock)
               /\ claims'[i].status = claims[i].status /\ claims'[i].until = claims[i].until
               /\ claims'[i].about = claims[i].about
               /\ claims'[i].event \in Current(events)
    <3>1. ActiveEvent(key) \in Current(events) /\ ActiveEvent(key) \in Nat
      BY <1>1, <2>3, ActiveEventRight DEF Current
    <3> QED BY <2>1, <2>3, <3>1 DEF ClaimRow, Follows
  <2> QED BY <2>1, <2>2, <2>3 DEF Repaired
<1>3. DOMAIN claims' = DOMAIN claims /\ claims' = [i \in DOMAIN claims |-> claims'[i]]
  BY <1>1
<1>4. claims' \in Seq(ClaimRow)
  BY <1>1, <1>2, <1>3, RowByRow
<1>5. Grows(claims, claims', clock)
  BY <1>2, <1>3 DEF Grows
<1>6. Current(claims') = Current(claims)
  BY <1>2, <1>3 DEF Current
<1>7. OneClaim'
  <2>1. \A about : CurrentAbout(claims', about) \subseteq CurrentAbout(claims, about)
    BY <1>2, <1>6 DEF CurrentAbout, Current
  <2> QED BY <1>1, <2>1 DEF LedgerInv, OneClaim, Single
<1>8. OneEvent'
  BY <1>1 DEF LedgerInv, OneEvent
<1>9. EvidenceFollows'
  <2>1. \A i \in Current(claims') : /\ i \in Current(claims) /\ i \in DOMAIN claims
    BY <1>6 DEF Current
  <2> QED BY <1>1, <1>2, <2>1 DEF LedgerInv, EvidenceFollows
<1>10. LedgerTypeOK'
  <2>1. \A i \in Current(events) : i \in DOMAIN events
    BY DEF Current
  <2>2. \A i \in DOMAIN claims' : claims'[i].event \in {0} \cup DOMAIN events'
    BY <1>1, <1>2, <1>3, <2>1 DEF LedgerTypeOK
  <2> QED BY <1>1, <1>4, <2>2 DEF LedgerTypeOK
<1> QED BY <1>5, <1>7, <1>8, <1>9, <1>10 DEF LedgerInv
LEMMA TickRight ==
  ASSUME LedgerInv, Tick
  PROVE  LedgerInv' /\ Grows(claims, claims', clock)
<1>1. clock' \in Clock
  <2>1. clock < MaxClock /\ clock' = clock + 1 /\ clock \in Clock /\ MaxClock \in Nat
    BY LedgerBounds DEF Tick, LedgerInv, LedgerTypeOK
  <2> QED BY <2>1 DEF Clock
<1>2. UNCHANGED <<events, claims, twins, loose, calls>>
  BY DEF Tick
<1>3. LedgerTypeOK'
  BY <1>1, <1>2 DEF LedgerInv, LedgerTypeOK
<1>4. OneClaim' /\ OneEvent' /\ EvidenceFollows'
  BY <1>2 DEF LedgerInv, OneClaim, OneEvent, EvidenceFollows
<1> QED BY <1>2, <1>3, <1>4, GrowsNot DEF LedgerInv

LEMMA LedgerStep == LedgerInv /\ [LedgerNext]_ledgerVars => LedgerInv' /\ Keeps
<1> SUFFICES ASSUME LedgerInv, [LedgerNext]_ledgerVars PROVE LedgerInv' /\ Keeps
  OBVIOUS
<1>1. ASSUME NEW c \in ClaimsTold, StoreSemanticClaim(c) PROVE LedgerInv' /\ Keeps
  BY <1>1, StoreSemanticClaimRight DEF Keeps
<1>2. ASSUME NEW e \in EventsTold, MutateEvent(e) PROVE LedgerInv' /\ Keeps
  BY <1>2, MutateEventRight DEF Keeps
<1>3. ASSUME NEW e \in EventsTold, NEW adds \in BOOLEAN, ExtractEvent(e, adds)
      PROVE  LedgerInv' /\ Keeps
  BY <1>3, ExtractEventRight DEF Keeps
<1>4. ASSUME NEW id \in DOMAIN events, RetractEvent(id) PROVE LedgerInv' /\ Keeps
  BY <1>4, RetractEventRight DEF Keeps
<1>5. ASSUME NEW id \in DOMAIN events, EraseEvent(id) PROVE LedgerInv' /\ Keeps
  BY <1>5, EraseEventRight
<1>6. ASSUME NEW id \in DOMAIN claims, RetractClaim(id) PROVE LedgerInv' /\ Keeps
  BY <1>6, RetractClaimRight
<1>7. ASSUME NEW id \in DOMAIN claims, EraseClaim(id) PROVE LedgerInv' /\ Keeps
  BY <1>7, EraseClaimRight
<1>8. ASSUME Restart PROVE LedgerInv' /\ Keeps
  BY <1>8, RestartRight DEF Keeps
<1>9. ASSUME Tick PROVE LedgerInv' /\ Keeps
  BY <1>9, TickRight DEF Keeps
<1>10. CASE UNCHANGED ledgerVars
  <2>1. UNCHANGED <<events, claims, clock, twins, loose, calls>>
    BY <1>10 DEF ledgerVars
  <2>2. LedgerInv'
    BY <2>1 DEF LedgerInv, LedgerTypeOK, OneClaim, OneEvent, EvidenceFollows
  <2> QED BY <2>1, <2>2, GrowsNot DEF Keeps
<1> QED
  BY <1>1, <1>2, <1>3, <1>4, <1>5, <1>6, <1>7, <1>8, <1>9, <1>10 DEF LedgerNext

LEMMA LedgerInitRight == LedgerInit => LedgerInv
<1> SUFFICES ASSUME LedgerInit PROVE LedgerInv
  OBVIOUS
<1>1. LedgerTypeOK
  BY LedgerBounds DEF LedgerInit, LedgerTypeOK
<1>2. Current(events) = {} /\ Current(claims) = {}
  BY DEF LedgerInit, Current
<1> QED
  BY <1>1, <1>2
     DEF LedgerInv, OneClaim, OneEvent, EvidenceFollows, Single, CurrentAbout

\* The invariant of the ledger holds in every state.
THEOREM LedgerCorrect == LedgerSpec => []LedgerInv
BY LedgerInitRight, LedgerStep, PTL DEF LedgerSpec

\* Types, of the rows and of the events the claims name.
THEOREM LedgerTypes == LedgerSpec => []LedgerTypeOK
<1>1. LedgerInv => LedgerTypeOK
  BY DEF LedgerInv
<1> QED BY <1>1, LedgerCorrect, PTL

LEMMA AtMostOne ==
  ASSUME NEW S, \A i, j \in S : i = j
  PROVE  Cardinality(S) <= 1
<1>1. CASE S = {}
  BY <1>1, FS_EmptySet
<1>2. CASE S # {}
  <2>1. PICK i \in S : TRUE
    BY <1>2
  <2>2. S = {i}
    BY <2>1
  <2>3. Cardinality({i}) = 1
    BY FS_Singleton
  <2> QED BY <2>2, <2>3
<1> QED BY <1>1, <1>2

\* However creations, corrections, updates and retractions follow each other,
\* what is single valued has one current claim.
THEOREM OneClaimIsCurrent == LedgerSpec => []OneCurrentClaim
<1>1. LedgerInv => OneCurrentClaim
  <2> SUFFICES ASSUME LedgerInv, NEW about \in About \ loose
               PROVE  Cardinality(CurrentAbout(claims, about)) <= 1
    BY DEF OneCurrentClaim
  <2>1. \A i, j \in CurrentAbout(claims, about) : i = j
    BY DEF LedgerInv, OneClaim, Single
  <2> QED BY <2>1, AtMostOne
<1> QED BY <1>1, LedgerCorrect, PTL

\* A key has one current event, unless a second one was asked for.
THEOREM OneEventIsCurrent == LedgerSpec => []OneCurrentEvent
<1>1. LedgerInv => OneCurrentEvent
  <2> SUFFICES ASSUME LedgerInv, NEW key \in Key \ twins
               PROVE  Cardinality({i \in Current(events) : events[i].key = key}) <= 1
    BY DEF OneCurrentEvent
  <2>1. \A i, j \in {k \in Current(events) : events[k].key = key} : i = j
    BY DEF LedgerInv, OneEvent
  <2> QED BY <2>1, AtMostOne
<1> QED BY <1>1, LedgerCorrect, PTL

\* The claims of an event that is replaced, retracted, merged as an alias or
\* erased go with it: a current claim rests on a current event.
THEOREM EvidenceIsCurrent == LedgerSpec => []EvidenceFollows
<1>1. LedgerInv => EvidenceFollows
  BY DEF LedgerInv
<1> QED BY <1>1, LedgerCorrect, PTL

-----------------------------------------------------------------------------
(* What the past is known to have been.                                    *)

\* What was believed at an earlier time is what is believed of it.
LEMMA ToldStays ==
  ASSUME LedgerInv, Grows(claims, claims', clock), NEW t \in Time, NEW k \in 1 .. clock - 1
  PROVE  Told(claims', t, k) = Told(claims, t, k)
<1>1. clock \in Nat /\ clock # 0 /\ k \in Nat /\ k < clock /\ ~ (clock <= k)
  BY LedgerBounds DEF LedgerInv, LedgerTypeOK
<1>2. Believed(claims', t, k) = Believed(claims, t, k)
  <2>1. ASSUME NEW i \in DOMAIN claims
        PROVE  i \in DOMAIN claims' /\ (i \in Believed(claims', t, k) <=> i \in Believed(claims, t, k))
    <3>1. i \in DOMAIN claims' /\ Follows(claims[i], claims'[i], clock)
      BY DEF Grows
    <3>2. CASE claims'[i].until = claims[i].until
      BY <3>1, <3>2 DEF Follows, Believed
    <3>3. CASE claims[i].until = 0 /\ claims'[i].until = clock
      BY <1>1, <3>1, <3>3 DEF Follows, Believed
    <3> QED BY <3>1, <3>2, <3>3 DEF Follows
  <2>2. ASSUME NEW i \in DOMAIN claims', i \notin DOMAIN claims PROVE i \notin Believed(claims', t, k)
    BY <1>1, <2>2 DEF Grows, Believed
  <2>3. \A i : i \in Believed(claims', t, k) => i \in DOMAIN claims'
    BY DEF Believed
  <2>4. \A i : i \in Believed(claims, t, k) => i \in DOMAIN claims
    BY DEF Believed
  <2> QED BY <2>1, <2>2, <2>3, <2>4
<1>3. \A i \in Believed(claims, t, k) :
        claims'[i].about = claims[i].about /\ claims'[i].object = claims[i].object
  BY DEF Grows, Follows, Believed
<1> QED BY <1>2, <1>3 DEF Told

\* What an as-of question finds for an earlier knowledge time never changes,
\* unless rows are erased or one that had ended is retracted again.
THEOREM PastIsKnown == LedgerSpec => KnownStaysKnown
<1>1. LedgerInv /\ [LedgerNext]_ledgerVars =>
        \A t \in Time, k \in 1 .. clock - 1 :
          Told(claims', t, k) = Told(claims, t, k) \/ Rewrites
  BY LedgerStep, ToldStays DEF Keeps
<1>2. LedgerInv /\ [LedgerNext]_ledgerVars =>
        [\A t \in Time, k \in 1 .. clock - 1 :
           \/ Told(claims', t, k) = Told(claims, t, k)
           \/ \E i \in DOMAIN claims :
                \/ claims[i].status # "erased" /\ claims'[i].status = "erased"
                \/ claims[i].until # 0 /\ claims'[i].until # claims[i].until]_ledgerVars
  BY <1>1 DEF Rewrites
<1> QED BY <1>2, LedgerCorrect, PTL DEF LedgerSpec, KnownStaysKnown

\* An update keeps what was believed of the time before it: a version it ends
\* is carried up to its moment.
LEMMA UpdateKeeps ==
  ASSUME LedgerInv, NEW c \in ClaimsTold, c.operation = "update", StoreSemanticClaim(c),
         NEW t \in 1 .. Starts(c.from, clock) - 1, NEW i \in Believed(claims, t, clock)
  PROVE  \/ <<claims[i].about, claims[i].object>> \in Told(claims', t, clock)
         \/ claims[i].to # 0 /\ claims[i].to <= Starts(c.from, clock)
<1> DEFINE boundary == Starts(c.from, clock)
<1>1. /\ c \in Claim /\ clock \in Clock /\ clock \in Nat /\ clock # 0 /\ Len(events) \in Nat
      /\ claims \in Seq(Rests(Len(events))) /\ c.from \in 0 .. MaxTime
  BY ClaimsRest, LedgerAssumption, LedgerBounds
     DEF LedgerAssumption, LedgerInv, LedgerTypeOK, Claim
<1>2. claims' = ApplyClaim(claims, c, 0, 0)
  BY DEF StoreSemanticClaim
<1>3. boundary \in Nat /\ boundary # 0 /\ t \in Nat /\ t < boundary
  <2>1. boundary \in Time /\ t \in 1 .. boundary - 1
    BY <1>1, LedgerBounds, TimesTyped
  <2> HIDE DEF boundary
  <2>2. boundary \in Nat /\ boundary # 0
    BY <2>1, LedgerBounds
  <2> QED BY <2>1, <2>2
<1> HIDE DEF boundary
<1>4. /\ i \in DOMAIN claims /\ claims[i].from <= t
      /\ claims[i].to = 0 \/ t < claims[i].to
      /\ claims[i].status # "erased" /\ claims[i].known <= clock
      /\ claims[i].until = 0 \/ clock < claims[i].until
  BY DEF Believed
<1>5. claims[i] \in ClaimRow /\ claims[i].from \in Nat /\ claims[i].to \in Nat
  <2>1. claims[i] \in ClaimRow
    BY <1>4 DEF LedgerInv, LedgerTypeOK
  <2>2. claims[i].from \in Time /\ claims[i].to \in 0 .. MaxTime
    BY <2>1 DEF ClaimRow
  <2>3. claims[i].to \in Nat
    BY <2>2, LedgerBounds
  <2>4. claims[i].from \in Nat
    BY <2>2, LedgerBounds
  <2> QED BY <2>1, <2>3, <2>4
<1>6. \/ claims'[i] = claims[i]
      \/ ~NeedsCarryForward(claims[i], boundary)
      \/ \E j \in DOMAIN claims' : claims'[j] = CarriedClaim(claims[i], boundary, 0)
  <2>1. 0 \in 0 .. Len(events)
    BY <1>1
  <2>2. PastStays(claims, claims', boundary, 0)
    BY <1>1, <1>2, <2>1, ApplyClaimRight DEF boundary
  <2> QED BY <1>4, <2>2 DEF PastStays
<1>7. i \in DOMAIN claims'
  BY <1>4, LedgerInv, StoreSemanticClaimRight DEF Grows
<1>8. CASE claims'[i] = claims[i]
  <2>1. i \in Believed(claims', t, clock)
    BY <1>4, <1>7, <1>8 DEF Believed
  <2> QED BY <1>8, <2>1 DEF Told
<1>9. CASE ~NeedsCarryForward(claims[i], boundary)
  <2>1. claims[i].from < boundary
    BY <1>3, <1>4, <1>5
  <2>2. claims[i].to # 0 /\ ~ (boundary < claims[i].to)
    BY <1>9, <2>1 DEF NeedsCarryForward
  <2>3. claims[i].to <= boundary
    BY <1>3, <1>5, <2>2
  <2> QED BY <2>2, <2>3 DEF boundary
<1>10. ASSUME NEW j \in DOMAIN claims', claims'[j] = CarriedClaim(claims[i], boundary, 0)
       PROVE  <<claims[i].about, claims[i].object>> \in Told(claims', t, clock)
  <2>1. PICK row \in ClaimRow : row = claims[i]
    BY <1>5
  <2>2. PICK b : b = claims'[j]
    OBVIOUS
  <2>3. b = [Carried(row, boundary) EXCEPT !.event = Carried(row, boundary).event]
    BY <1>10, <2>1, <2>2 DEF CarriedClaim
  <2>4. /\ b.about = row.about /\ b.object = row.object /\ b.status = "historical"
        /\ b.from = row.from /\ b.to = boundary /\ b.known = clock /\ b.until = 0
    BY <2>3 DEF Carried, ClaimRow
  <2>5. j \in Believed(claims', t, clock)
    BY <1>1, <1>3, <1>4, <2>1, <2>2, <2>4 DEF Believed
  <2> QED BY <2>1, <2>2, <2>4, <2>5 DEF Told
<1> QED BY <1>6, <1>8, <1>9, <1>10

\* What held before an update begins is still told of the times it covered,
\* by the rows that the update closed or by what it carried forward.
THEOREM UpdatesKeepThePast == LedgerSpec => UpdateKeepsThePast
<1>1. LedgerInv /\ [LedgerNext]_ledgerVars =>
        [\A c \in ClaimsTold :
           (c.operation = "update" /\ StoreSemanticClaim(c)) =>
             \A t \in 1 .. Starts(c.from, clock) - 1 :
               \A i \in Believed(claims, t, clock) :
                 \/ <<claims[i].about, claims[i].object>> \in Told(claims', t, clock)
                 \/ claims[i].to # 0 /\ claims[i].to <= Starts(c.from, clock)]_ledgerVars
  BY UpdateKeeps
<1> QED BY <1>1, LedgerCorrect, PTL DEF LedgerSpec, UpdateKeepsThePast

-----------------------------------------------------------------------------
(***************************************************************************)
(* The fields.                                                             *)
(***************************************************************************)

AnyValue == (UNION {Value(f) : f \in Field}) \cup {Gone}

RowAt(w) ==
  [status: {"none", "active", "retracted"}, value: AnyValue, version: Nat, from: 0 .. w]

IntervalAt(w) ==
  [field: Field, value: AnyValue, version: Nat, from: 0 .. w, to: 0 .. w,
   known: 1 .. w, until: 0 .. w]

Ids(h, f) == {i \in DOMAIN h : h[i].field = f}

\* What is not closed in either time.
Open(h, f) == {i \in Ids(h, f) : h[i].to = 0 /\ h[i].until = 0}

Latest(h, f, i) == i \in Open(h, f) /\ \A j \in Open(h, f) : j = i \/ h[j].known < h[i].known

\* The history of a field ends with what its row says; an interval that a
\* forgotten field left open is older than the one that answers.
Tells(h, row, f) ==
  /\ row.status = "none" => Ids(h, f) = {}
  /\ row.status # "none" =>
       /\ row.value \in Value(f)
       /\ \E i \in DOMAIN h : h[i].field = f /\ h[i].version = row.version
       /\ \E i \in DOMAIN h : /\ Latest(h, f, i)
                              /\ row.status = "active" => h[i].value = row.value /\ h[i].version = row.version
                              /\ row.status = "retracted" => h[i].value = Gone

MemoryAt(m, w) ==
  /\ m \in [values: [Field -> RowAt(w)], history: Seq(IntervalAt(w))]
  /\ \A f \in Field : Tells(m.history, m.values[f], f)

\* During a call: what is forgotten was so before.
Forgotten(m, w) ==
  \A f \in Field : m.values[f].status = "retracted" =>
    \A i \in Open(m.history, f) : m.history[i].known < w

During(m) == MemoryAt(m, now) /\ Forgotten(m, now)

LEMMA ValuesAreAny == \A f \in Field : Value(f) \subseteq AnyValue
BY DEF AnyValue

LEMMA WiderTimes ==
  ASSUME NEW v \in Nat, NEW w \in Nat, v <= w
  PROVE  /\ \A r \in RowAt(v) : r \in RowAt(w)
         /\ \A h \in IntervalAt(v) : h \in IntervalAt(w)
         /\ \A s \in Seq(IntervalAt(v)) : s \in Seq(IntervalAt(w))
<1>1. \A t : (t \in 0 .. v => t \in 0 .. w) /\ (t \in 1 .. v => t \in 1 .. w)
  OBVIOUS
<1>2. \A r \in RowAt(v) : r \in RowAt(w)
  BY <1>1 DEF RowAt
<1>3. \A h \in IntervalAt(v) : h \in IntervalAt(w)
  BY <1>1 DEF IntervalAt
<1>4. ASSUME NEW s \in Seq(IntervalAt(v)) PROVE s \in Seq(IntervalAt(w))
  <2>1. \A i \in DOMAIN s : s[i] \in IntervalAt(w)
    BY <1>3
  <2>2. DOMAIN s = 1 .. Len(s) /\ Len(s) \in Nat /\ s \in [1 .. Len(s) -> IntervalAt(w)]
    BY <2>1
  <2> QED BY <2>2
<1> QED BY <1>2, <1>3, <1>4

LEMMA CallBegins ==
  ASSUME NEW m, writes \in Nat, MemoryAt(m, writes)
  PROVE  During(m)
<1>1. now \in Nat /\ writes <= now /\ \A t \in 1 .. writes : t < now
  BY DEF now
<1>2. m \in [values: [Field -> RowAt(writes)], history: Seq(IntervalAt(writes))]
  BY DEF MemoryAt
<1>3. m.values \in [Field -> RowAt(now)] /\ m.history \in Seq(IntervalAt(now))
  <2>1. m.values \in [Field -> RowAt(writes)] /\ m.history \in Seq(IntervalAt(writes))
    BY <1>2
  <2>2. \A f \in Field : m.values[f] \in RowAt(now)
    BY <1>1, <2>1, WiderTimes
  <2> QED BY <1>1, <2>1, <2>2, WiderTimes
<1>4. m \in [values: [Field -> RowAt(now)], history: Seq(IntervalAt(now))]
  BY <1>2, <1>3
<1>5. ASSUME NEW i \in DOMAIN m.history PROVE m.history[i].known < now
  <2>1. m.history[i] \in IntervalAt(writes)
    BY <1>2
  <2>2. m.history[i].known \in 1 .. writes
    BY <2>1 DEF IntervalAt
  <2> QED BY <1>1, <2>2
<1> QED BY <1>4, <1>5 DEF During, MemoryAt, Forgotten, Open, Ids

-----------------------------------------------------------------------------
\* What is told of a field stays so, while others are written.
Apart(h, b, f) ==
  /\ \A i \in Ids(h, f) : i \in Ids(b, f) /\ b[i] = h[i]
  /\ Ids(b, f) \subseteq Ids(h, f)

LEMMA TellsOn ==
  ASSUME NEW h, NEW b, NEW f, NEW row, NEW w, Tells(h, row, f), Apart(h, b, f)
  PROVE  /\ Tells(b, row, f)
         /\ (\A i \in Open(h, f) : h[i].known < w) => \A i \in Open(b, f) : b[i].known < w
<1>1. Ids(b, f) = Ids(h, f) /\ \A i \in Ids(h, f) : b[i] = h[i]
  BY DEF Apart
<1>2. Open(b, f) = Open(h, f)
  BY <1>1 DEF Open
<1>3. \A i : Latest(h, f, i) => Latest(b, f, i) /\ b[i] = h[i]
  BY <1>1, <1>2 DEF Latest, Open
<1>4. \A i : Latest(h, f, i) => i \in DOMAIN b
  BY <1>1 DEF Latest, Open, Ids
<1>5. row.status # "none" => \E i \in DOMAIN b : b[i].field = f /\ b[i].version = row.version
  BY <1>1 DEF Tells, Ids
<1>6. Tells(b, row, f)
  BY <1>1, <1>3, <1>4, <1>5 DEF Tells
<1> QED BY <1>1, <1>2, <1>6 DEF Open
-----------------------------------------------------------------------------
(* Writing a field.  Its history is closed in part, and goes on.           *)

Closes(h, c, f, versions) ==
  /\ DOMAIN c = DOMAIN h
  /\ \A i \in DOMAIN h : c[i].field = h[i].field /\ c[i].version = h[i].version
  /\ \A i \in DOMAIN h : h[i].field # f => c[i] = h[i]
  /\ \A i \in Open(h, f) : h[i].version \notin versions => c[i] = h[i]
  /\ \A i \in Open(c, f) : i \in Open(h, f) /\ h[i].version \notin versions

LEMMA ClosedHistoryRight ==
  ASSUME NEW m, NEW f, NEW versions, NEW c, c = ClosedHistory(m, f, versions), writes \in Nat,
         m.history \in Seq(IntervalAt(now))
  PROVE  c \in Seq(IntervalAt(now)) /\ Closes(m.history, c, f, versions)
<1> DEFINE h == m.history
<1>1. now \in Nat /\ now # 0 /\ now \in 0 .. now
  BY DEF now
<1>2. /\ DOMAIN c = DOMAIN h /\ c = [i \in DOMAIN h |-> c[i]]
      /\ \A i \in DOMAIN h :
           c[i] = IF h[i].field = f /\ h[i].version \in versions /\ h[i].until = 0
                  THEN [h[i] EXCEPT !.until = now] ELSE h[i]
  BY DEF ClosedHistory
<1>3. \A i \in DOMAIN h : h[i] \in IntervalAt(now)
  OBVIOUS
<1> HIDE DEF h
<1>4. ASSUME NEW i \in DOMAIN h
      PROVE  /\ c[i] \in IntervalAt(now) /\ c[i].field = h[i].field
             /\ c[i].version = h[i].version
             /\ c[i] = h[i] \/ c[i].until = now
             /\ h[i].field # f => c[i] = h[i]
             /\ h[i].version \notin versions => c[i] = h[i]
             /\ h[i].field = f /\ h[i].version \in versions /\ h[i].until = 0 => c[i].until = now
  <2>1. CASE ~(h[i].field = f /\ h[i].version \in versions /\ h[i].until = 0)
    BY <1>2, <1>3, <2>1
  <2>2. CASE h[i].field = f /\ h[i].version \in versions /\ h[i].until = 0
    <3>1. c[i] = [h[i] EXCEPT !.until = now] /\ h[i] \in IntervalAt(now)
      BY <1>2, <1>3, <2>2
    <3> QED BY <1>1, <2>2, <3>1 DEF IntervalAt
  <2> QED BY <2>1, <2>2
<1>5. c \in Seq(IntervalAt(now))
  <2>1. h \in Seq(IntervalAt(now))
    BY DEF h
  <2> QED BY <1>2, <1>4, <2>1, RowByRow
<1>6. \A i \in Open(c, f) : i \in Open(h, f) /\ h[i].version \notin versions
  <2> TAKE i \in Open(c, f)
  <2>1. i \in DOMAIN h /\ c[i].field = f /\ c[i].to = 0 /\ c[i].until = 0
    BY <1>2 DEF Open, Ids
  <2>2. c[i] = h[i]
    BY <1>1, <1>4, <2>1
  <2> QED BY <1>1, <1>4, <2>1, <2>2 DEF Open, Ids
<1>7. Closes(h, c, f, versions)
  BY <1>2, <1>4, <1>6 DEF Closes, Open, Ids
<1> QED BY <1>5, <1>7 DEF h

\* The history after a write: older intervals carried, and a new one.
GoesOnWith(h, b, f, versions, x) ==
  /\ \A g \in Field : g # f => Apart(h, b, g)
  /\ Len(b) \in DOMAIN b \ DOMAIN h /\ b[Len(b)] = x
  /\ \A i \in Open(b, f) :
       i = Len(b) \/ (i \in Open(h, f) /\ h[i].version \notin versions /\ b[i] = h[i])
  /\ \A i \in DOMAIN h : i \in DOMAIN b /\ b[i].field = h[i].field /\ b[i].version = h[i].version

LEMMA HistoryGoesOn ==
  ASSUME NEW w, NEW h \in Seq(IntervalAt(w)), NEW c \in Seq(IntervalAt(w)), NEW f, NEW versions,
         Closes(h, c, f, versions),
         NEW e \in Seq(IntervalAt(w)), \A n \in DOMAIN e : e[n].field = f /\ e[n].to # 0,
         NEW x \in IntervalAt(w), x.field = f,
         NEW b, b = c \o e \o <<x>>
  PROVE  b \in Seq(IntervalAt(w)) /\ GoesOnWith(h, b, f, versions, x)
<1>1. b \in Seq(IntervalAt(w)) /\ Joins(b, c, e, x)
  BY Joined
<1>2. Len(b) \in DOMAIN b \ DOMAIN h /\ b[Len(b)] = x
  BY <1>1 DEF Joins, Closes
<1>3. \A i \in DOMAIN b : i \in DOMAIN h \/ b[i].field = f
  BY <1>1 DEF Joins, Closes
<1>4. \A i \in DOMAIN h : i \in DOMAIN b /\ b[i] = c[i]
  BY <1>1 DEF Joins, Closes
<1>5. ASSUME NEW g \in Field, g # f PROVE Apart(h, b, g)
  BY <1>3, <1>4, <1>5 DEF Apart, Ids, Closes
<1>6. ASSUME NEW i \in Open(b, f), i # Len(b)
      PROVE  i \in Open(h, f) /\ h[i].version \notin versions /\ b[i] = h[i]
  <2>1. i \in DOMAIN b /\ b[i].to = 0 /\ b[i].field = f /\ b[i].until = 0
    BY DEF Open, Ids
  <2>2. i \in DOMAIN c
    BY <1>1, <1>6, <2>1 DEF Joins
  <2>3. b[i] = c[i]
    BY <1>1, <2>2 DEF Joins
  <2>4. i \in Open(c, f)
    BY <2>1, <2>2, <2>3 DEF Open, Ids
  <2> QED BY <2>3, <2>4 DEF Closes
<1>7. \A i \in DOMAIN h : i \in DOMAIN b /\ b[i].field = h[i].field /\ b[i].version = h[i].version
  BY <1>4 DEF Closes
<1> QED BY <1>1, <1>2, <1>5, <1>6, <1>7 DEF GoesOnWith

\* A row that changes with its history.
LEMMA RowGoesOn ==
  ASSUME NEW m, During(m), writes \in Nat, NEW f \in Field, NEW row \in RowAt(now),
         row.status \in {"active", "retracted"}, row.value \in Value(f),
         NEW versions, NEW x, NEW b \in Seq(IntervalAt(now)),
         GoesOnWith(m.history, b, f, versions, x),
         x \in IntervalAt(now), x.field = f, x.to = 0, x.until = 0, x.known = now,
         row.status = "active" => x.value = row.value /\ x.version = row.version,
         row.status = "retracted" => x.value = Gone /\ m.values[f].version = row.version
                                     /\ m.values[f].status # "none",
         \A i \in Open(m.history, f) :
           m.history[i].version \in versions \/ m.history[i].known < now
  PROVE  /\ MemoryAt([values |-> [m.values EXCEPT ![f] = row], history |-> b], now)
         /\ row.status = "active" =>
              During([values |-> [m.values EXCEPT ![f] = row], history |-> b])
<1> DEFINE h == m.history
           values == [m.values EXCEPT ![f] = row]
           n == [values |-> values, history |-> b]
<1>1. /\ m.values \in [Field -> RowAt(now)] /\ h \in Seq(IntervalAt(now))
      /\ \A g \in Field : Tells(h, m.values[g], g)
      /\ \A g \in Field : m.values[g].status = "retracted" =>
           \A i \in Open(h, g) : h[i].known < now
  BY DEF During, MemoryAt, Forgotten
<1>2. /\ values \in [Field -> RowAt(now)] /\ values[f] = row
      /\ \A g \in Field : g # f => values[g] = m.values[g]
  BY <1>1
<1> HIDE DEF values, h
<1>3. n \in [values: [Field -> RowAt(now)], history: Seq(IntervalAt(now))]
  BY <1>2
<1>4. ASSUME NEW g \in Field, g # f
      PROVE  /\ Tells(b, values[g], g)
             /\ values[g].status = "retracted" => \A i \in Open(b, g) : b[i].known < now
  <2>1. Apart(h, b, g)
    BY <1>4 DEF GoesOnWith, h
  <2> QED BY <1>1, <1>2, <1>4, <2>1, TellsOn
<1>5. Len(b) \in DOMAIN b /\ b[Len(b)] = x
  BY DEF GoesOnWith
<1>6. Len(b) \in Open(b, f)
  BY <1>5 DEF Open, Ids
<1>7. Latest(b, f, Len(b))
  BY <1>5, <1>6 DEF Latest, GoesOnWith
<1>8. \E i \in DOMAIN b : b[i].field = f /\ b[i].version = row.version
  <2>1. CASE row.status = "active"
    BY <1>5, <2>1
  <2>2. CASE row.status = "retracted"
    <3>1. \E i \in DOMAIN h : h[i].field = f /\ h[i].version = row.version
      BY <1>1, <2>2 DEF Tells
    <3> QED BY <3>1 DEF GoesOnWith, h
  <2> QED BY <2>1, <2>2
<1>9. Tells(b, values[f], f)
  BY <1>2, <1>5, <1>7, <1>8 DEF Tells
<1>10. MemoryAt(n, now)
  BY <1>3, <1>4, <1>9 DEF MemoryAt
<1>11. ASSUME row.status = "active" PROVE Forgotten(n, now)
  BY <1>2, <1>4, <1>11 DEF Forgotten
<1> QED BY <1>10, <1>11 DEF During, values

-----------------------------------------------------------------------------
\* A row is written; what a call is to write it has.
LEMMA WriteRight ==
  ASSUME NEW m, During(m), writes \in Nat, NEW f \in Field, NEW v \in Value(f)
  PROVE  During(Write(m, f, v))
<1> DEFINE h == m.history
           row == m.values[f]
<1>1. /\ m.values \in [Field -> RowAt(now)] /\ h \in Seq(IntervalAt(now))
      /\ row \in RowAt(now) /\ Tells(h, row, f)
      /\ row.status = "retracted" => \A i \in Open(h, f) : h[i].known < now
  BY DEF During, MemoryAt, Forgotten
<1>2. /\ now \in Nat /\ now \in 0 .. now /\ now \in 1 .. now /\ 0 \in 0 .. now /\ now # 0
      /\ v \in AnyValue
  BY ValuesAreAny DEF now
<1>3. row.status \in {"none", "active", "retracted"} /\ row.version \in Nat
  BY <1>1 DEF RowAt
<1>4. CASE row.status = "none"
  <2> DEFINE new == [status |-> "active", value |-> v, version |-> 1, from |-> now]
             x == Interval(f, v, 1, now)
             b == h \o <<>> \o <<x>>
  <2>1. new \in RowAt(now) /\ new.status = "active" /\ new.value = v /\ new.version = 1
    BY <1>2 DEF RowAt
  <2>2. x \in IntervalAt(now)
    BY <1>2 DEF Interval, IntervalAt
  <2>3. /\ x.field = f /\ x.to = 0 /\ x.until = 0 /\ x.known = now /\ x.value = v
        /\ x.version = 1
    BY DEF Interval
  <2> HIDE DEF x, h
  <2>4. Closes(h, h, f, {})
    BY DEF Closes
  <2>5. <<>> \in Seq(IntervalAt(now)) /\ DOMAIN <<>> = {}
    OBVIOUS
  <2>6. b \in Seq(IntervalAt(now)) /\ GoesOnWith(h, b, f, {}, x)
    BY <1>1, <2>2, <2>3, <2>4, <2>5, HistoryGoesOn
  <2>7. \A i \in Open(h, f) : FALSE
    BY <1>1, <1>4 DEF Tells, Open
  <2>8. b = Append(h, x)
    BY <1>1, <2>2
  <2> HIDE DEF b, new
  <2>9. During([values |-> [m.values EXCEPT ![f] = new], history |-> b])
    BY <2>1, <2>2, <2>3, <2>6, <2>7, RowGoesOn DEF h
  <2>10. Write(m, f, v) = [values |-> [m.values EXCEPT ![f] = new], history |-> b]
    BY <1>4, <2>8 DEF Write, CreateRow, Row, h, x, new
  <2> QED BY <2>9, <2>10
<1>5. CASE row.status # "none" /\ row.value = v
  BY <1>5 DEF Write, Row
<1>6. CASE row.status # "none" /\ row.value # v
  <2> DEFINE n == row.version + 1
             versions == {row.version}
             new == [status |-> "active", value |-> v, version |-> n, from |-> now]
             x == Interval(f, v, n, now)
             c == ClosedHistory(m, f, versions)
             ids == {i \in DOMAIN h : h[i].field = f /\ h[i].version = row.version}
             last == Max(ids)
             y == CarriedHistory(m, f)
             e == <<y>>
             b == c \o e \o <<x>>
  <2>1. /\ n \in Nat
        /\ new \in RowAt(now) /\ new.status = "active" /\ new.value = v /\ new.version = n
    BY <1>2, <1>3 DEF RowAt
  <2>2. x \in IntervalAt(now)
    BY <1>2, <2>1 DEF Interval, IntervalAt
  <2>3. /\ x.field = f /\ x.to = 0 /\ x.until = 0 /\ x.known = now /\ x.value = v
        /\ x.version = n
    BY DEF Interval
  <2>4. c \in Seq(IntervalAt(now)) /\ Closes(h, c, f, versions)
    BY <1>1, ClosedHistoryRight
  <2>5. last \in ids
    <3>1. ids # {} /\ ids \in SUBSET DOMAIN h
      BY <1>1, <1>6 DEF Tells
    <3> HIDE DEF ids, h
    <3> QED BY <1>1, <3>1, RowsAreFinite
  <2>6. y \in IntervalAt(now) /\ y.field = f /\ y.to = now
    <3>0. ids \subseteq DOMAIN h /\ \A i \in ids : h[i].field = f
      OBVIOUS
    <3>1. last \in DOMAIN h /\ h[last].field = f /\ h[last] \in IntervalAt(now)
      <4> HIDE DEF ids, last, h
      <4> QED BY <1>1, <2>5, <3>0
    <3>2. y = [h[last] EXCEPT !.to = now, !.known = now, !.until = 0]
      BY DEF CarriedHistory, Row
    <3> HIDE DEF y, last, h
    <3> QED BY <1>2, <3>1, <3>2 DEF IntervalAt
  <2>7. e \in Seq(IntervalAt(now)) /\ \A k \in DOMAIN e : e[k].field = f /\ e[k].to # 0
    <3> HIDE DEF y
    <3> QED BY <1>2, <2>6
  <2> HIDE DEF x, h, c, e
  <2>8. b \in Seq(IntervalAt(now)) /\ GoesOnWith(h, b, f, versions, x)
    BY <1>1, <2>2, <2>3, <2>4, <2>7, HistoryGoesOn
  <2>9. \A i \in Open(h, f) : h[i].version \in versions \/ h[i].known < now
    <3>1. CASE row.status = "retracted"
      BY <1>1, <3>1
    <3>2. CASE row.status = "active"
      <4>1. PICK i \in DOMAIN h : Latest(h, f, i) /\ h[i].version = row.version
        BY <1>1, <3>2 DEF Tells
      <4>2. ASSUME NEW j \in Open(h, f), j # i PROVE h[j].known < now
        <5>1. h[j].known < h[i].known
          BY <4>1, <4>2 DEF Latest
        <5>2. h[i] \in IntervalAt(now) /\ h[j] \in IntervalAt(now)
          BY <1>1, <4>1 DEF Open, Ids
        <5>3. h[i].known \in 1 .. now /\ h[j].known \in 1 .. now
          BY <5>2 DEF IntervalAt
        <5> QED BY <1>2, <5>1, <5>3
      <4> QED BY <4>1, <4>2
    <3> QED BY <1>3, <1>6, <3>1, <3>2
  <2> HIDE DEF b, new, versions, n
  <2>10. During([values |-> [m.values EXCEPT ![f] = new], history |-> b])
    BY <2>1, <2>2, <2>3, <2>8, <2>9, RowGoesOn DEF h
  <2>11. Write(m, f, v) = [values |-> [m.values EXCEPT ![f] = new], history |-> b]
    <3>1. Write(m, f, v) = ChangeRow(m, f, v)
      BY <1>6 DEF Write, Row
    <3>2. b = c \o (e \o <<x>>)
      <4>1. <<x>> \in Seq(IntervalAt(now))
        BY <2>2
      <4> QED BY <2>4, <2>7, <4>1 DEF b
    <3>3. e \o <<x>> = <<y, x>>
      BY <2>2, <2>6, TwoRows DEF e
    <3> HIDE DEF x, y, b, e
    <3> QED BY <3>1, <3>2, <3>3 DEF ChangeRow, Row, h, x, y, new, c, versions, n
  <2> QED BY <2>10, <2>11
<1> QED BY <1>4, <1>5, <1>6

LEMMA WriteScoreRight ==
  ASSUME NEW m, During(m), writes \in Nat, NEW n \in Int
  PROVE  During(WriteScore(m, n))
<1> DEFINE score == Clamp(0, n, MaxScore)
<1>1. score \in Value("intimacy")
  BY FieldsAssumption DEF FieldsAssumption, Clamp, Value
<1>2. StageOf(score) \in Value("stage")
  BY DEF StageOf, Value, Stage
<1> HIDE DEF score
<1>3. During(Write(m, "intimacy", score))
  BY <1>1, WriteRight DEF Field
<1>4. During(Write(Write(m, "intimacy", score), "stage", StageOf(score)))
  BY <1>2, <1>3, WriteRight DEF Field
<1> QED BY <1>4 DEF WriteScore, score

\* What is remembered is a value of the field.
LEMMA ValuesTyped ==
  ASSUME NEW m, During(m), NEW f \in Field
  PROVE  /\ m.values[f].status # "none" => m.values[f].value \in Value(f)
         /\ \A default \in Value(f) : Remembered(m, f, default) \in Value(f)
<1>1. m.values[f].status # "none" => m.values[f].value \in Value(f)
  BY DEF During, MemoryAt, Tells
<1> QED BY <1>1 DEF Remembered, Row

LEMMA MergeRulesRight ==
  ASSUME NEW m, During(m), writes \in Nat, NEW rules \in SUBSET Rule
  PROVE  During(MergeRules(m, rules))
<1>1. "rules" \in Field /\ Value("rules") = SUBSET Rule
  BY DEF Field, Value
<1>2. m.values["rules"].status # "none" => m.values["rules"].value \in SUBSET Rule
  BY <1>1, ValuesTyped
<1>3. rules \cup (IF Row(m, "rules").status = "none" THEN DefaultRules
                  ELSE Row(m, "rules").value) \in Value("rules")
  BY <1>1, <1>2, FieldsAssumption DEF FieldsAssumption, Row
<1> QED BY <1>1, <1>3, WriteRight DEF MergeRules

-----------------------------------------------------------------------------
(* The triggers of a call, one after the other.                            *)

RunsAt(w) == [DOMAIN Trigger -> [status: {"none", "success", "error"}, at: 0 .. w]]

Evaluations ==
  {s \in [memory: [values: [Field -> RowAt(now)], history: Seq(IntervalAt(now))],
          runs: RunsAt(now)] : During(s.memory)}

LEMMA FiredRight ==
  ASSUME NEW s \in Evaluations, NEW n \in DOMAIN Trigger, NEW fails, writes \in Nat
  PROVE  Fired(s, n, fails) \in Evaluations
<1>1. Trigger[n].stage \in Stage
  <2> DEFINE K == [at: Int, stage: Stage, once: BOOLEAN, cooldown: Nat]
  <2>1. Trigger \in Seq(K) /\ \A t \in K : t.stage \in Stage
    BY FieldsAssumption DEF FieldsAssumption
  <2> HIDE DEF K
  <2>2. Trigger[n] \in K
    BY <2>1
  <2> QED BY <2>1, <2>2
<1>2. During(s.memory) /\ s.runs \in RunsAt(now)
  BY DEF Evaluations
<1>3. During(Write(s.memory, "stage", Trigger[n].stage))
  BY <1>1, <1>2, WriteRight DEF Field, Value
<1> DEFINE r == Fired(s, n, fails)
<1>4. During(r.memory)
  <2>1. r.memory = IF n \in fails THEN s.memory ELSE Write(s.memory, "stage", Trigger[n].stage)
    BY DEF Fired
  <2> HIDE DEF r
  <2> QED BY <1>2, <1>3, <2>1
<1>5. r.runs \in RunsAt(now)
  <2> DEFINE run == [status |-> IF n \in fails THEN "error" ELSE "success", at |-> now]
  <2>1. now \in 0 .. now
    BY DEF now
  <2>2. run \in [status: {"none", "success", "error"}, at: 0 .. now]
    BY <2>1
  <2>3. r.runs = [s.runs EXCEPT ![n] = run]
    BY DEF Fired
  <2> HIDE DEF r, run
  <2> QED BY <1>2, <2>2, <2>3 DEF RunsAt
<1>6. r = [memory |-> r.memory, runs |-> r.runs]
  BY DEF Fired
<1> HIDE DEF r
<1>7. r.memory \in [values: [Field -> RowAt(now)], history: Seq(IntervalAt(now))]
  BY <1>4 DEF During, MemoryAt
<1>8. r \in Evaluations
  BY <1>4, <1>5, <1>6, <1>7 DEF Evaluations
<1> QED BY <1>8 DEF r

LEMMA EvaluateTriggersRight ==
  ASSUME NEW fails \in SUBSET DOMAIN Trigger, EvaluateTriggers(fails), writes \in Nat,
         During(memory), runs \in RunsAt(now)
  PROVE  During(memory') /\ runs' \in RunsAt(now) /\ Wrote(memory')
<1> DEFINE N == Len(Trigger)
           start == [memory |-> memory, runs |-> runs]
           Right(f) == f = [n \in 0 .. N |-> IF n = 0 THEN start
                              ELSE IF Eligible(f[n - 1], n) THEN Fired(f[n - 1], n, fails)
                                   ELSE f[n - 1]]
           after == CHOOSE f : Right(f)
           step == [n \in Nat |-> [s \in Evaluations |->
                      IF n \in 1 .. N /\ Eligible(s, n) THEN Fired(s, n, fails) ELSE s]]
           T == {n \in Nat : n <= N => after[n] \in Evaluations}
<1>1. Wrote(after[N].memory) /\ runs' = after[N].runs
  BY DEF EvaluateTriggers
<1>2. N \in Nat /\ DOMAIN Trigger = 1 .. N
  BY FieldsAssumption DEF FieldsAssumption
<1>3. start \in Evaluations
  <2>1. memory \in [values: [Field -> RowAt(now)], history: Seq(IntervalAt(now))]
    BY DEF During, MemoryAt
  <2> QED BY <2>1 DEF Evaluations
<1> HIDE DEF N, start
<1>4. ASSUME NEW n \in 1 .. N, NEW s \in Evaluations
      PROVE  Fired(s, n, fails) \in Evaluations
  BY <1>2, FiredRight
<1>5. step \in [Nat -> [Evaluations -> Evaluations]]
  BY <1>4
<1>6. PICK f \in [0 .. N -> Evaluations] : Iterated(f, start, step, N)
  <2> HIDE DEF step
  <2> QED BY <1>2, <1>3, <1>5, Iterates
<1>7. Right(f)
  <2>1. \A n \in 0 .. N : n # 0 => n - 1 \in 0 .. N /\ n \in 1 .. N
    BY <1>2
  <2>2. ASSUME NEW n \in 0 .. N, n # 0
        PROVE  f[n] = IF Eligible(f[n - 1], n) THEN Fired(f[n - 1], n, fails) ELSE f[n - 1]
    <3>1. n \in 1 .. N /\ n \in Nat /\ f[n - 1] \in Evaluations
      BY <1>2, <2>1, <2>2
    <3>2. f[n] = step[n][f[n - 1]]
      BY <1>6, <3>1 DEF Iterated
    <3> QED BY <3>1, <3>2
  <2>3. f[0] = start
    BY <1>6 DEF Iterated
  <2> QED BY <1>6, <2>2, <2>3
<1>8. Right(after)
  <2> HIDE DEF Right
  <2> QED BY <1>7
<1> HIDE DEF after
<1>9. \A n \in 0 .. N : after[n] = IF n = 0 THEN start
                                   ELSE IF Eligible(after[n - 1], n)
                                        THEN Fired(after[n - 1], n, fails) ELSE after[n - 1]
  BY <1>8
<1>10. 0 \in T
  BY <1>2, <1>3, <1>9
<1>11. ASSUME NEW n \in Nat, n \in T PROVE n + 1 \in T
  <2> SUFFICES ASSUME n + 1 <= N PROVE after[n + 1] \in Evaluations
    OBVIOUS
  <2>1. n + 1 \in 1 .. N /\ n + 1 \in 0 .. N /\ (n + 1) - 1 = n /\ n + 1 # 0 /\ n <= N
    BY <1>2
  <2>2. after[n] \in Evaluations
    BY <1>11, <2>1
  <2>3. after[n + 1] = after[n] \/ after[n + 1] = Fired(after[n], n + 1, fails)
    BY <1>9, <2>1
  <2> QED BY <1>4, <2>1, <2>2, <2>3
<1> HIDE DEF T
<1>12. N \in T
  BY <1>2, <1>10, <1>11, SetInduction
<1>13. after[N] \in Evaluations
  BY <1>2, <1>12 DEF T
<1>14. memory' = after[N].memory
  BY <1>1 DEF Wrote
<1> QED BY <1>1, <1>13, <1>14 DEF Evaluations

-----------------------------------------------------------------------------
(* A field is forgotten.                                                   *)

LEMMA RetractedRight ==
  ASSUME NEW m, During(m), writes \in Nat, NEW f \in Field, m.values[f].status = "active"
  PROVE  MemoryAt(Retracted(m, f), now)
<1> DEFINE h == m.history
           row == m.values[f]
           new == [row EXCEPT !.status = "retracted"]
           x == Interval(f, Gone, row.version + 1, row.from)
           c == ClosedHistory(m, f, Nat)
           b == c \o <<>> \o <<x>>
<1>1. /\ m.values \in [Field -> RowAt(now)] /\ h \in Seq(IntervalAt(now))
      /\ row \in RowAt(now) /\ Tells(h, row, f)
  BY DEF During, MemoryAt
<1>2. now \in Nat /\ now \in 1 .. now /\ 0 \in 0 .. now /\ Gone \in AnyValue
  <2>1. Gone \in AnyValue
    BY DEF AnyValue
  <2>2. now \in Nat /\ 1 <= now
    BY DEF now
  <2>3. now \in 1 .. now /\ 0 \in 0 .. now
    BY <2>2
  <2> QED BY <2>1, <2>2, <2>3
<1>3. row.value \in Value(f) /\ row.version \in Nat /\ row.from \in 0 .. now
  BY <1>1 DEF RowAt, Tells
<1>4. /\ new \in RowAt(now) /\ new.status = "retracted" /\ new.value = row.value
      /\ new.version = row.version
  <2> HIDE DEF row
  <2> QED BY <1>1 DEF RowAt
<1>5. x \in IntervalAt(now)
  <2> HIDE DEF row
  <2> QED BY <1>2, <1>3 DEF Interval, IntervalAt
<1>6. x.field = f /\ x.to = 0 /\ x.until = 0 /\ x.known = now /\ x.value = Gone
  BY DEF Interval
<1>7. c \in Seq(IntervalAt(now)) /\ Closes(h, c, f, Nat)
  BY <1>1, ClosedHistoryRight
<1>8. <<>> \in Seq(IntervalAt(now)) /\ DOMAIN <<>> = {}
  OBVIOUS
<1>9. \A i \in Open(h, f) : h[i].version \in Nat
  <2>1. \A i \in Open(h, f) : h[i] \in IntervalAt(now)
    BY <1>1 DEF Open, Ids
  <2> QED BY <2>1 DEF IntervalAt
<1> HIDE DEF h, x, c
<1>10. b \in Seq(IntervalAt(now)) /\ GoesOnWith(h, b, f, Nat, x)
  BY <1>1, <1>5, <1>6, <1>7, <1>8, HistoryGoesOn
<1>11. b = Append(c, x)
  BY <1>5, <1>7
<1>12. new.value \in Value(f) /\ m.values[f].version = new.version /\ m.values[f].status # "none"
  BY <1>3, <1>4
<1> HIDE DEF b, new
<1>13. MemoryAt([values |-> [m.values EXCEPT ![f] = new], history |-> b], now)
  BY <1>4, <1>5, <1>6, <1>9, <1>10, <1>12, RowGoesOn DEF h
<1>14. [m.values EXCEPT ![f].status = "retracted"] = [m.values EXCEPT ![f] = new]
  BY <1>1 DEF new
<1> QED BY <1>11, <1>13, <1>14 DEF Retracted, Row, x, c

LEMMA ErasedRight ==
  ASSUME NEW m, During(m), writes \in Nat, NEW f \in Field
  PROVE  MemoryAt(Erased(m, f), now)
<1> DEFINE h == m.history
           ids == {i \in DOMAIN h : h[i].field # f}
           b == RowsOf(h, ids)
           values == [m.values EXCEPT ![f] = NoRow]
<1>1. /\ m.values \in [Field -> RowAt(now)] /\ h \in Seq(IntervalAt(now))
      /\ \A g \in Field : Tells(h, m.values[g], g)
  BY DEF During, MemoryAt
<1>2. NoRow \in RowAt(now) /\ NoRow.status = "none"
  <2>1. Gone \in AnyValue
    BY DEF AnyValue
  <2>2. 0 \in 0 .. now
    BY DEF now
  <2> QED BY <2>1, <2>2 DEF NoRow, RowAt
<1>3. /\ values \in [Field -> RowAt(now)] /\ values[f] = NoRow
      /\ \A g \in Field : g # f => values[g] = m.values[g]
  BY <1>1, <1>2
<1>4. ids \subseteq DOMAIN h /\ \A i \in DOMAIN h : i \in ids <=> h[i].field # f
  OBVIOUS
<1>5. Erased(m, f) = [values |-> values, history |-> b]
  BY DEF Erased
<1> HIDE DEF values, ids, h
<1>6. b \in Seq(IntervalAt(now)) /\ Picks(h, ids, b)
  BY <1>1, <1>4, RowsOfRight
<1> HIDE DEF b
<1>7. PICK p \in [DOMAIN b -> ids] :
        /\ \A n \in DOMAIN b : b[n] = h[p[n]]
        /\ \A i \in ids : \E n \in DOMAIN b : p[n] = i
        /\ \A n, k \in DOMAIN b : p[n] = p[k] => n = k
  BY <1>6 DEF Picks
<1>8. \A n \in DOMAIN b : p[n] \in DOMAIN h /\ h[p[n]].field # f /\ b[n] = h[p[n]]
  BY <1>4, <1>7
<1>9. Ids(b, f) = {}
  BY <1>8 DEF Ids
<1>10. ASSUME NEW g \in Field, g # f PROVE Tells(b, m.values[g], g)
  <2>1. \A n : n \in Ids(b, g) => p[n] \in Ids(h, g) /\ b[n] = h[p[n]]
    BY <1>8 DEF Ids
  <2>2. \A i \in DOMAIN h : h[i].field = g => \E n \in DOMAIN b : p[n] = i /\ b[n] = h[i]
    BY <1>4, <1>7, <1>10
  <2>3. \A n : n \in Open(b, g) => p[n] \in Open(h, g) /\ b[n] = h[p[n]] /\ n \in DOMAIN b
    BY <2>1 DEF Open, Ids
  <2>4. ASSUME NEW i \in DOMAIN h, Latest(h, g, i)
        PROVE  \E n \in DOMAIN b : Latest(b, g, n) /\ b[n] = h[i]
    <3>1. h[i].field = g /\ i \in Open(h, g)
      BY <2>4 DEF Latest, Open, Ids
    <3>2. PICK n \in DOMAIN b : p[n] = i /\ b[n] = h[i]
      BY <2>2, <3>1
    <3>3. n \in Open(b, g)
      BY <3>1, <3>2 DEF Open, Ids
    <3>4. ASSUME NEW k \in Open(b, g), k # n PROVE b[k].known < b[n].known
      <4>1. p[k] \in Open(h, g) /\ b[k] = h[p[k]] /\ k \in DOMAIN b
        BY <2>3
      <4>2. p[k] # i
        BY <1>7, <3>2, <3>4, <4>1
      <4> QED BY <2>4, <3>2, <4>1, <4>2 DEF Latest
    <3> QED BY <3>2, <3>3, <3>4 DEF Latest
  <2>5. Tells(h, m.values[g], g)
    BY <1>1
  <2>6. m.values[g].status = "none" => Ids(b, g) = {}
    BY <2>1, <2>5 DEF Tells
  <2>7. ASSUME m.values[g].status # "none"
        PROVE  /\ \E n \in DOMAIN b : b[n].field = g /\ b[n].version = m.values[g].version
               /\ \E n \in DOMAIN b :
                    /\ Latest(b, g, n)
                    /\ m.values[g].status = "active" =>
                         b[n].value = m.values[g].value /\ b[n].version = m.values[g].version
                    /\ m.values[g].status = "retracted" => b[n].value = Gone
    <3>1. PICK i \in DOMAIN h : h[i].field = g /\ h[i].version = m.values[g].version
      BY <2>5, <2>7 DEF Tells
    <3>2. PICK n \in DOMAIN b : b[n] = h[i]
      BY <2>2, <3>1
    <3>3. PICK j \in DOMAIN h :
            /\ Latest(h, g, j)
            /\ m.values[g].status = "active" =>
                 h[j].value = m.values[g].value /\ h[j].version = m.values[g].version
            /\ m.values[g].status = "retracted" => h[j].value = Gone
      BY <2>5, <2>7 DEF Tells
    <3>4. PICK k \in DOMAIN b : Latest(b, g, k) /\ b[k] = h[j]
      BY <2>4, <3>3
    <3> QED BY <3>1, <3>2, <3>3, <3>4
  <2>8. m.values[g].status # "none" => m.values[g].value \in Value(g)
    BY <2>5 DEF Tells
  <2> QED BY <2>6, <2>7, <2>8 DEF Tells
<1>11. \A g \in Field : Tells(b, values[g], g)
  <2>1. Tells(b, values[f], f)
    BY <1>2, <1>3, <1>9 DEF Tells
  <2> QED BY <1>3, <1>10, <2>1
<1> DEFINE r == [values |-> values, history |-> b]
<1>12. r \in [values: [Field -> RowAt(now)], history: Seq(IntervalAt(now))]
  BY <1>3, <1>6
<1>13. r.history = b /\ r.values = values
  OBVIOUS
<1> HIDE DEF r
<1>14. MemoryAt(r, now)
  BY <1>11, <1>12, <1>13 DEF MemoryAt
<1> QED BY <1>5, <1>14 DEF r

-----------------------------------------------------------------------------
(* The calls together.                                                     *)

FieldsInv == FieldsTypeOK /\ writes \in Nat /\ MemoryAt(memory, writes) /\ runs \in RunsAt(writes)

\* What a call leaves.
LEMMA TypesKept ==
  MemoryAt(memory, writes) /\ writes \in 0 .. MaxWrites /\ runs \in RunsAt(writes) => FieldsInv
<1> SUFFICES ASSUME MemoryAt(memory, writes), writes \in 0 .. MaxWrites, runs \in RunsAt(writes)
             PROVE  FieldsInv
  OBVIOUS
<1>1. writes \in Nat
  BY FieldsAssumption DEF FieldsAssumption
<1>2. /\ memory.values \in [Field -> RowAt(writes)] /\ memory.history \in Seq(IntervalAt(writes))
      /\ \A f \in Field : Tells(memory.history, memory.values[f], f)
  BY DEF MemoryAt
<1>3. ASSUME NEW f \in Field
      PROVE  /\ memory.values[f].status \in {"none", "active", "retracted"}
             /\ memory.values[f].status # "none" => memory.values[f].value \in Value(f)
             /\ memory.values[f].version \in Nat /\ memory.values[f].from \in 0 .. writes
  <2>1. memory.values[f] \in RowAt(writes) /\ Tells(memory.history, memory.values[f], f)
    BY <1>2
  <2> QED BY <2>1 DEF RowAt, Tells
<1>4. ASSUME NEW i \in DOMAIN memory.history
      PROVE  /\ memory.history[i].field \in Field /\ memory.history[i].version \in Nat
             /\ memory.history[i].known \in 1 .. writes
             /\ {memory.history[i].from, memory.history[i].to, memory.history[i].until}
                  \subseteq 0 .. writes
  <2>1. memory.history[i] \in IntervalAt(writes)
    BY <1>2
  <2> QED BY <2>1 DEF IntervalAt
<1>5. \A n \in DOMAIN Trigger :
        /\ runs[n].status \in {"none", "success", "error"}
        /\ runs[n].at \in 0 .. writes
  BY DEF RunsAt
<1>6. FieldsTypeOK
  BY <1>3, <1>4, <1>5 DEF FieldsTypeOK
<1> QED BY <1>1, <1>6 DEF FieldsInv

LEMMA FieldsInitRight == FieldsInit => FieldsInv
<1> SUFFICES ASSUME FieldsInit PROVE FieldsInv
  OBVIOUS
<1>1. /\ memory = [values |-> [f \in Field |-> NoRow], history |-> <<>>] /\ writes = 0
      /\ runs = [n \in DOMAIN Trigger |-> [status |-> "none", at |-> 0]]
  BY DEF FieldsInit
<1>2. NoRow \in RowAt(0) /\ NoRow.status = "none"
  <2>1. Gone \in AnyValue
    BY DEF AnyValue
  <2> QED BY <2>1 DEF NoRow, RowAt
<1>3. MemoryAt(memory, 0)
  <2>1. memory \in [values: [Field -> RowAt(0)], history: Seq(IntervalAt(0))]
    BY <1>1, <1>2
  <2>2. \A f \in Field : memory.values[f] = NoRow /\ Ids(memory.history, f) = {}
    BY <1>1 DEF Ids
  <2> QED BY <1>2, <2>1, <2>2 DEF MemoryAt, Tells
<1>4. runs \in RunsAt(0)
  BY <1>1 DEF RunsAt
<1>5. writes \in 0 .. MaxWrites
  BY <1>1, FieldsAssumption DEF FieldsAssumption
<1> QED BY <1>1, <1>3, <1>4, <1>5, TypesKept

\* What the next state keeps.
LEMMA KeptAsTyped ==
  ASSUME NEW m, NEW w, MemoryAt(m, w), memory' = m, writes' = w, w \in 0 .. MaxWrites,
         runs' \in RunsAt(w)
  PROVE  FieldsInv'
<1>1. MemoryAt(memory', writes')
  OBVIOUS
<1>2. MemoryAt(memory, writes)'
  BY <1>1 DEF MemoryAt, RowAt, IntervalAt, Tells, Latest, Open, Ids, AnyValue, Value, Field
<1>3. (runs \in RunsAt(writes))' /\ (writes \in 0 .. MaxWrites)'
  BY DEF RunsAt
<1> QED BY <1>2, <1>3, TypesKept, PTL

LEMMA WrittenRight ==
  ASSUME FieldsInv, NEW m, MemoryAt(m, now), Wrote(m), runs' \in RunsAt(now)
  PROVE  FieldsInv'
<1>1. writes' = now /\ memory' = m /\ writes \in 0 .. MaxWrites /\ writes < MaxWrites
  BY DEF FieldsInv, FieldsTypeOK, Wrote, now
<1>2. now \in 0 .. MaxWrites
  BY <1>1, FieldsAssumption DEF FieldsAssumption, now
<1> QED BY <1>1, <1>2, KeptAsTyped

LEMMA FieldsStep == FieldsInv /\ [FieldsNext]_fieldVars => FieldsInv'
<1> SUFFICES ASSUME FieldsInv, [FieldsNext]_fieldVars PROVE FieldsInv'
  OBVIOUS
<1>1. writes \in Nat /\ During(memory) /\ runs \in RunsAt(writes)
  BY CallBegins DEF FieldsInv
<1>2. runs \in RunsAt(now)
  <2>1. \A t : t \in 0 .. writes => t \in 0 .. now
    BY <1>1 DEF now
  <2> QED BY <1>1, <2>1 DEF RunsAt
<1>3. ASSUME NEW m, MemoryAt(m, now), Writes(m) PROVE FieldsInv'
  <2>1. Wrote(m) /\ runs' = runs
    BY <1>3 DEF Writes
  <2> QED BY <1>2, <1>3, <2>1, WrittenRight
<1>4. ASSUME NEW m, During(m), Writes(m) PROVE FieldsInv'
  BY <1>3, <1>4 DEF During
<1>5. ASSUME NEW n \in 0 .. MaxScore, SetScore(n) PROVE FieldsInv'
  BY <1>1, <1>4, <1>5, WriteScoreRight DEF SetScore
<1>6. ASSUME NEW delta \in {-MaxDelta - 1, 1}, ApplyMemoryDelta(delta) PROVE FieldsInv'
  <2>1. Remembered(memory, "intimacy", DefaultScore) \in 0 .. MaxScore
    BY <1>1, ValuesTyped, FieldsAssumption DEF FieldsAssumption, Field, Value
  <2>2. Clamp(-MaxDelta, delta, MaxDelta) \in Int
    BY FieldsAssumption DEF FieldsAssumption, Clamp
  <2>3. Remembered(memory, "intimacy", DefaultScore) + Clamp(-MaxDelta, delta, MaxDelta) \in Int
    BY <2>1, <2>2
  <2> QED BY <1>1, <1>4, <1>6, <2>3, WriteScoreRight DEF ApplyMemoryDelta
<1>7. ASSUME NEW fails \in SUBSET DOMAIN Trigger, EvaluateTriggers(fails) PROVE FieldsInv'
  <2>1. During(memory') /\ runs' \in RunsAt(now) /\ Wrote(memory')
    BY <1>1, <1>2, <1>7, EvaluateTriggersRight
  <2> QED BY <2>1, WrittenRight DEF During
<1>8. ASSUME NEW rules \in SUBSET Rule, SetRules(rules) PROVE FieldsInv'
  <2>1. "rules" \in Field /\ rules \in Value("rules")
    BY DEF Field, Value
  <2> QED BY <1>1, <1>4, <1>8, <2>1, WriteRight DEF SetRules
<1>9. ASSUME NEW rules \in SUBSET Rule, AddRules(rules) PROVE FieldsInv'
  BY <1>1, <1>4, <1>9, MergeRulesRight DEF AddRules
<1>10. ASSUME NEW decision \in ByModel \cup ByPattern, DetectFastControlUpdates(decision)
       PROVE  FieldsInv'
  <2> DEFINE current == Remembered(memory, "rules", DefaultRules)
             gone    == (decision.removals \ DefaultRules) \cap current
             next    == (current \ gone) \cup decision.adds
  <2>1. decision.adds \in SUBSET Rule
    BY DEF ByModel, ByPattern
  <2>2. "rules" \in Field /\ Value("rules") = SUBSET Rule /\ DefaultRules \in SUBSET Rule
    BY FieldsAssumption DEF FieldsAssumption, Field, Value
  <2>3. current \in SUBSET Rule
    BY <1>1, <2>2, ValuesTyped
  <2>4. Writes(IF gone # {} THEN Write(memory, "rules", next)
               ELSE MergeRules(memory, next))
    BY <1>10, Zenon DEF DetectFastControlUpdates, ApplyRules
  <2> HIDE DEF current
  <2>5. next \in SUBSET Rule
    BY <2>1, <2>3
  <2> HIDE DEF gone, next
  <2>6. During(Write(memory, "rules", next)) /\ During(MergeRules(memory, next))
    BY <1>1, <2>1, <2>2, <2>5, WriteRight, MergeRulesRight
  <2>7. CASE gone # {}
    BY <1>4, <2>4, <2>6, <2>7
  <2>8. CASE gone = {}
    BY <1>4, <2>4, <2>6, <2>8
  <2> QED BY <2>7, <2>8
<1>11. ASSUME NEW f \in Field, Forget(f) PROVE FieldsInv'
  <2>1. /\ memory.values[f].status = "active"
        /\ Writes(Retracted(memory, f)) \/ Writes(Erased(memory, f))
    BY <1>11 DEF Forget, Row
  <2>2. MemoryAt(Retracted(memory, f), now) /\ MemoryAt(Erased(memory, f), now)
    BY <1>1, <2>1, RetractedRight, ErasedRight
  <2> QED BY <1>3, <2>1, <2>2
<1>12. ASSUME UNCHANGED fieldVars PROVE FieldsInv'
  <2>1. memory' = memory /\ writes' = writes /\ runs' = runs
    BY <1>12 DEF fieldVars
  <2>2. MemoryAt(memory, writes) /\ writes \in 0 .. MaxWrites
    BY DEF FieldsInv, FieldsTypeOK
  <2> QED BY <1>1, <2>1, <2>2, KeptAsTyped
<1> QED BY <1>5, <1>6, <1>7, <1>8, <1>9, <1>10, <1>11, <1>12 DEF FieldsNext

\* The invariant of the fields: of each, the history ends with one interval
\* that says what the row says.
THEOREM FieldsCorrect == FieldsSpec => []FieldsInv
BY FieldsInitRight, FieldsStep, PTL DEF FieldsSpec

\* The rows, the intervals and the runs of the triggers are what they should be.
THEOREM FieldTypes == FieldsSpec => []FieldsTypeOK
<1>1. FieldsInv => FieldsTypeOK
  BY DEF FieldsInv
<1> QED BY <1>1, FieldsCorrect, PTL

LEMMA LatestAnswers ==
  ASSUME FieldsInv, NEW f \in Field
  PROVE  /\ memory.values[f].status = "none" => Newest(f, writes, writes) = {}
         /\ memory.values[f].status # "none" =>
              \E i : /\ Newest(f, writes, writes) = {i} /\ Latest(memory.history, f, i)
                     /\ memory.history[i].value = Remembered(memory, f, Gone)
<1> DEFINE h == memory.history
           row == memory.values[f]
           found == Found(f, writes, writes)
<1>1. /\ writes \in Nat /\ Tells(h, row, f) /\ row \in RowAt(writes)
      /\ \A i \in DOMAIN h : h[i] \in IntervalAt(writes)
  BY DEF FieldsInv, MemoryAt
<1>2. ASSUME NEW i \in DOMAIN h, h[i].field = f
      PROVE  i \in found <=> i \in Open(h, f)
  <2>1. h[i] \in IntervalAt(writes)
    BY <1>1
  <2>2. /\ h[i].from \in 0 .. writes /\ h[i].to \in 0 .. writes /\ h[i].known \in 1 .. writes
        /\ h[i].until \in 0 .. writes
    BY <2>1 DEF IntervalAt
  <2>3. /\ h[i].from <= writes /\ h[i].known <= writes
        /\ ~ (writes < h[i].to) /\ ~ (writes < h[i].until)
    BY <1>1, <2>2
  <2> QED BY <1>2, <2>3 DEF Found, Open, Ids
<1>3. found = Open(h, f)
  <2>1. \A i \in found : i \in DOMAIN h /\ h[i].field = f
    BY DEF Found
  <2>2. \A i \in Open(h, f) : i \in DOMAIN h /\ h[i].field = f
    BY DEF Open, Ids
  <2> QED BY <1>2, <2>1, <2>2
<1>4. ASSUME row.status = "none" PROVE Newest(f, writes, writes) = {}
  BY <1>1, <1>3, <1>4 DEF Newest, Tells, Open
<1>5. ASSUME row.status # "none"
      PROVE  \E i : /\ Newest(f, writes, writes) = {i} /\ Latest(h, f, i)
                    /\ h[i].value = Remembered(memory, f, Gone)
  <2>1. PICK i \in DOMAIN h : /\ Latest(h, f, i)
                              /\ row.status = "active" => h[i].value = row.value
                              /\ row.status = "retracted" => h[i].value = Gone
    BY <1>1, <1>5 DEF Tells
  <2>2. h[i].value = Remembered(memory, f, Gone)
    <3>1. row.status \in {"active", "retracted"}
      BY <1>1, <1>5 DEF RowAt
    <3> QED BY <2>1, <3>1 DEF Remembered, Row
  <2>3. i \in found /\ \A j \in found \ {i} : h[j].known < h[i].known
    BY <1>3, <2>1 DEF Latest
  <2>4. i \in Newest(f, writes, writes)
    <3> HIDE DEF found, h
    <3> QED BY <2>3 DEF Newest, found, h
  <2>5. ASSUME NEW k \in Newest(f, writes, writes), k # i PROVE FALSE
    <3>1. k \in found /\ (h[i].known < h[k].known \/ h[i].known = h[k].known)
      BY <2>3, <2>5 DEF Newest
    <3>2. h[k].known < h[i].known
      BY <2>3, <2>5, <3>1
    <3>3. h[i] \in IntervalAt(writes) /\ h[k] \in IntervalAt(writes)
      BY <1>1, <1>3, <2>1, <3>1 DEF Open, Ids
    <3>4. h[i].known \in 1 .. writes /\ h[k].known \in 1 .. writes
      BY <3>3 DEF IntervalAt
    <3>5. h[i].known \in Int /\ h[k].known \in Int
      BY <3>4
    <3> HIDE DEF h
    <3> QED BY <3>1, <3>2, <3>5
  <2> QED BY <2>1, <2>2, <2>4, <2>5
<1> QED BY <1>4, <1>5

\* Whatever is written, forgotten, derived and triggered, an as-of question
\* about now finds at most one interval of a field, and it says what the row says.
THEOREM HistoryTells == FieldsSpec => []HistorySaysTheValue
<1>1. FieldsInv => HistorySaysTheValue
  <2> SUFFICES ASSUME FieldsInv, NEW f \in Field
               PROVE  /\ Cardinality(Newest(f, writes, writes)) =
                           (IF Row(memory, f).status = "none" THEN 0 ELSE 1)
                      /\ \A i \in Newest(f, writes, writes) :
                           memory.history[i].value = Remembered(memory, f, Gone)
    BY DEF HistorySaysTheValue
  <2>1. CASE memory.values[f].status = "none"
    <3>1. Newest(f, writes, writes) = {}
      BY <2>1, LatestAnswers
    <3>2. Cardinality(Newest(f, writes, writes)) = 0
      BY <3>1, FS_EmptySet
    <3> QED BY <2>1, <3>1, <3>2 DEF Row
  <2>2. CASE memory.values[f].status # "none"
    <3>1. PICK i : /\ Newest(f, writes, writes) = {i}
                   /\ memory.history[i].value = Remembered(memory, f, Gone)
      BY <2>2, LatestAnswers
    <3>2. Cardinality(Newest(f, writes, writes)) = 1
      BY <3>1, FS_Singleton
    <3> QED BY <2>2, <3>1, <3>2 DEF Row
  <2> QED BY <2>1, <2>2
<1> QED BY <1>1, FieldsCorrect, PTL

-----------------------------------------------------------------------------
(***************************************************************************)
(* The repairs.                                                            *)
(***************************************************************************)

(* The refresh of a repair.  Its job is the rows of claims cs and of       *)
(* events ids; s and w are its status and where it waits, n and r the rows *)
(* of claims and of events.                                                *)

\* Who waits for the views of a standing event has read that it stands.
PlaceRight(w, ids, r) ==
  w.at = "record" => /\ w.left \cup {w.id} \subseteq ids
                     /\ r[w.id].status = "current" => w.read

\* What of the events is still to be done: all, when it has to begin again.
Todo(s, w, ids) ==
  IF s = "completed" THEN {} ELSE IF w.at = "record" THEN w.left \cup {w.id} ELSE ids

JobRight(s, w, cs, ids, n, r) ==
  /\ cs \subseteq DOMAIN n /\ ids \subseteq DOMAIN r
  /\ s = "completed" => w.at = "nowhere"
  /\ PlaceRight(w, ids, r)
  /\ w.at = "claim" => w.left \cup {w.id} \subseteq cs
  /\ \A c \in cs : n[c].status = "current" =>
       \/ n[c].embedded
       \/ s = "pending" /\ w.at = "nowhere"
       \/ w.at = "claim" /\ c \in w.left \cup {w.id}

LEMMA NowhereIsAWait == Nowhere \in Wait
BY DEF Nowhere, Wait

LEMMA AtRecordsRight ==
  ASSUME NEW r \in Seq(Record), NEW left \in SUBSET DOMAIN r, NEW o, o = AtRecords(r, left)
  PROVE  /\ o.wait \in Wait /\ o.status \in {"pending", "completed"}
         /\ o.wait.at \in {"nowhere", "record"} /\ PlaceRight(o.wait, left, r)
         /\ o.status = "completed" => left = {} /\ o.wait.at = "nowhere"
         /\ o.wait.at = "record" => o.wait.left \cup {o.wait.id} = left
         /\ o.status = "pending" => o.wait.at = "nowhere" \/ o.wait.left \cup {o.wait.id} = left
<1>1. CASE left = {}
  BY <1>1, NowhereIsAWait DEF AtRecords, Completed, Nowhere, PlaceRight
<1>2. CASE left # {}
  <2> DEFINE i == Min(left)
  <2>1. left \in SUBSET Nat
    OBVIOUS
  <2>2. i \in left /\ i \in Nat
    BY <1>2, <2>1, MinIsLeast
  <2> HIDE DEF i
  <2>3. o = IF r[i].status = "erased" THEN Failed
            ELSE Waiting("record", i, left, r[i].status = "current")
    BY <1>2 DEF AtRecords, i
  <2>4. CASE r[i].status = "erased"
    BY <2>3, <2>4, NowhereIsAWait DEF Failed, Nowhere, PlaceRight
  <2>5. CASE r[i].status # "erased"
    <3>1. /\ o.status = "pending"
          /\ o.wait = [at |-> "record", id |-> i, left |-> left \ {i}, read |-> r[i].status = "current"]
      BY <2>3, <2>5 DEF Waiting
    <3>2. o.wait \in Wait
      BY <3>1, <2>1, <2>2 DEF Wait
    <3>3. o.wait.left \cup {o.wait.id} = left
      BY <3>1, <2>2
    <3>4. o.wait.id = i /\ (r[i].status = "current" => o.wait.read)
      <4>1. o.wait.id = i
        BY <3>1
      <4>2. ASSUME r[i].status = "current" PROVE o.wait.read
        <5>1. o.wait = [at |-> "record", id |-> i, left |-> left \ {i}, read |-> TRUE]
          BY <3>1, <4>2
        <5> QED BY <5>1
      <4> QED BY <4>1, <4>2
    <3>5. PlaceRight(o.wait, left, r)
      BY <3>3, <3>4 DEF PlaceRight
    <3>6. o.wait.at = "record"
      BY <3>1
    <3> QED BY <3>1, <3>2, <3>3, <3>5, <3>6
  <2> QED BY <2>4, <2>5
<1> QED BY <1>1, <1>2

LEMMA FromRecordsRight ==
  ASSUME NEW r \in Seq(Record), NEW ids \in SUBSET DOMAIN r, NEW o, o = FromRecords(r, ids)
  PROVE  /\ o.wait \in Wait /\ o.status \in {"pending", "completed"}
         /\ o.wait.at \in {"nowhere", "record"} /\ PlaceRight(o.wait, ids, r)
         /\ o.status = "completed" => o.wait.at = "nowhere"
         /\ ids \cap Standing(r) \subseteq Todo(o.status, o.wait, ids)
<1>1. CASE \E i \in ids : r[i].status = "erased"
  <2>1. o = Failed
    BY <1>1 DEF FromRecords
  <2> QED BY <2>1, NowhereIsAWait DEF Failed, Nowhere, PlaceRight, Todo
<1>2. CASE ~ \E i \in ids : r[i].status = "erased"
  <2> DEFINE left == ids \cap Standing(r)
  <2>1. o = AtRecords(r, left) /\ left \in SUBSET DOMAIN r
    BY <1>2 DEF FromRecords
  <2> HIDE DEF left
  <2>2. /\ o.wait \in Wait /\ o.status \in {"pending", "completed"}
        /\ o.wait.at \in {"nowhere", "record"} /\ PlaceRight(o.wait, left, r)
        /\ o.status = "completed" => left = {} /\ o.wait.at = "nowhere"
        /\ o.wait.at = "record" => o.wait.left \cup {o.wait.id} = left
    BY <2>1, AtRecordsRight
  <2>3. left \subseteq ids
    BY DEF left
  <2>4. PlaceRight(o.wait, ids, r)
    BY <2>2, <2>3 DEF PlaceRight
  <2>5. left \subseteq Todo(o.status, o.wait, ids)
    BY <2>2, <2>3 DEF Todo
  <2> QED BY <2>2, <2>4, <2>5 DEF left
<1> QED BY <1>1, <1>2

\* A refresh that begins, or goes on, with claims among which are all that are
\* not embedded yet.
LEMMA FromClaimsRight ==
  ASSUME NEW n \in Seq(Naming), NEW r \in Seq(Record), NEW cs \in SUBSET DOMAIN n,
         NEW left \in SUBSET cs, NEW ids \in SUBSET DOMAIN r,
         \A c \in cs : n[c].status = "current" => n[c].embedded \/ c \in left,
         NEW o, o = FromClaims(n, r, left, ids)
  PROVE  /\ o.wait \in Wait /\ o.status \in {"pending", "completed"}
         /\ JobRight(o.status, o.wait, cs, ids, n, r)
         /\ ids \cap Standing(r) \subseteq Todo(o.status, o.wait, ids)
<1> DEFINE open == {c \in left : n[c].status # "past"}
<1>1. CASE open = {}
  <2>1. o = FromRecords(r, ids)
    BY <1>1 DEF FromClaims
  <2>2. \A c \in cs : n[c].status = "current" => n[c].embedded
    BY <1>1
  <2> QED BY <2>1, <2>2, FromRecordsRight DEF JobRight
<1>2. CASE open # {}
  <2> DEFINE i == Min(open)
  <2>1. open \in SUBSET Nat
    OBVIOUS
  <2> HIDE DEF open
  <2>2. i \in open /\ i \in Nat
    BY <1>2, <2>1, MinIsLeast
  <2> HIDE DEF i
  <2>3. o = IF n[i].status = "erased" THEN Failed ELSE Waiting("claim", i, open, FALSE)
    BY <1>2 DEF FromClaims, i, open
  <2>4. CASE n[i].status = "erased"
    <3>1. o = Failed
      BY <2>3, <2>4
    <3> QED BY <3>1, NowhereIsAWait DEF Failed, Nowhere, JobRight, PlaceRight, Todo
  <2>5. CASE n[i].status # "erased"
    <3>1. /\ o.status = "pending"
          /\ o.wait = [at |-> "claim", id |-> i, left |-> open \ {i}, read |-> FALSE]
      BY <2>3, <2>5 DEF Waiting
    <3>2. o.wait \in Wait
      <4> DEFINE rest == open \ {i}
      <4>1. rest \in SUBSET Nat /\ o.wait = [at |-> "claim", id |-> i, left |-> rest, read |-> FALSE]
        BY <2>1, <3>1
      <4> HIDE DEF rest
      <4> QED BY <2>2, <4>1 DEF Wait
    <3>3. o.wait.at = "claim" /\ o.wait.left \cup {o.wait.id} = open
      BY <3>1, <2>2
    <3>4. open \subseteq left /\ \A c \in left : n[c].status = "current" => c \in open
      BY DEF open
    <3>5. JobRight(o.status, o.wait, cs, ids, n, r)
      BY <3>1, <3>3, <3>4 DEF JobRight, PlaceRight
    <3>6. Todo(o.status, o.wait, ids) = ids
      BY <3>1 DEF Todo
    <3> QED BY <3>1, <3>2, <3>5, <3>6
  <2> QED BY <2>4, <2>5
<1> QED BY <1>1, <1>2

-----------------------------------------------------------------------------
(* Rows that were there stay, and none that ended stands again.            *)

Outlives(a, b) ==
  \A i \in DOMAIN a : i \in DOMAIN b /\ (b[i].status = "current" => a[i].status = "current")

StaysEmbedded(a, b) == \A c \in DOMAIN a : a[c].embedded => b[c].embedded

LEMMA JobStaysRight ==
  ASSUME NEW s, NEW w, NEW cs, NEW ids, NEW n, NEW r, NEW n2, NEW r2,
         JobRight(s, w, cs, ids, n, r),
         Outlives(n, n2), StaysEmbedded(n, n2), Outlives(r, r2)
  PROVE  JobRight(s, w, cs, ids, n2, r2)
<1>1. cs \subseteq DOMAIN n2 /\ ids \subseteq DOMAIN r2
  BY DEF JobRight, Outlives
<1>2. PlaceRight(w, ids, r2)
  BY DEF JobRight, PlaceRight, Outlives
<1>3. ASSUME NEW c \in cs, n2[c].status = "current"
      PROVE  \/ n2[c].embedded
             \/ s = "pending" /\ w.at = "nowhere"
             \/ w.at = "claim" /\ c \in w.left \cup {w.id}
  <2>1. c \in DOMAIN n /\ n[c].status = "current"
    BY <1>3 DEF JobRight, Outlives
  <2> QED BY <2>1 DEF JobRight, StaysEmbedded
<1> QED BY <1>1, <1>2, <1>3 DEF JobRight

-----------------------------------------------------------------------------
(* A merged entity is redirected to one that is nearer to the end: its     *)
(* distance d from there is at most the number of merged entities.         *)

Merged(e) == {x \in Entity : e[x] = "merged"}

Leads(d, e, rd) ==
  \A x \in Entity :
    /\ d[x] <= Cardinality(Merged(e))
    /\ e[x] = "merged" => rd[x] \in Entity /\ e[rd[x]] # "none" /\ d[rd[x]] < d[x]

RedirectInv(e, rd) == \E d \in [Entity -> Nat] : Leads(d, e, rd)

LEMMA MergedAreFinite ==
  ASSUME NEW e
  PROVE  /\ IsFiniteSet(Merged(e)) /\ Cardinality(Merged(e)) \in Nat
         /\ Cardinality(Entity) \in Nat /\ Cardinality(Merged(e)) <= Cardinality(Entity)
<1>1. IsFiniteSet(Entity) /\ Merged(e) \in SUBSET Entity
  BY EntityRepairAssumption DEF EntityRepairAssumption, Merged
<1> QED BY <1>1, FS_Subset, FS_CardinalityType

\* Following the redirects ends at an entity that is not merged.
LEMMA ResolvesRight ==
  ASSUME entities \in [Entity -> {"none", "active", "merged"}], RedirectInv(entities, redirect),
         NEW x \in Entity
  PROVE  /\ Resolved(x) \in Entity
         /\ entities[x] # "none" => entities[Resolved(x)] = "active"
<1> DEFINE N == Cardinality(Entity)
           Right(f) == f = [n \in 0 .. N |-> IF n = 0 THEN x
                                             ELSE IF entities[f[n - 1]] = "merged"
                                                  THEN redirect[f[n - 1]] ELSE f[n - 1]]
           after == CHOOSE f : Right(f)
           step == [m \in Nat |->
                      [y \in Entity |-> IF entities[y] = "merged" THEN redirect[y] ELSE y]]
<1>1. Resolved(x) = after[N]
  BY DEF Resolved
<1>2. N \in Nat /\ Cardinality(Merged(entities)) \in Nat /\ Cardinality(Merged(entities)) <= N
  BY MergedAreFinite
<1>3. PICK d \in [Entity -> Nat] : Leads(d, entities, redirect)
  BY DEF RedirectInv
<1>4. step \in [Nat -> [Entity -> Entity]]
  BY <1>3 DEF Leads
<1> HIDE DEF N
<1>5. PICK f \in [0 .. N -> Entity] : Iterated(f, x, step, N)
  <2> HIDE DEF step
  <2> QED BY <1>2, <1>4, Iterates
<1>6. Right(f)
  <2>1. \A n \in 0 .. N : n # 0 => n - 1 \in 0 .. N /\ n \in 1 .. N
    BY <1>2
  <2>2. ASSUME NEW n \in 0 .. N, n # 0
        PROVE  f[n] = IF entities[f[n - 1]] = "merged" THEN redirect[f[n - 1]] ELSE f[n - 1]
    <3>1. n \in 1 .. N /\ n \in Nat /\ f[n - 1] \in Entity
      BY <1>2, <2>1, <2>2
    <3>2. f[n] = step[n][f[n - 1]]
      BY <1>5, <3>1 DEF Iterated
    <3> QED BY <3>1, <3>2
  <2> HIDE DEF step
  <2> QED BY <1>5, <2>2 DEF Iterated
<1>7. Right(after)
  <2> HIDE DEF Right
  <2> QED BY <1>6
<1> HIDE DEF after
<1> DEFINE Good(n) == /\ after[n] \in Entity
                      /\ entities[x] # "none" => entities[after[n]] # "none"
                      /\ entities[after[n]] = "merged" => d[after[n]] + n <= d[x]
           T == {n \in Nat : n <= N => Good(n)}
<1>8. 0 \in T
  <2>1. after[0] = x
    BY <1>2, <1>7
  <2>2. d[x] \in Nat
    BY <1>3
  <2> QED BY <2>1, <2>2
<1>9. ASSUME NEW n \in Nat, n \in T PROVE n + 1 \in T
  <2> SUFFICES ASSUME n + 1 <= N PROVE Good(n + 1)
    OBVIOUS
  <2>1. Good(n)
    BY <1>2, <1>9
  <2>2. after[n + 1] = IF entities[after[n]] = "merged" THEN redirect[after[n]] ELSE after[n]
    <3>1. n + 1 \in 0 .. N /\ n + 1 # 0 /\ (n + 1) - 1 = n
      BY <1>2
    <3>2. \A m \in 0 .. N : after[m] = IF m = 0 THEN x
                                       ELSE IF entities[after[m - 1]] = "merged"
                                            THEN redirect[after[m - 1]] ELSE after[m - 1]
      BY <1>7
    <3> QED BY <3>1, <3>2
  <2>3. CASE entities[after[n]] = "merged"
    <3> DEFINE y == after[n]
               z == redirect[y]
    <3>1. y \in Entity /\ d[y] + n <= d[x] /\ after[n + 1] = z
      BY <2>1, <2>2, <2>3
    <3>2. z \in Entity /\ entities[z] # "none" /\ d[z] < d[y]
      BY <1>3, <2>3, <3>1 DEF Leads
    <3>3. d[z] \in Nat /\ d[y] \in Nat /\ d[x] \in Nat
      BY <1>3, <3>1, <3>2
    <3> HIDE DEF y, z
    <3>4. d[z] + (n + 1) <= d[x]
      BY <3>1, <3>2, <3>3
    <3> QED BY <3>1, <3>2, <3>4
  <2>4. CASE entities[after[n]] # "merged"
    BY <2>1, <2>2, <2>4
  <2> QED BY <2>3, <2>4
<1> HIDE DEF T
<1>10. N \in T
  BY <1>2, <1>8, <1>9, SetInduction
<1>11. Good(N)
  BY <1>2, <1>10 DEF T
<1>12. entities[after[N]] # "merged"
  <2> SUFFICES ASSUME entities[after[N]] = "merged" PROVE FALSE
    OBVIOUS
  <2> DEFINE y == after[N]
             z == redirect[y]
  <2>1. y \in Entity /\ entities[y] = "merged" /\ d[y] + N <= d[x]
    BY <1>11
  <2>2. z \in Entity /\ d[z] < d[y] /\ d[x] <= Cardinality(Merged(entities))
    BY <1>3, <2>1 DEF Leads
  <2>3. d[z] \in Nat /\ d[y] \in Nat /\ d[x] \in Nat
    BY <1>3, <2>1, <2>2
  <2> HIDE DEF y, z
  <2> QED BY <1>2, <2>1, <2>2, <2>3
<1> QED BY <1>1, <1>11, <1>12

\* The distances after a merge: all merged entities are one step farther.
LEMMA MergesLead ==
  ASSUME NEW e \in [Entity -> {"none", "active", "merged"}], NEW rd, RedirectInv(e, rd),
         NEW from \in SUBSET Entity, NEW target \in Entity \ from,
         from # {}, e[target] = "active", \A x \in from : e[x] = "active",
         NEW e2, e2 = [x \in Entity |-> IF x \in from THEN "merged" ELSE e[x]],
         NEW rd2, rd2 = [x \in Entity |-> IF x \in from THEN target ELSE rd[x]]
  PROVE  RedirectInv(e2, rd2)
<1>1. PICK d \in [Entity -> Nat] : Leads(d, e, rd)
  BY DEF RedirectInv
<1> DEFINE d2 == [x \in Entity |-> IF e2[x] = "merged" THEN (IF x \in from THEN 1 ELSE d[x] + 1)
                                   ELSE 0]
<1>2. d2 \in [Entity -> Nat]
  BY <1>1
<1>3. /\ Cardinality(Merged(e)) \in Nat /\ Cardinality(Merged(e2)) \in Nat
      /\ Cardinality(Merged(e)) + 1 <= Cardinality(Merged(e2))
  <2>1. PICK y \in from : TRUE
    OBVIOUS
  <2>2. y \notin Merged(e) /\ Merged(e) \cup {y} \in SUBSET Merged(e2)
    BY <2>1 DEF Merged
  <2>3. IsFiniteSet(Merged(e)) /\ IsFiniteSet(Merged(e2))
    BY MergedAreFinite
  <2>4. Cardinality(Merged(e) \cup {y}) = Cardinality(Merged(e)) + 1
    BY <2>2, <2>3, FS_AddElement
  <2>5. Cardinality(Merged(e) \cup {y}) <= Cardinality(Merged(e2))
    BY <2>2, <2>3, FS_Subset
  <2> QED BY <2>3, <2>4, <2>5, FS_CardinalityType
<1>4. ASSUME NEW x \in Entity
      PROVE  /\ d2[x] <= Cardinality(Merged(e2))
             /\ e2[x] = "merged" => rd2[x] \in Entity /\ e2[rd2[x]] # "none" /\ d2[rd2[x]] < d2[x]
  <2>1. d[x] \in Nat /\ d[x] <= Cardinality(Merged(e))
    BY <1>1 DEF Leads
  <2>2. d2[x] \in Nat /\ d2[x] <= d[x] + 1
    BY <2>1
  <2>3. d2[x] <= Cardinality(Merged(e2))
    BY <1>3, <2>1, <2>2
  <2>4. CASE x \in from
    <3>1. rd2[x] = target /\ d2[x] = 1 /\ e2[target] = "active" /\ d2[target] = 0
      BY <2>4
    <3> QED BY <2>3, <3>1
  <2>5. CASE x \notin from /\ e[x] = "merged"
    <3>1. rd2[x] = rd[x] /\ d2[x] = d[x] + 1
      BY <2>5
    <3>2. rd[x] \in Entity /\ e[rd[x]] # "none" /\ d[rd[x]] < d[x] /\ d[rd[x]] \in Nat
      BY <1>1, <2>5 DEF Leads
    <3>3. e2[rd[x]] # "none" /\ d2[rd[x]] <= d[rd[x]] + 1 /\ d2[rd[x]] \in Nat
      BY <3>2
    <3> HIDE DEF d2
    <3> QED BY <2>1, <2>3, <3>1, <3>2, <3>3
  <2>6. CASE x \notin from /\ e[x] # "merged"
    BY <2>3, <2>6
  <2> QED BY <2>4, <2>5, <2>6
<1> HIDE DEF d2
<1> QED BY <1>2, <1>4 DEF RedirectInv, Leads

-----------------------------------------------------------------------------
(* What the operations on rows keep.                                       *)

LEMMA DeactivatedRight ==
  ASSUME NEW rows \in Seq(Record), NEW ids, NEW g, g = Deactivated(rows, ids)
  PROVE  /\ g \in Seq(Record) /\ Len(g) = Len(rows) /\ DOMAIN g = DOMAIN rows
         /\ \A i \in DOMAIN rows :
              /\ g[i].status = rows[i].status /\ g[i].storing = rows[i].storing
              /\ g[i].read = rows[i].read
              /\ i \notin ids => g[i] = rows[i]
<1>1. \A i \in DOMAIN rows : rows[i] \in Record
  OBVIOUS
<1>2. \A i \in DOMAIN rows : g[i] = IF i \in ids /\ rows[i].views = "active"
                                    THEN [rows[i] EXCEPT !.views = "inactive"] ELSE rows[i]
  BY DEF Deactivated
<1>3. \A i \in DOMAIN rows :
        /\ g[i] \in Record
        /\ g[i].status = rows[i].status /\ g[i].storing = rows[i].storing
        /\ g[i].read = rows[i].read
        /\ i \notin ids => g[i] = rows[i]
  <2> TAKE i \in DOMAIN rows
  <2>1. rows[i] \in Record
    BY <1>1
  <2> DEFINE off == [rows[i] EXCEPT !.views = "inactive"]
  <2>2. /\ off \in Record /\ off.status = rows[i].status
        /\ off.storing = rows[i].storing /\ off.read = rows[i].read
    BY <2>1 DEF Record
  <2>3. g[i] = IF i \in ids /\ rows[i].views = "active" THEN off ELSE rows[i]
    BY <1>2
  <2> HIDE DEF off
  <2> QED BY <2>1, <2>2, <2>3
<1>4. g = [i \in DOMAIN rows |-> g[i]] /\ DOMAIN g = DOMAIN rows
  BY DEF Deactivated
<1>5. g \in Seq(Record) /\ Len(g) = Len(rows)
  BY <1>3, <1>4, RowByRow
<1> QED BY <1>3, <1>4, <1>5

LEMMA PassedRecords ==
  ASSUME NEW rows \in Seq(Record), NEW ids, NEW g, g = Passed(rows, ids)
  PROVE  /\ g \in Seq(Record) /\ Len(g) = Len(rows) /\ DOMAIN g = DOMAIN rows
         /\ \A i \in DOMAIN rows : IF i \in ids THEN g[i].status = "past" ELSE g[i] = rows[i]
<1>1. \A i \in DOMAIN rows : rows[i] \in Record
  OBVIOUS
<1>2. \A i \in DOMAIN rows : g[i] = IF i \in ids THEN [rows[i] EXCEPT !.status = "past"] ELSE rows[i]
  BY DEF Passed
<1>3. \A i \in DOMAIN rows : /\ g[i] \in Record
                             /\ IF i \in ids THEN g[i].status = "past" ELSE g[i] = rows[i]
  <2> TAKE i \in DOMAIN rows
  <2>1. rows[i] \in Record
    BY <1>1
  <2> DEFINE past == [rows[i] EXCEPT !.status = "past"]
  <2>2. past \in Record /\ past.status = "past"
    BY <2>1 DEF Record
  <2>3. g[i] = IF i \in ids THEN past ELSE rows[i]
    BY <1>2
  <2> HIDE DEF past
  <2> QED BY <2>1, <2>2, <2>3
<1>4. g = [i \in DOMAIN rows |-> g[i]] /\ DOMAIN g = DOMAIN rows
  BY DEF Passed
<1>5. g \in Seq(Record) /\ Len(g) = Len(rows)
  BY <1>3, <1>4, RowByRow
<1> QED BY <1>3, <1>4, <1>5

LEMMA PassedNamings ==
  ASSUME NEW rows \in Seq(Naming), NEW ids, NEW g, g = Passed(rows, ids)
  PROVE  /\ g \in Seq(Naming) /\ Len(g) = Len(rows) /\ DOMAIN g = DOMAIN rows
         /\ \A i \in DOMAIN rows :
              /\ g[i].embedded = rows[i].embedded /\ g[i].record = rows[i].record
              /\ IF i \in ids THEN g[i].status = "past" ELSE g[i] = rows[i]
<1>1. \A i \in DOMAIN rows : rows[i] \in Naming
  OBVIOUS
<1>2. \A i \in DOMAIN rows : g[i] = IF i \in ids THEN [rows[i] EXCEPT !.status = "past"] ELSE rows[i]
  BY DEF Passed
<1>3. \A i \in DOMAIN rows : /\ g[i] \in Naming
                             /\ g[i].embedded = rows[i].embedded /\ g[i].record = rows[i].record
                             /\ IF i \in ids THEN g[i].status = "past" ELSE g[i] = rows[i]
  BY <1>1, <1>2 DEF Naming
<1>4. g = [i \in DOMAIN rows |-> g[i]] /\ DOMAIN g = DOMAIN rows
  BY DEF Passed
<1>5. g \in Seq(Naming) /\ Len(g) = Len(rows)
  BY <1>3, <1>4, RowByRow
<1> QED BY <1>3, <1>4, <1>5

LEMMA ViewedRight ==
  ASSUME NEW rows \in Seq(Record), NEW i \in DOMAIN rows, NEW read \in BOOLEAN,
         NEW g, g = Viewed(rows, i, read)
  PROVE  /\ g \in Seq(Record) /\ Len(g) = Len(rows) /\ DOMAIN g = DOMAIN rows
         /\ \A j \in DOMAIN rows \ {i} : g[j] = rows[j]
         /\ g[i].status = rows[i].status /\ g[i].storing = rows[i].storing
         /\ g[i].read = rows[i].read
         /\ read => g[i].views = "active"
<1>1. \A j \in DOMAIN rows : rows[j] \in Record
  OBVIOUS
<1>2. DOMAIN g = DOMAIN rows /\ g = [j \in DOMAIN rows |-> g[j]]
  BY DEF Viewed
<1>3. \A j \in DOMAIN rows \ {i} : g[j] = rows[j]
  BY DEF Viewed
<1>4. g[i] = [rows[i] EXCEPT !.views = IF read THEN "active" ELSE "inactive"]
  BY <1>1 DEF Viewed
<1>5. /\ g[i] \in Record /\ g[i].status = rows[i].status /\ g[i].storing = rows[i].storing
      /\ g[i].read = rows[i].read /\ (read => g[i].views = "active")
  BY <1>1, <1>4 DEF Record
<1>6. g \in Seq(Record) /\ Len(g) = Len(rows)
  BY <1>1, <1>2, <1>3, <1>5, RowByRow
<1> QED BY <1>2, <1>3, <1>5, <1>6

-----------------------------------------------------------------------------
(* The invariant.                                                          *)

ReadRight(row) == row.storing = "views" /\ row.status = "current" => row.read

IsFound(row) == row.views = "active" \/ row.storing # "no"

WalkInv(w, r) ==
  w.at \in {"nowhere", "record"} /\ PlaceRight(w, DOMAIN r, r)

JobInv(k) ==
  JobRight(repairs[k].status, refresh[k], repairs[k].claims, repairs[k].records, named, records)

\* The event waits for repair k.
Awaits(i, k) == i \in Todo(repairs[k].status, refresh[k], repairs[k].records)

CoverInv ==
  \A i \in Standing(records) : IsFound(records[i]) \/ \E k \in DOMAIN repairs : Awaits(i, k)

RepairInv ==
  /\ RepairTypeOK
  /\ RedirectInv(entities, redirect)
  /\ WalkInv(walk, records)
  /\ \A i \in DOMAIN records : ReadRight(records[i])
  /\ \A k \in DOMAIN repairs : JobInv(k)
  /\ CoverInv

LEMMA RepairProperties == RepairInv => NothingLeftUnindexed /\ MergedEntitiesResolve
<1> SUFFICES ASSUME RepairInv PROVE NothingLeftUnindexed /\ MergedEntitiesResolve
  OBVIOUS
<1>1. MergedEntitiesResolve
  BY ResolvesRight DEF RepairInv, RepairTypeOK, MergedEntitiesResolve
<1>2. ASSUME NEW i \in Standing(records)
      PROVE  \/ records[i].views = "active" \/ records[i].storing # "no"
             \/ \E k \in DOMAIN repairs : repairs[k].status = "pending" /\ i \in repairs[k].records
  <2>1. ASSUME NEW k \in DOMAIN repairs, Awaits(i, k)
        PROVE  repairs[k].status = "pending" /\ i \in repairs[k].records
    <3>1. repairs[k] \in Repair
      BY DEF RepairInv, RepairTypeOK
    <3>2. JobInv(k)
      BY DEF RepairInv
    <3> QED BY <2>1, <3>1, <3>2 DEF Awaits, Todo, JobInv, JobRight, PlaceRight, Repair
  <2> QED BY <2>1 DEF RepairInv, CoverInv, IsFound
<1>3. ASSUME NEW k \in DOMAIN repairs, repairs[k].status = "completed",
             NEW c \in repairs[k].claims \cap Standing(named)
      PROVE  named[c].embedded
  <2>1. JobInv(k) /\ named[c].status = "current"
    BY DEF RepairInv, Standing
  <2> QED BY <1>3, <2>1 DEF JobInv, JobRight
<1> QED BY <1>1, <1>2, <1>3 DEF NothingLeftUnindexed

LEMMA RepairInitRight == RepairInit => RepairInv
<1> SUFFICES ASSUME RepairInit PROVE RepairInv
  OBVIOUS
<1>1. RepairTypeOK
  BY EntityRepairAssumption, NowhereIsAWait DEF RepairInit, RepairTypeOK, EntityRepairAssumption
<1>2. RedirectInv(entities, redirect)
  <2>1. [x \in Entity |-> 0] \in [Entity -> Nat]
    OBVIOUS
  <2>2. Cardinality(Merged(entities)) \in Nat
    BY MergedAreFinite
  <2>3. Leads([x \in Entity |-> 0], entities, redirect)
    BY <2>2 DEF RepairInit, Leads
  <2> QED BY <2>1, <2>3 DEF RedirectInv
<1> QED BY <1>1, <1>2 DEF RepairInit, RepairInv, WalkInv, PlaceRight, Nowhere, CoverInv, Standing

\* What a step has to show.
LEMMA KeepsRight ==
  ASSUME RepairInv, RepairTypeOK', RedirectInv(entities', redirect'),
         Outlives(records, records'), Outlives(named, named'), StaysEmbedded(named, named'),
         UNCHANGED walk \/ WalkInv(walk', records'),
         \A i \in DOMAIN records' : ReadRight(records'[i]),
         \A k \in DOMAIN repairs' :
           \/ k \in DOMAIN repairs /\ repairs'[k] = repairs[k] /\ refresh'[k] = refresh[k]
           \/ JobInv(k)',
         CoverInv'
  PROVE  RepairInv'
<1>1. WalkInv(walk', records')
  <2>1. CASE UNCHANGED walk
    BY <2>1 DEF RepairInv, WalkInv, PlaceRight, Outlives
  <2> QED BY <2>1
<1>2. ASSUME NEW k \in DOMAIN repairs' PROVE JobInv(k)'
  <2>1. CASE k \in DOMAIN repairs /\ repairs'[k] = repairs[k] /\ refresh'[k] = refresh[k]
    <3>1. JobInv(k)
      BY <2>1 DEF RepairInv
    <3> QED BY <2>1, <3>1, JobStaysRight DEF JobInv
  <2> QED BY <2>1
<1> QED BY <1>1, <1>2 DEF RepairInv

\* Events that were found are found, and so are new ones, while repairs wait.
LEMMA StaysCovered ==
  ASSUME RepairInv, UNCHANGED <<repairs, refresh>>, Outlives(records, records'),
         \A i \in Standing(records') : \/ IsFound(records'[i])
                                       \/ i \in DOMAIN records /\ ~ IsFound(records[i])
  PROVE  CoverInv'
<1> SUFFICES ASSUME NEW i \in Standing(records'), ~ IsFound(records'[i])
             PROVE  \E k \in DOMAIN repairs : Awaits(i, k)'
  BY DEF CoverInv
<1>1. i \in DOMAIN records /\ records'[i].status = "current" /\ ~ IsFound(records[i])
  BY DEF Standing
<1>2. i \in Standing(records)
  BY <1>1 DEF Outlives, Standing
<1>3. PICK k \in DOMAIN repairs : Awaits(i, k)
  BY <1>1, <1>2 DEF RepairInv, CoverInv
<1> QED BY <1>3 DEF Awaits

-----------------------------------------------------------------------------
(* The steps.                                                              *)

LEMMA BoundsAreNumbers ==
  MaxEvents \in Nat /\ MaxClaims \in Nat /\ MaxRepairs \in Nat /\ MaxRequests \in Nat
BY EntityRepairAssumption DEF EntityRepairAssumption

LEMMA RequestsTyped ==
  ASSUME RepairTypeOK, Requests
  PROVE  requests' \in 0 .. MaxRequests
BY BoundsAreNumbers DEF RepairTypeOK, Requests

\* A set that is turned into a sequence.
LEMMA SetToSeqRight ==
  ASSUME NEW S, IsFiniteSet(S)
  PROVE  /\ SetToSeq(S) \in Seq(S) /\ Len(SetToSeq(S)) = Cardinality(S)
         /\ DOMAIN SetToSeq(S) = 1 .. Cardinality(S)
<1>1. Cardinality(S) \in Nat /\ ExistsBijection(1 .. Cardinality(S), S)
  BY FS_CardinalityType
<1>2. PICK f \in Bijection(1 .. Cardinality(S), S) : TRUE
  BY <1>1 DEF ExistsBijection
<1>3. f \in [1 .. Cardinality(S) -> S] /\ IsInjective(f)
  BY <1>2 DEF Bijection, Injection, IsInjective
<1>4. SetToSeq(S) \in [1 .. Cardinality(S) -> S]
  BY <1>3 DEF SetToSeq
<1> QED BY <1>1, <1>4

\* The claims that are told: at most one for each of the entities they are about.
ToldRow(x, id) == [entity |-> x, record |-> id, status |-> "current", embedded |-> FALSE]

AllOfRecord(rows, id) == \A i \in DOMAIN rows : rows[i].record = id

ToldRows(about, id) == SetToSeq({ToldRow(x, id) : x \in {Resolved(y) : y \in about}})

LEMMA ToldClaimsRight ==
  ASSUME NEW about \in SUBSET Entity, \A x \in about : Resolved(x) \in Entity,
         NEW id \in 1 .. MaxEvents, NEW rows, rows = ToldRows(about, id)
  PROVE  /\ rows \in Seq(Naming) /\ Len(rows) <= Cardinality(about)
         /\ AllOfRecord(rows, id)
         /\ Cardinality(about) \in Nat
<1> DEFINE T == {ToldRow(x, id) : x \in {Resolved(y) : y \in about}}
           f == [y \in about |-> ToldRow(Resolved(y), id)]
<1>1. IsFiniteSet(about) /\ Cardinality(about) \in Nat
  BY EntityRepairAssumption, FS_Subset, FS_CardinalityType DEF EntityRepairAssumption
<1>2. f \in Surjection(about, T)
  BY DEF Surjection
<1>3. \A t \in T : t \in Naming /\ t.record = id
  <2> SUFFICES ASSUME NEW t \in T PROVE t \in Naming /\ t.record = id
    OBVIOUS
  <2>1. PICK y \in about : t = ToldRow(Resolved(y), id)
    OBVIOUS
  <2>2. Resolved(y) \in Entity /\ id \in 0 .. MaxEvents
    BY BoundsAreNumbers
  <2> QED BY <2>1, <2>2 DEF ToldRow, Naming
<1> HIDE DEF T, f
<1>4. IsFiniteSet(T) /\ Cardinality(T) <= Cardinality(about)
  BY <1>1, <1>2, FS_Surjection
<1>5. rows \in Seq(T) /\ Len(rows) = Cardinality(T)
  BY <1>4, SetToSeqRight DEF T, ToldRows
<1>6. \A i \in DOMAIN rows : rows[i] \in T
  BY <1>5
<1>7. rows \in Seq(Naming)
  BY <1>3, <1>5, <1>6
<1>8. AllOfRecord(rows, id)
  BY <1>3, <1>6 DEF AllOfRecord
<1> QED BY <1>1, <1>4, <1>5, <1>7, <1>8

LEMMA EmbedRecordRight ==
  ASSUME RepairInv, NEW i \in DOMAIN records, EmbedRecord(i)
  PROVE  RepairInv'
<1> DEFINE row == records[i]
<1>0. RepairTypeOK /\ row \in Record /\ row.storing = "embedding"
  BY DEF RepairInv, RepairTypeOK, EmbedRecord
<1>1. /\ records' = [records EXCEPT ![i] = records'[i]] /\ DOMAIN records' = DOMAIN records
      /\ records'[i] = [row EXCEPT !.storing = IF row.status = "erased" THEN "lost" ELSE "views",
                                   !.read = row.status = "current"]
  BY <1>0 DEF EmbedRecord, Record
<1>2. /\ records'[i] \in Record /\ records'[i].status = row.status
      /\ records'[i].storing \in {"lost", "views"}
      /\ records'[i].status = "current" => records'[i].read
  BY <1>0, <1>1 DEF Record, Storing
<1>3. \A j \in DOMAIN records : j # i => records'[j] = records[j]
  BY <1>1
<1>4. records' \in Seq(Record) /\ Len(records') = Len(records)
  <2>1. \A j \in DOMAIN records : records'[j] \in Record
    BY <1>0, <1>2, <1>3 DEF RepairTypeOK
  <2>2. records' = [j \in DOMAIN records |-> records'[j]]
    BY <1>1
  <2> QED BY <1>0, <1>1, <2>1, <2>2, RowByRow DEF RepairTypeOK
<1>5. RepairTypeOK'
  BY <1>0, <1>1, <1>4 DEF EmbedRecord, RepairTypeOK
<1>6. Outlives(records, records')
  BY <1>1, <1>2, <1>3 DEF Outlives
<1>7. \A j \in DOMAIN records' : ReadRight(records'[j])
  BY <1>1, <1>2, <1>3 DEF RepairInv, ReadRight
<1>8. CoverInv'
  <2>1. \A j \in Standing(records') : \/ IsFound(records'[j])
                                      \/ j \in DOMAIN records /\ ~ IsFound(records[j])
    BY <1>1, <1>2, <1>3 DEF Standing, IsFound
  <2> QED BY <1>6, <2>1, StaysCovered DEF EmbedRecord
<1> QED
  BY <1>5, <1>6, <1>7, <1>8, KeepsRight
     DEF EmbedRecord, RepairInv, Outlives, StaysEmbedded

LEMMA ViewRecordRight ==
  ASSUME RepairInv, NEW i \in DOMAIN records, ViewRecord(i)
  PROVE  RepairInv'
<1> DEFINE row == records[i]
           mid == [records EXCEPT ![i].storing = "no", ![i].read = FALSE]
<1>0. RepairTypeOK /\ row \in Record /\ row.storing = "views" /\ ReadRight(row)
  BY DEF RepairInv, RepairTypeOK, ViewRecord
<1>1. /\ mid = [records EXCEPT ![i] = mid[i]] /\ DOMAIN mid = DOMAIN records
      /\ mid[i] = [row EXCEPT !.storing = "no", !.read = FALSE]
  BY <1>0 DEF Record
<1>2. mid[i] \in Record /\ mid[i].status = row.status /\ mid[i].storing = "no"
  BY <1>0, <1>1 DEF Record, Storing
<1>3. \A j \in DOMAIN records : j # i => mid[j] = records[j]
  OBVIOUS
<1> HIDE DEF mid
<1>4. mid \in Seq(Record) /\ Len(mid) = Len(records)
  <2>1. \A j \in DOMAIN records : mid[j] \in Record
    BY <1>0, <1>2, <1>3 DEF RepairTypeOK
  <2>2. mid = [j \in DOMAIN records |-> mid[j]]
    BY <1>1
  <2> QED BY <1>0, <1>1, <2>1, <2>2, RowByRow DEF RepairTypeOK
<1>5. row.read \in BOOLEAN /\ records' = Viewed(mid, i, row.read)
  BY <1>0 DEF ViewRecord, mid, Record
<1>6. /\ records' \in Seq(Record) /\ Len(records') = Len(records) /\ DOMAIN records' = DOMAIN records
      /\ \A j \in DOMAIN records \ {i} : records'[j] = records[j]
      /\ records'[i].status = row.status /\ records'[i].storing = "no"
      /\ row.read => records'[i].views = "active"
  <2>1. i \in DOMAIN mid
    BY <1>1
  <2>2. /\ records' \in Seq(Record) /\ Len(records') = Len(mid) /\ DOMAIN records' = DOMAIN mid
        /\ \A j \in DOMAIN mid \ {i} : records'[j] = mid[j]
        /\ records'[i].status = mid[i].status /\ records'[i].storing = mid[i].storing
        /\ row.read => records'[i].views = "active"
    BY <1>4, <1>5, <2>1, ViewedRight
  <2> QED BY <1>1, <1>2, <1>3, <1>4, <2>2
<1>7. RepairTypeOK'
  BY <1>0, <1>6 DEF ViewRecord, RepairTypeOK
<1>8. Outlives(records, records')
  BY <1>6 DEF Outlives
<1>9. \A j \in DOMAIN records' : ReadRight(records'[j])
  BY <1>6 DEF RepairInv, ReadRight
<1>10. CoverInv'
  <2>1. \A j \in Standing(records') : \/ IsFound(records'[j])
                                      \/ j \in DOMAIN records /\ ~ IsFound(records[j])
    BY <1>0, <1>6 DEF Standing, IsFound, ReadRight
  <2> QED BY <1>8, <2>1, StaysCovered DEF ViewRecord
<1> QED
  BY <1>7, <1>8, <1>9, <1>10, KeepsRight
     DEF ViewRecord, RepairInv, Outlives, StaysEmbedded

LEMMA EraseRecordRight ==
  ASSUME RepairInv, NEW i \in DOMAIN records, EraseRecord(i)
  PROVE  RepairInv'
<1> DEFINE row == records[i]
<1>0. RepairTypeOK /\ row \in Record
  BY DEF RepairInv, RepairTypeOK
<1>1. /\ records' = [records EXCEPT ![i] = records'[i]] /\ DOMAIN records' = DOMAIN records
      /\ records'[i] = [row EXCEPT !.status = "erased", !.links = {}, !.derived = {}]
  BY <1>0 DEF EraseRecord, Record
<1>2. records'[i] \in Record /\ records'[i].status = "erased"
  BY <1>0, <1>1 DEF Record
<1>3. \A j \in DOMAIN records : j # i => records'[j] = records[j]
  BY <1>1
<1>4. records' \in Seq(Record) /\ Len(records') = Len(records)
  <2>0. \A j \in DOMAIN records : records[j] \in Record
    BY <1>0 DEF RepairTypeOK
  <2>1. \A j \in DOMAIN records : records'[j] \in Record
    BY <1>2, <1>3, <2>0
  <2>2. records' = [j \in DOMAIN records |-> records'[j]]
    BY <1>1
  <2> QED BY <1>0, <1>1, <2>1, <2>2, RowByRow DEF RepairTypeOK
<1>5. /\ named' \in Seq(Naming) /\ Len(named') = Len(named) /\ DOMAIN named' = DOMAIN named
      /\ \A c \in DOMAIN named : /\ named'[c].record = named[c].record
                                 /\ named'[c].embedded = named[c].embedded
                                 /\ named'[c].status = "current" => named[c].status = "current"
  <2>1. \A c \in DOMAIN named : named[c] \in Naming
    BY <1>0 DEF RepairTypeOK
  <2>2. \A c \in DOMAIN named : named'[c] = IF named[c].record = i
                                  THEN [named[c] EXCEPT !.status = "erased"] ELSE named[c]
    BY DEF EraseRecord
  <2>3. \A c \in DOMAIN named :
          /\ named'[c] \in Naming /\ named'[c].record = named[c].record
          /\ named'[c].embedded = named[c].embedded
          /\ named'[c].status = "current" => named[c].status = "current"
    BY <2>1, <2>2 DEF Naming
  <2>4. DOMAIN named' = DOMAIN named /\ named' = [c \in DOMAIN named |-> named'[c]]
    BY DEF EraseRecord
  <2> QED BY <1>0, <2>3, <2>4, RowByRow DEF RepairTypeOK
<1>6. RepairTypeOK'
  BY <1>0, <1>1, <1>4, <1>5, RequestsTyped DEF EraseRecord, RepairTypeOK
<1>7. Outlives(records, records') /\ Outlives(named, named') /\ StaysEmbedded(named, named')
  BY <1>1, <1>2, <1>3, <1>5 DEF Outlives, StaysEmbedded
<1>8. \A j \in DOMAIN records' : ReadRight(records'[j])
  BY <1>1, <1>2, <1>3 DEF RepairInv, ReadRight
<1>9. CoverInv'
  <2>1. \A j \in Standing(records') : \/ IsFound(records'[j])
                                      \/ j \in DOMAIN records /\ ~ IsFound(records[j])
    BY <1>1, <1>2, <1>3 DEF Standing, IsFound
  <2> QED BY <1>7, <2>1, StaysCovered DEF EraseRecord
<1> QED
  BY <1>6, <1>7, <1>8, <1>9, KeepsRight DEF EraseRecord, RepairInv

LEMMA EraseNamingRight ==
  ASSUME RepairInv, NEW c \in DOMAIN named, EraseNaming(c)
  PROVE  RepairInv'
<1>0. RepairTypeOK /\ named[c] \in Naming
  BY DEF RepairInv, RepairTypeOK
<1>1. /\ DOMAIN named' = DOMAIN named /\ named' = [d \in DOMAIN named |-> named'[d]]
      /\ named'[c] = [named[c] EXCEPT !.status = "erased"]
      /\ \A d \in DOMAIN named : d # c => named'[d] = named[d]
  BY DEF EraseNaming
<1>2. \A d \in DOMAIN named :
        /\ named'[d] \in Naming /\ named'[d].record = named[d].record
        /\ named'[d].embedded = named[d].embedded
        /\ named'[d].status = "current" => named[d].status = "current"
  <2>1. \A d \in DOMAIN named : named[d] \in Naming
    BY <1>0 DEF RepairTypeOK
  <2>2. /\ named'[c] \in Naming /\ named'[c].record = named[c].record
        /\ named'[c].embedded = named[c].embedded /\ named'[c].status = "erased"
    BY <1>0, <1>1 DEF Naming
  <2> QED BY <1>1, <2>1, <2>2
<1>3. named' \in Seq(Naming) /\ Len(named') = Len(named)
  BY <1>0, <1>1, <1>2, RowByRow DEF RepairTypeOK
<1>4. RepairTypeOK'
  BY <1>0, <1>1, <1>2, <1>3, RequestsTyped DEF EraseNaming, RepairTypeOK
<1>5. Outlives(records, records') /\ Outlives(named, named') /\ StaysEmbedded(named, named')
  BY <1>1, <1>2 DEF EraseNaming, Outlives, StaysEmbedded
<1>6. CoverInv'
  <2>1. \A j \in Standing(records') : \/ IsFound(records'[j])
                                      \/ j \in DOMAIN records /\ ~ IsFound(records[j])
    BY DEF EraseNaming, Standing
  <2> QED BY <1>5, <2>1, StaysCovered DEF EraseNaming
<1> QED
  BY <1>4, <1>5, <1>6, KeepsRight DEF EraseNaming, RepairInv

LEMMA StoreRecordRight ==
  ASSUME RepairInv, NEW names \in SUBSET Entity, NEW about \in SUBSET Entity,
         NEW before \in {0} \cup Standing(records), NEW retract \in BOOLEAN,
         StoreRecord(names, about, before, retract)
  PROVE  RepairInv'
<1> DEFINE id == Len(records) + 1
           told == {Resolved(x) : x \in about}
           moved == {i \in Standing(named) : before # 0 /\ named[i].record = before}
           mid == Passed(Deactivated(records, {before}), {before})
           new == [links |-> {Resolved(x) : x \in names} \cup
                             (IF before = 0 THEN {} ELSE records[before].links),
                   derived |-> told \cup (IF before = 0 THEN {} ELSE records[before].derived),
                   status |-> IF retract THEN "past" ELSE "current",
                   views |-> "none", storing |-> "embedding", read |-> FALSE]
           old == [i \in DOMAIN named |->
                    IF i \notin moved THEN named[i]
                    ELSE IF retract THEN [named[i] EXCEPT !.status = "past"]
                    ELSE [named[i] EXCEPT !.record = id]]
           add == SetToSeq({ToldRow(x, id) : x \in told})
<1>0. /\ RepairTypeOK /\ id \in 1 .. MaxEvents /\ Requests
      /\ Len(named) + Cardinality(about) <= MaxClaims
      /\ records' = Append(mid, new) /\ named' = old \o add
      /\ entities' = [x \in Entity |-> IF x \in names \cup about /\ entities[x] = "none"
                                       THEN "active" ELSE entities[x]]
      /\ UNCHANGED <<redirect, repairs, refresh, walk>>
  BY BoundsAreNumbers DEF RepairInv, StoreRecord, ToldRow, RepairTypeOK
<1>1. \A x \in Entity : Resolved(x) \in Entity
  BY ResolvesRight DEF RepairInv, RepairTypeOK
<1>2. /\ mid \in Seq(Record) /\ Len(mid) = Len(records) /\ DOMAIN mid = DOMAIN records
      /\ \A i \in DOMAIN records : IF i = before THEN mid[i].status = "past"
                                   ELSE mid[i] = records[i]
  <2> DEFINE one == Deactivated(records, {before})
  <2>1. /\ one \in Seq(Record) /\ Len(one) = Len(records) /\ DOMAIN one = DOMAIN records
        /\ \A i \in DOMAIN records : i \notin {before} => one[i] = records[i]
    BY <1>0, DeactivatedRight DEF RepairTypeOK
  <2>2. mid = Passed(one, {before})
    OBVIOUS
  <2> HIDE DEF one, mid
  <2>3. /\ mid \in Seq(Record) /\ Len(mid) = Len(one) /\ DOMAIN mid = DOMAIN one
        /\ \A i \in DOMAIN one : IF i \in {before} THEN mid[i].status = "past"
                                 ELSE mid[i] = one[i]
    BY <2>1, <2>2, PassedRecords
  <2> QED BY <2>1, <2>3
<1>3. new \in Record /\ new.storing = "embedding" /\ new.read = FALSE
  <2>1. before # 0 => records[before] \in Record
    BY <1>0 DEF Standing, RepairTypeOK
  <2>2. {Resolved(x) : x \in names} \subseteq Entity /\ told \subseteq Entity
    BY <1>1
  <2> HIDE DEF told
  <2>3. before # 0 => records[before].links \subseteq Entity /\ records[before].derived \subseteq Entity
    BY <2>1 DEF Record
  <2> QED BY <2>2, <2>3 DEF Record, Storing
<1>4. /\ old \in Seq(Naming) /\ Len(old) = Len(named) /\ DOMAIN old = DOMAIN named
      /\ \A c \in DOMAIN named : /\ old[c].embedded = named[c].embedded
                                 /\ old[c].record \in {id, named[c].record}
                                 /\ old[c].status = "current" => named[c].status = "current"
  <2>1. \A c \in DOMAIN named : named[c] \in Naming
    BY <1>0 DEF RepairTypeOK
  <2>2. id \in 0 .. MaxEvents
    BY <1>0
  <2> HIDE DEF moved, id
  <2>3. \A c \in DOMAIN named : /\ old[c] \in Naming /\ old[c].embedded = named[c].embedded
                                /\ old[c].record \in {id, named[c].record}
                                /\ old[c].status = "current" => named[c].status = "current"
    BY <2>1, <2>2 DEF Naming
  <2>4. DOMAIN old = DOMAIN named /\ old = [c \in DOMAIN named |-> old[c]]
    OBVIOUS
  <2> HIDE DEF old
  <2>5. named \in Seq(Naming)
    BY <1>0 DEF RepairTypeOK
  <2> QED BY <2>3, <2>4, <2>5, RowByRow
<1>5. /\ add \in Seq(Naming) /\ Len(add) <= Cardinality(about) /\ Cardinality(about) \in Nat
      /\ \A c \in DOMAIN add : add[c].record = id
  <2>1. /\ id \in 1 .. MaxEvents /\ \A x \in about : Resolved(x) \in Entity
        /\ add = ToldRows(about, id)
    BY <1>0, <1>1 DEF ToldRows
  <2> HIDE DEF add, id
  <2>2. /\ add \in Seq(Naming) /\ Len(add) <= Cardinality(about) /\ Cardinality(about) \in Nat
        /\ AllOfRecord(add, id)
    BY <2>1, ToldClaimsRight
  <2> QED BY <2>2 DEF AllOfRecord
<1>6. id = Len(records) + 1 /\ Len(records) \in Nat /\ Len(named) \in Nat
  BY <1>0 DEF RepairTypeOK
<1> HIDE DEF id, mid, new, old, add
<1>7. /\ records' \in Seq(Record) /\ Len(records') = id /\ DOMAIN records' = DOMAIN records \cup {id}
      /\ records'[id] = new /\ \A i \in DOMAIN records : records'[i] = mid[i]
  BY <1>0, <1>2, <1>3, <1>6
<1>8. /\ named' \in Seq(Naming) /\ Len(named') <= MaxClaims /\ DOMAIN named \subseteq DOMAIN named'
      /\ \A c \in DOMAIN named : named'[c] = old[c]
      /\ \A c \in DOMAIN named' \ DOMAIN named : named'[c].record = id
  <2>1. /\ named' \in Seq(Naming) /\ Len(named') = Len(old) + Len(add)
        /\ \A c \in 1 .. Len(old) + Len(add) :
             named'[c] = IF c <= Len(old) THEN old[c] ELSE add[c - Len(old)]
    BY <1>0, <1>4, <1>5, ConcatProperties
  <2>2. /\ Len(old) = Len(named) /\ DOMAIN named = 1 .. Len(named) /\ Len(add) \in Nat
        /\ DOMAIN named' = 1 .. Len(named') /\ DOMAIN add = 1 .. Len(add)
    BY <1>4, <1>5, <1>6, <2>1
  <2>3. Len(named') <= MaxClaims
    BY <1>0, <1>5, <1>6, <2>1, <2>2, BoundsAreNumbers
  <2>4. \A c \in DOMAIN named : c \in DOMAIN named' /\ named'[c] = old[c]
    BY <1>6, <2>1, <2>2
  <2>5. ASSUME NEW c \in DOMAIN named' \ DOMAIN named PROVE named'[c].record = id
    <3>1. c - Len(named) \in DOMAIN add /\ named'[c] = add[c - Len(named)]
      BY <1>6, <2>1, <2>2
    <3> QED BY <1>5, <3>1
  <2> QED BY <2>1, <2>3, <2>4, <2>5
<1>9. RepairTypeOK'
  <2>1. entities' \in [Entity -> {"none", "active", "merged"}]
    BY <1>0 DEF RepairTypeOK
  <2>2. \A c \in DOMAIN named' : named'[c].record \in {0} \cup DOMAIN records'
    <3>1. ASSUME NEW c \in DOMAIN named PROVE named'[c].record \in {0} \cup DOMAIN records'
      <4>1. named'[c].record \in {id, named[c].record} /\ named[c].record \in {0} \cup DOMAIN records
        BY <1>0, <1>4, <1>8 DEF RepairTypeOK
      <4> QED BY <1>7, <4>1
    <3> QED BY <1>7, <1>8, <3>1
  <2>3. Len(records') <= MaxEvents
    BY <1>0, <1>7
  <2> QED BY <1>0, <1>7, <1>8, <2>1, <2>2, <2>3, RequestsTyped DEF RepairTypeOK
<1>10. RedirectInv(entities', redirect')
  <2>1. Merged(entities') = Merged(entities)
    BY <1>0 DEF Merged, RepairTypeOK
  <2>2. \A x \in Entity : /\ entities'[x] = "merged" <=> entities[x] = "merged"
                          /\ entities[x] # "none" => entities'[x] # "none"
    BY <1>0 DEF RepairTypeOK
  <2>3. PICK d \in [Entity -> Nat] : Leads(d, entities, redirect)
    BY DEF RepairInv, RedirectInv
  <2>4. Leads(d, entities', redirect')
    BY <1>0, <2>1, <2>2, <2>3 DEF Leads
  <2> QED BY <2>4 DEF RedirectInv
<1>11. Outlives(records, records') /\ Outlives(named, named') /\ StaysEmbedded(named, named')
  <2>1. ASSUME NEW i \in DOMAIN records, records'[i].status = "current"
        PROVE  records[i].status = "current"
    BY <1>2, <1>7, <2>1
  <2> QED BY <1>4, <1>7, <1>8, <2>1 DEF Outlives, StaysEmbedded
<1>12. \A i \in DOMAIN records' : records'[i].status = "current" =>
          \/ i = id
          \/ i \in DOMAIN records /\ records'[i] = records[i]
  <2> SUFFICES ASSUME NEW i \in DOMAIN records', records'[i].status = "current", i # id
               PROVE  i \in DOMAIN records /\ records'[i] = records[i]
    OBVIOUS
  <2>1. i \in DOMAIN records /\ records'[i] = mid[i] /\ mid[i].status # "past"
    BY <1>7
  <2> QED BY <1>2, <2>1
<1>13. \A i \in DOMAIN records' : ReadRight(records'[i])
  BY <1>3, <1>7, <1>12 DEF RepairInv, ReadRight
<1>14. CoverInv'
  <2>1. \A i \in Standing(records') : \/ IsFound(records'[i])
                                      \/ i \in DOMAIN records /\ ~ IsFound(records[i])
    BY <1>3, <1>7, <1>12 DEF Standing, IsFound
  <2> QED BY <1>0, <1>11, <2>1, StaysCovered
<1>15. \A k \in DOMAIN repairs' : k \in DOMAIN repairs /\ repairs'[k] = repairs[k] /\ refresh'[k] = refresh[k]
  BY <1>0
<1> QED
  BY <1>0, <1>9, <1>10, <1>11, <1>13, <1>14, <1>15, KeepsRight

-----------------------------------------------------------------------------
(* The steps of a refresh.                                                 *)

\* A step of the refresh of repair k, to the outcome o.
LEMMA ProceedRight ==
  ASSUME RepairInv, NEW k \in DOMAIN repairs, NEW o, Proceed(k, o),
         o.wait \in Wait, o.status \in {"pending", "completed"},
         JobRight(o.status, o.wait, repairs[k].claims, repairs[k].records, named', records'),
         named' \in Seq(Naming), Len(named') = Len(named), DOMAIN named' = DOMAIN named,
         \A c \in DOMAIN named : named'[c].record = named[c].record,
         records' \in Seq(Record), Len(records') = Len(records), DOMAIN records' = DOMAIN records,
         UNCHANGED <<entities, redirect, walk, requests>>,
         Outlives(records, records'), Outlives(named, named'), StaysEmbedded(named, named'),
         \A i \in DOMAIN records' : ReadRight(records'[i]),
         \A i \in Standing(records') :
           \/ IsFound(records'[i])
           \/ /\ ~ IsFound(records[i])
              /\ Awaits(i, k) => i \in Todo(o.status, o.wait, repairs[k].records)
  PROVE  RepairInv'
<1>0. RepairTypeOK /\ repairs[k] \in Repair
  BY DEF RepairInv, RepairTypeOK
<1>1. /\ DOMAIN repairs' = DOMAIN repairs
      /\ repairs'[k].status = o.status /\ repairs'[k].claims = repairs[k].claims
      /\ repairs'[k].records = repairs[k].records
      /\ \A j \in DOMAIN repairs : j # k => repairs'[j] = repairs[j]
  BY <1>0 DEF Proceed, Repair
<1>2. /\ k \in 1 .. MaxRepairs /\ refresh'[k] = o.wait
      /\ \A j \in DOMAIN repairs : j # k => refresh'[j] = refresh[j]
  BY <1>0, BoundsAreNumbers DEF Proceed, RepairTypeOK
<1>3. repairs' \in Seq(Repair) /\ Len(repairs') = Len(repairs)
  <2>1. repairs'[k] \in Repair
    BY <1>0 DEF Proceed, Repair
  <2>0. \A j \in DOMAIN repairs : repairs[j] \in Repair
    BY <1>0 DEF RepairTypeOK
  <2>2. \A j \in DOMAIN repairs : repairs'[j] \in Repair
    BY <1>1, <2>0, <2>1
  <2>3. repairs' = [j \in DOMAIN repairs |-> repairs'[j]]
    BY DEF Proceed
  <2> QED BY <1>0, <1>1, <2>2, <2>3, RowByRow DEF RepairTypeOK
<1>4. refresh' \in [1 .. MaxRepairs -> Wait]
  BY <1>0 DEF Proceed, RepairTypeOK
<1>5. RepairTypeOK'
  BY <1>0, <1>3, <1>4 DEF RepairTypeOK
<1>6. \A j \in DOMAIN repairs' :
        \/ j \in DOMAIN repairs /\ repairs'[j] = repairs[j] /\ refresh'[j] = refresh[j]
        \/ JobInv(j)'
  <2>1. JobInv(k)'
    BY <1>1, <1>2 DEF JobInv
  <2> QED BY <1>1, <1>2, <2>1
<1>7. CoverInv'
  <2> SUFFICES ASSUME NEW i \in Standing(records'), ~ IsFound(records'[i])
               PROVE  \E j \in DOMAIN repairs' : Awaits(i, j)'
    BY DEF CoverInv
  <2>1. i \in Standing(records) /\ ~ IsFound(records[i])
    BY DEF Standing, Outlives
  <2>2. PICK j \in DOMAIN repairs : Awaits(i, j)
    BY <2>1 DEF RepairInv, CoverInv
  <2>3. CASE j = k
    BY <1>1, <1>2, <2>2, <2>3 DEF Awaits
  <2>4. CASE j # k
    BY <1>1, <1>2, <2>2, <2>4 DEF Awaits
  <2> QED BY <2>3, <2>4
<1> QED
  BY <1>5, <1>6, <1>7, KeepsRight DEF RepairInv

LEMMA EmbedClaimRight ==
  ASSUME RepairInv, NEW k \in DOMAIN repairs, EmbedClaim(k)
  PROVE  RepairInv'
<1> DEFINE c == refresh[k].id
           cs == repairs[k].claims
           ids == repairs[k].records
           o == IF named[c].status = "erased" THEN Failed
                ELSE FromClaims(named', records, refresh[k].left, ids)
<1>0. /\ RepairTypeOK /\ JobInv(k) /\ refresh[k].at = "claim" /\ Proceed(k, o)
      /\ UNCHANGED <<entities, redirect, records, walk, requests>>
      /\ named' = IF named[c].status = "current" THEN [named EXCEPT ![c].embedded = TRUE] ELSE named
  BY DEF RepairInv, EmbedClaim
<1>1. /\ c \in cs /\ refresh[k].left \subseteq cs /\ cs \in SUBSET DOMAIN named
      /\ ids \in SUBSET DOMAIN records /\ repairs[k].status # "completed"
  BY <1>0 DEF JobInv, JobRight
<1>2. repairs[k].status = "pending" /\ \A d \in DOMAIN named : named[d] \in Naming
  <2>1. repairs[k] \in Repair /\ \A d \in DOMAIN named : named[d] \in Naming
    BY <1>0 DEF RepairTypeOK
  <2> QED BY <1>1, <2>1 DEF Repair
<1>3. /\ DOMAIN named' = DOMAIN named
      /\ \A d \in DOMAIN named : /\ named'[d] \in Naming /\ named'[d].record = named[d].record
                                 /\ named'[d].status = named[d].status
                                 /\ named[d].embedded => named'[d].embedded
      /\ named[c].status = "current" => named'[c].embedded
  BY <1>0, <1>1, <1>2 DEF Naming
<1>4. named' \in Seq(Naming) /\ Len(named') = Len(named)
  <2>0. named \in Seq(Naming) /\ named = [d \in DOMAIN named |-> named[d]]
    BY <1>0 DEF RepairTypeOK
  <2>1. named' = [d \in DOMAIN named |-> named'[d]]
    <3>1. CASE named[c].status = "current"
      <4>1. named' = [named EXCEPT ![c].embedded = TRUE]
        BY <1>0, <3>1
      <4> QED BY <4>1
    <3>2. CASE named[c].status # "current"
      BY <1>0, <2>0, <3>2
    <3> QED BY <3>1, <3>2
  <2> QED BY <1>3, <2>0, <2>1, RowByRow
<1>5. /\ o.wait \in Wait /\ o.status \in {"pending", "completed"}
      /\ JobRight(o.status, o.wait, cs, ids, named', records)
      /\ ids \cap Standing(records) \subseteq Todo(o.status, o.wait, ids)
  <2>1. CASE named[c].status = "erased"
    <3>1. o = Failed
      BY <2>1
    <3> HIDE DEF o
    <3>2. o.status = "pending" /\ o.wait = Nowhere /\ o.wait.at = "nowhere"
      BY <3>1 DEF Failed, Nowhere
    <3>3. cs \subseteq DOMAIN named' /\ ids \subseteq DOMAIN records
      BY <1>1, <1>3
    <3> HIDE DEF o, cs, ids, c
    <3>4. JobRight(o.status, o.wait, cs, ids, named', records)
      BY <3>2, <3>3 DEF JobRight, PlaceRight
    <3>5. Todo(o.status, o.wait, ids) = ids
      BY <3>2 DEF Todo
    <3> QED BY <3>2, <3>4, <3>5, NowhereIsAWait
  <2>2. CASE named[c].status # "erased"
    <3>1. o = FromClaims(named', records, refresh[k].left, ids)
      BY <2>2
    <3>2. \A d \in cs : named'[d].status = "current" => named'[d].embedded \/ d \in refresh[k].left
      <4> SUFFICES ASSUME NEW d \in cs, named'[d].status = "current", d \notin refresh[k].left
                   PROVE  named'[d].embedded
        OBVIOUS
      <4>1. named[d].status = "current" /\ d \in DOMAIN named
        BY <1>1, <1>3
      <4>2. named[d].embedded \/ d = c
        BY <1>0, <4>1 DEF JobInv, JobRight
      <4> QED BY <1>3, <4>1, <4>2
    <3>3. cs \in SUBSET DOMAIN named' /\ refresh[k].left \in SUBSET cs /\ records \in Seq(Record)
      BY <1>0, <1>1, <1>3 DEF RepairTypeOK
    <3> HIDE DEF o, cs, ids, c
    <3> QED BY <1>1, <1>4, <3>1, <3>2, <3>3, FromClaimsRight
  <2> QED BY <2>1, <2>2
<1> HIDE DEF o
<1>6. Outlives(records, records') /\ Outlives(named, named') /\ StaysEmbedded(named, named')
  BY <1>0, <1>3 DEF Outlives, StaysEmbedded
<1>7. ASSUME NEW i \in Standing(records'), ~ IsFound(records'[i]), Awaits(i, k)
      PROVE  i \in Todo(o.status, o.wait, repairs[k].records)
  BY <1>0, <1>2, <1>5, <1>7 DEF Awaits, Todo
<1> QED
  BY <1>0, <1>3, <1>4, <1>5, <1>6, <1>7, ProceedRight DEF RepairInv, RepairTypeOK

LEMMA ReplayRepairRight ==
  ASSUME RepairInv, NEW k \in DOMAIN repairs, ReplayRepair(k)
  PROVE  RepairInv'
<1> DEFINE cs == repairs[k].claims
           ids == repairs[k].records
           o == FromClaims(named, records, cs, ids)
<1>0. /\ RepairTypeOK /\ JobInv(k) /\ refresh[k].at = "nowhere" /\ Proceed(k, o)
      /\ UNCHANGED <<entities, redirect, records, named, walk, requests>>
  BY DEF RepairInv, ReplayRepair
<1>1. cs \in SUBSET DOMAIN named /\ ids \in SUBSET DOMAIN records
  BY <1>0 DEF JobInv, JobRight
<1>2. /\ o.wait \in Wait /\ o.status \in {"pending", "completed"}
      /\ JobRight(o.status, o.wait, cs, ids, named, records)
      /\ ids \cap Standing(records) \subseteq Todo(o.status, o.wait, ids)
  <2>1. named \in Seq(Naming) /\ records \in Seq(Record) /\ cs \in SUBSET cs /\ o = FromClaims(named, records, cs, ids)
    BY <1>0 DEF RepairTypeOK
  <2> HIDE DEF o, cs, ids
  <2> QED BY <1>1, <2>1, FromClaimsRight
<1> HIDE DEF o
<1>3. ASSUME NEW i \in Standing(records'), Awaits(i, k)
      PROVE  i \in Todo(o.status, o.wait, repairs[k].records)
  BY <1>0, <1>2, <1>3 DEF Awaits, Todo
<1> QED
  BY <1>0, <1>2, <1>3, ProceedRight DEF RepairInv, RepairTypeOK, Outlives, StaysEmbedded

LEMMA ViewRepairedRight ==
  ASSUME RepairInv, NEW k \in DOMAIN repairs, ViewRepaired(k)
  PROVE  RepairInv'
<1> DEFINE w == refresh[k]
           cs == repairs[k].claims
           ids == repairs[k].records
           o == AtRecords(records', w.left)
<1>0. /\ RepairTypeOK /\ JobInv(k) /\ w.at = "record" /\ Proceed(k, o)
      /\ records' = Viewed(records, w.id, w.read)
      /\ UNCHANGED <<entities, redirect, named, walk, requests>>
  BY DEF RepairInv, ViewRepaired
<1>1. /\ cs \in SUBSET DOMAIN named /\ ids \in SUBSET DOMAIN records /\ w.id \in ids
      /\ w.left \in SUBSET ids /\ (records[w.id].status = "current" => w.read)
      /\ \A c \in cs : named[c].status = "current" => named[c].embedded
      /\ repairs[k].status # "completed"
  BY <1>0 DEF JobInv, JobRight, PlaceRight
<1>2. w.read \in BOOLEAN /\ records \in Seq(Record)
  <2>1. k \in 1 .. MaxRepairs
    BY <1>0, BoundsAreNumbers DEF RepairTypeOK
  <2> QED BY <1>0, <2>1 DEF RepairTypeOK, Wait
<1>3. /\ records' \in Seq(Record) /\ Len(records') = Len(records) /\ DOMAIN records' = DOMAIN records
      /\ \A j \in DOMAIN records \ {w.id} : records'[j] = records[j]
      /\ records'[w.id].status = records[w.id].status
      /\ records'[w.id].storing = records[w.id].storing
      /\ records'[w.id].read = records[w.id].read
      /\ w.read => records'[w.id].views = "active"
  <2> HIDE DEF w
  <2> QED BY <1>0, <1>1, <1>2, ViewedRight
<1>4. /\ o.wait \in Wait /\ o.status \in {"pending", "completed"}
      /\ o.wait.at \in {"nowhere", "record"} /\ PlaceRight(o.wait, w.left, records')
      /\ o.status = "completed" => w.left = {} /\ o.wait.at = "nowhere"
      /\ o.wait.at = "record" => o.wait.left \cup {o.wait.id} = w.left
  <2>1. w.left \in SUBSET DOMAIN records' /\ o = AtRecords(records', w.left)
    BY <1>1, <1>3
  <2> HIDE DEF o, w
  <2> QED BY <1>3, <2>1, AtRecordsRight
<1> HIDE DEF o
<1>5. JobRight(o.status, o.wait, cs, ids, named', records')
  BY <1>0, <1>1, <1>3, <1>4 DEF JobRight, PlaceRight
<1>6. Outlives(records, records') /\ Outlives(named, named') /\ StaysEmbedded(named, named')
  BY <1>0, <1>3 DEF Outlives, StaysEmbedded
<1>7. \A j \in DOMAIN records' : ReadRight(records'[j])
  BY <1>1, <1>3 DEF RepairInv, ReadRight
<1>8. ASSUME NEW i \in Standing(records'), ~ IsFound(records'[i])
      PROVE  /\ ~ IsFound(records[i])
             /\ Awaits(i, k) => i \in Todo(o.status, o.wait, repairs[k].records)
  <2>1. i # w.id /\ i \in DOMAIN records /\ records'[i] = records[i]
    BY <1>1, <1>3, <1>8 DEF Standing, IsFound
  <2>2. ASSUME Awaits(i, k) PROVE i \in Todo(o.status, o.wait, repairs[k].records)
    <3>1. i \in w.left
      BY <1>0, <1>1, <2>1, <2>2 DEF Awaits, Todo
    <3> QED BY <1>1, <1>4, <3>1 DEF Todo
  <2> QED BY <1>8, <2>1, <2>2
<1> QED
  BY <1>0, <1>3, <1>4, <1>5, <1>6, <1>7, <1>8, ProceedRight DEF RepairInv, RepairTypeOK

-----------------------------------------------------------------------------
(* The walks over the scope and the restart.                               *)

LEMMA WalkKeepsRight ==
  ASSUME RepairInv, RepairTypeOK', UNCHANGED <<entities, redirect, records, named, repairs, refresh>>,
         WalkInv(walk', records')
  PROVE  RepairInv'
<1>1. Outlives(records, records') /\ Outlives(named, named') /\ StaysEmbedded(named, named')
  BY DEF Outlives, StaysEmbedded
<1>2. CoverInv'
  BY DEF RepairInv, CoverInv, Awaits
<1> QED BY <1>1, <1>2, KeepsRight DEF RepairInv

LEMMA WalkRight ==
  ASSUME RepairInv, NEW ids \in SUBSET DOMAIN records, Walk(ids)
  PROVE  RepairInv'
<1> DEFINE o == AtRecords(records, ids)
<1>0. RepairTypeOK /\ walk' = o.wait /\ Requests
      /\ UNCHANGED <<entities, redirect, records, named, repairs, refresh>>
  BY DEF RepairInv, Walk
<1>1. o.wait \in Wait /\ o.wait.at \in {"nowhere", "record"} /\ PlaceRight(o.wait, ids, records)
  <2>1. records \in Seq(Record) /\ o = AtRecords(records, ids)
    BY <1>0 DEF RepairTypeOK
  <2> HIDE DEF o
  <2> QED BY <2>1, AtRecordsRight
<1> HIDE DEF o
<1>2. WalkInv(walk', records')
  BY <1>0, <1>1 DEF WalkInv, PlaceRight
<1>3. RepairTypeOK'
  BY <1>0, <1>1, RequestsTyped DEF RepairTypeOK
<1> QED BY <1>0, <1>2, <1>3, WalkKeepsRight

LEMMA ViewWalkedRight ==
  ASSUME RepairInv, ViewWalked
  PROVE  RepairInv'
<1> DEFINE o == AtRecords(records', walk.left)
           i == walk.id
<1>0. /\ RepairTypeOK /\ walk.at = "record" /\ walk' = o.wait
      /\ records' = Viewed(records, i, walk.read)
      /\ UNCHANGED <<entities, redirect, named, repairs, refresh, requests>>
  BY DEF RepairInv, ViewWalked
<1>1. /\ i \in DOMAIN records /\ walk.left \in SUBSET DOMAIN records
      /\ (records[i].status = "current" => walk.read)
      /\ walk.read \in BOOLEAN /\ records \in Seq(Record)
  BY <1>0 DEF RepairInv, WalkInv, PlaceRight, RepairTypeOK, Wait
<1>2. /\ records' \in Seq(Record) /\ Len(records') = Len(records) /\ DOMAIN records' = DOMAIN records
      /\ \A j \in DOMAIN records \ {i} : records'[j] = records[j]
      /\ records'[i].status = records[i].status
      /\ records'[i].storing = records[i].storing
      /\ records'[i].read = records[i].read
      /\ walk.read => records'[i].views = "active"
  <2> HIDE DEF i
  <2> QED BY <1>0, <1>1, ViewedRight
<1>3. /\ o.wait \in Wait /\ o.wait.at \in {"nowhere", "record"}
      /\ PlaceRight(o.wait, walk.left, records')
  <2>1. walk.left \in SUBSET DOMAIN records' /\ o = AtRecords(records', walk.left)
    BY <1>1, <1>2
  <2> HIDE DEF o
  <2> QED BY <1>2, <2>1, AtRecordsRight
<1> HIDE DEF o
<1>4. WalkInv(walk', records')
  BY <1>0, <1>1, <1>2, <1>3 DEF WalkInv, PlaceRight
<1>5. RepairTypeOK'
  BY <1>0, <1>2, <1>3 DEF RepairTypeOK
<1>6. Outlives(records, records') /\ Outlives(named, named') /\ StaysEmbedded(named, named')
  BY <1>0, <1>2 DEF Outlives, StaysEmbedded
<1>7. \A j \in DOMAIN records' : ReadRight(records'[j])
  BY <1>1, <1>2 DEF RepairInv, ReadRight
<1>8. CoverInv'
  <2>1. \A j \in Standing(records') : \/ IsFound(records'[j])
                                      \/ j \in DOMAIN records /\ ~ IsFound(records[j])
    BY <1>1, <1>2 DEF Standing, IsFound
  <2> QED BY <1>0, <1>6, <2>1, StaysCovered
<1> QED
  BY <1>0, <1>4, <1>5, <1>6, <1>7, <1>8, KeepsRight DEF RepairInv

\* A repair whose refresh was under way begins it again.
LEMMA RepairRestartRight ==
  ASSUME RepairInv, RepairRestart
  PROVE  RepairInv'
<1>0. /\ RepairTypeOK /\ walk' = Nowhere /\ refresh' = [k \in 1 .. MaxRepairs |-> Nowhere]
      /\ UNCHANGED <<entities, redirect, named, repairs, requests>>
  BY DEF RepairInv, RepairRestart
<1>1. DOMAIN records' = DOMAIN records /\ records' = [i \in DOMAIN records |-> records'[i]]
  BY DEF RepairRestart
<1>2. \A i \in DOMAIN records :
        /\ records'[i] \in Record /\ records'[i].status = records[i].status
        /\ IsFound(records[i]) => IsFound(records'[i])
        /\ ReadRight(records'[i])
  <2> SUFFICES ASSUME NEW i \in DOMAIN records
               PROVE  /\ records'[i] \in Record /\ records'[i].status = records[i].status
                      /\ IsFound(records[i]) => IsFound(records'[i])
                      /\ ReadRight(records'[i])
    OBVIOUS
  <2>1. records[i] \in Record /\ ReadRight(records[i])
    BY <1>0 DEF RepairInv, RepairTypeOK
  <2>2. records'[i] = IF records[i].storing = "no" THEN records[i]
                      ELSE [records[i] EXCEPT !.storing = "lost", !.read = FALSE]
    BY DEF RepairRestart
  <2>3. CASE records[i].storing = "no"
    BY <2>1, <2>2, <2>3
  <2>4. CASE records[i].storing # "no"
    BY <2>1, <2>2, <2>4 DEF Record, Storing, IsFound, ReadRight
  <2> QED BY <2>3, <2>4
<1>3. records' \in Seq(Record) /\ Len(records') = Len(records)
  BY <1>0, <1>1, <1>2, RowByRow DEF RepairTypeOK
<1>4. RepairTypeOK'
  BY <1>0, <1>1, <1>3, NowhereIsAWait DEF RepairTypeOK
<1>5. Outlives(records, records') /\ Outlives(named, named') /\ StaysEmbedded(named, named')
  BY <1>0, <1>1, <1>2 DEF Outlives, StaysEmbedded
<1>6. ASSUME NEW k \in DOMAIN repairs
      PROVE  JobInv(k)' /\ \A i : Awaits(i, k) => Awaits(i, k)'
  <2>1. JobInv(k) /\ k \in 1 .. MaxRepairs /\ repairs[k] \in Repair
    BY <1>0, BoundsAreNumbers DEF RepairInv, RepairTypeOK
  <2>2. JobRight(repairs[k].status, refresh[k], repairs[k].claims, repairs[k].records, named', records')
    BY <1>5, <2>1, JobStaysRight DEF JobInv
  <2>3. refresh'[k].at = "nowhere" /\ repairs'[k] = repairs[k]
    BY <1>0, <2>1 DEF Nowhere
  <2>4. JobInv(k)'
    BY <1>0, <2>1, <2>2, <2>3 DEF JobInv, JobRight, PlaceRight, Repair
  <2>5. \A i : Awaits(i, k) => Awaits(i, k)'
    BY <2>1, <2>3 DEF Awaits, Todo, JobInv, JobRight, PlaceRight
  <2> QED BY <2>4, <2>5
<1>7. CoverInv'
  <2> SUFFICES ASSUME NEW i \in Standing(records'), ~ IsFound(records'[i])
               PROVE  \E k \in DOMAIN repairs' : Awaits(i, k)'
    BY DEF CoverInv
  <2>1. i \in Standing(records) /\ ~ IsFound(records[i])
    BY <1>1, <1>2 DEF Standing
  <2>2. PICK k \in DOMAIN repairs : Awaits(i, k)
    BY <2>1 DEF RepairInv, CoverInv
  <2> QED BY <1>0, <1>6, <2>2
<1>8. WalkInv(walk', records')
  BY <1>0 DEF WalkInv, PlaceRight, Nowhere
<1> QED
  BY <1>0, <1>1, <1>2, <1>4, <1>5, <1>6, <1>7, <1>8, KeepsRight DEF RepairInv

-----------------------------------------------------------------------------
(* A merge or a split.                                                     *)

\* The rows that take the place of the old ones.
LEMMA ReplacedRight ==
  ASSUME RepairInv, NEW q \in Merges \cup Splits, AffectedRecords(q) \subseteq Standing(records)
  PROVE  /\ IsFiniteSet(AffectedRecords(q)) /\ Cardinality(AffectedRecords(q)) \in Nat
         /\ IsFiniteSet(AffectedNamings(q)) /\ Cardinality(AffectedNamings(q)) \in Nat
         /\ NewRecords(q) \in Seq(Record) /\ Len(NewRecords(q)) = Cardinality(AffectedRecords(q))
         /\ Len(records) + Cardinality(AffectedRecords(q)) <= MaxEvents =>
              NewNamings(q) \in Seq(Naming) /\ Len(NewNamings(q)) = Cardinality(AffectedNamings(q))
         /\ \A i \in DOMAIN NewRecords(q) : NewRecords(q)[i].storing = "no"
         /\ \A c \in DOMAIN NewNamings(q) :
              NewNamings(q)[c].record \in 0 .. (Len(records) + Cardinality(AffectedRecords(q)))
<1> DEFINE R == AffectedRecords(q)
           C == AffectedNamings(q)
<1>0. RepairTypeOK /\ q.from \subseteq Entity /\ q.target \in Entity
  BY DEF RepairInv, Merges, Splits
<1>1. /\ Len(records) \in Nat /\ DOMAIN records = 1 .. Len(records)
      /\ Len(named) \in Nat /\ DOMAIN named = 1 .. Len(named)
      /\ \A i \in DOMAIN records : records[i] \in Record
      /\ \A c \in DOMAIN named : /\ named[c] \in Naming
                                 /\ named[c].record \in {0} \cup DOMAIN records
  BY <1>0 DEF RepairTypeOK
<1>2. C \in SUBSET DOMAIN named /\ R \in SUBSET DOMAIN records
  BY DEF AffectedNamings, Mapped, Standing
<1> HIDE DEF R, C
<1>3. /\ IsFiniteSet(R) /\ Cardinality(R) \in Nat /\ R \in SUBSET Nat
      /\ IsFiniteSet(C) /\ Cardinality(C) \in Nat /\ C \in SUBSET Nat
  <2>1. IsFiniteSet(DOMAIN records) /\ IsFiniteSet(DOMAIN named)
    <3>1. Len(records) \in Int /\ Len(named) \in Int /\ 1 \in Int
      BY <1>1
    <3>2. IsFiniteSet(1 .. Len(records)) /\ IsFiniteSet(1 .. Len(named))
      BY <3>1, FS_Interval
    <3> QED BY <1>1, <3>2
  <2>2. R \in SUBSET Nat /\ C \in SUBSET Nat
    BY <1>1, <1>2
  <2> QED BY <1>2, <2>1, <2>2, FS_Subset, FS_CardinalityType
<1>4. ASSUME NEW c \in C
      PROVE  /\ NewNaming(q, c).entity \in Entity
             /\ Len(records) + Cardinality(R) <= MaxEvents => NewNaming(q, c) \in Naming
             /\ NewNaming(q, c).record \in 0 .. (Len(records) + Cardinality(R))
  <2> DEFINE at == named[c].record
             rec == IF at \in R THEN VersionOf(R, records, at) ELSE at
             ent == IF c \in Mapped(q) THEN MappedTo(q, named[c].entity) ELSE named[c].entity
             emb == c \notin Mapped(q) /\ named[c].embedded
  <2>1. named[c] \in Naming /\ at \in {0} \cup DOMAIN records
    BY <1>1, <1>2
  <2>2. rec \in 0 .. (Len(records) + Cardinality(R))
    <3>1. CASE at \in R
      <4>1. {j \in R : j <= at} \in SUBSET R
        OBVIOUS
      <4>2. /\ Cardinality({j \in R : j <= at}) \in Nat
            /\ Cardinality({j \in R : j <= at}) <= Cardinality(R)
        BY <1>3, <4>1, FS_Subset, FS_CardinalityType
      <4> QED BY <1>1, <1>3, <3>1, <4>2 DEF VersionOf
    <3>2. CASE at \notin R
      BY <1>1, <1>3, <2>1, <3>2
    <3> QED BY <3>1, <3>2
  <2>3. Len(records) + Cardinality(R) <= MaxEvents => rec \in 0 .. MaxEvents
    BY <1>1, <1>3, <2>2, BoundsAreNumbers
  <2>4. ent \in Entity
    BY <1>0, <2>1 DEF MappedTo, Naming
  <2>5. emb \in BOOLEAN
    OBVIOUS
  <2>6. NewNaming(q, c) = [entity |-> ent, record |-> rec, status |-> "current", embedded |-> emb]
    BY DEF NewNaming, R
  <2> HIDE DEF ent, rec, emb
  <2> QED BY <2>2, <2>3, <2>4, <2>5, <2>6 DEF Naming
<1>5. ASSUME NEW i \in R
      PROVE  NewRecord(q, i) \in Record /\ NewRecord(q, i).storing = "no"
  <2> DEFINE links == IF q.operation = "merge" \/ i \in q.records
                      THEN {MappedTo(q, x) : x \in records[i].links} ELSE records[i].links
             derived == {NewNaming(q, c).entity : c \in {d \in C : named[d].record = i}}
  <2>1. links \subseteq Entity
    BY <1>0, <1>1, <1>2 DEF MappedTo, Record
  <2>2. derived \subseteq Entity
    BY <1>4
  <2>3. NewRecord(q, i) = [links |-> links, derived |-> derived, status |-> "current",
                           views |-> "none", storing |-> "no", read |-> FALSE]
    BY DEF NewRecord, C
  <2> HIDE DEF links, derived
  <2> QED BY <2>1, <2>2, <2>3 DEF Record, Storing
<1>6. \A n \in 1 .. Cardinality(R) : Nth(R, n) \in R
  BY <1>3, NthIsMember
<1>7. \A n \in 1 .. Cardinality(C) : Nth(C, n) \in C
  BY <1>3, NthIsMember
<1>8. NewRecords(q) = [n \in 1 .. Cardinality(R) |-> NewRecord(q, Nth(R, n))]
  BY DEF NewRecords, R
<1>9. NewNamings(q) = [n \in 1 .. Cardinality(C) |-> NewNaming(q, Nth(C, n))]
  BY DEF NewNamings, C
<1>10. /\ NewRecords(q) \in Seq(Record) /\ Len(NewRecords(q)) = Cardinality(R)
       /\ \A i \in DOMAIN NewRecords(q) : NewRecords(q)[i].storing = "no"
  <2>1. \A n \in 1 .. Cardinality(R) : /\ NewRecord(q, Nth(R, n)) \in Record
                                       /\ NewRecord(q, Nth(R, n)).storing = "no"
    BY <1>5, <1>6
  <2>2. NewRecords(q) \in [1 .. Cardinality(R) -> Record]
    BY <1>8, <2>1
  <2> QED BY <1>3, <1>8, <2>1, <2>2
<1>11. /\ Len(records) + Cardinality(R) <= MaxEvents =>
            NewNamings(q) \in Seq(Naming) /\ Len(NewNamings(q)) = Cardinality(C)
       /\ \A c \in DOMAIN NewNamings(q) :
              NewNamings(q)[c].record \in 0 .. (Len(records) + Cardinality(R))
  <2>1. \A n \in 1 .. Cardinality(C) :
          /\ Len(records) + Cardinality(R) <= MaxEvents => NewNaming(q, Nth(C, n)) \in Naming
          /\ NewNaming(q, Nth(C, n)).record \in 0 .. (Len(records) + Cardinality(R))
    BY <1>4, <1>7
  <2>2. Len(records) + Cardinality(R) <= MaxEvents =>
          NewNamings(q) \in [1 .. Cardinality(C) -> Naming]
    BY <1>9, <2>1
  <2> QED BY <1>3, <1>9, <2>1, <2>2
<1> QED BY <1>3, <1>10, <1>11 DEF R, C

LEMMA PerformRepairRight ==
  ASSUME RepairInv, NEW q \in Merges \cup Splits, PerformRepair(q)
  PROVE  RepairInv'
<1> DEFINE R == AffectedRecords(q)
           C == AffectedNamings(q)
           oldR == Passed(records, R)
           oldN == Passed(named, C)
           newR == NewRecords(q)
           newN == NewNamings(q)
           r == oldR \o newR
           n == oldN \o newN
           list == RebuildList(q, r)
           told == Added(named, C)
           k == Len(repairs) + 1
           o == FromClaims(n, r, told, list)
           off == R \cup (IF q.operation = "merge" THEN list ELSE {})
           row == [claims |-> told, records |-> list, status |-> o.status]
<1>0. /\ RepairTypeOK /\ Requests /\ Requestable(q) /\ R \subseteq Standing(records)
      /\ k <= MaxRepairs /\ Len(r) <= MaxEvents /\ Len(n) <= MaxClaims
      /\ named' = n /\ records' = Deactivated(r, off) /\ UNCHANGED walk
      /\ repairs' = Append(repairs, row) /\ refresh' = [refresh EXCEPT ![k] = o.wait]
  BY DEF RepairInv, PerformRepair
<1>1. /\ records \in Seq(Record) /\ Len(records) \in Nat /\ DOMAIN records = 1 .. Len(records)
      /\ named \in Seq(Naming) /\ Len(named) \in Nat /\ DOMAIN named = 1 .. Len(named)
      /\ repairs \in Seq(Repair) /\ Len(repairs) \in Nat /\ DOMAIN repairs = 1 .. Len(repairs)
      /\ refresh \in [1 .. MaxRepairs -> Wait]
  BY <1>0 DEF RepairTypeOK
<1>2. list = Added(records, R) \cup TargetRecords(q, r)
  BY DEF RebuildList
<1>3. Added(records, R) = (Len(records) + 1) .. (Len(records) + Cardinality(R))
  BY DEF Added
<1>4. told = (Len(named) + 1) .. (Len(named) + Cardinality(C))
  BY DEF Added
<1> HIDE DEF R, C, oldR, oldN, newR, newN, list, told, k, row, off
<1>5. /\ oldR \in Seq(Record) /\ Len(oldR) = Len(records) /\ DOMAIN oldR = DOMAIN records
      /\ \A i \in DOMAIN records : IF i \in R THEN oldR[i].status = "past" ELSE oldR[i] = records[i]
  BY <1>1, PassedRecords DEF oldR
<1>6. /\ oldN \in Seq(Naming) /\ Len(oldN) = Len(named) /\ DOMAIN oldN = DOMAIN named
      /\ \A c \in DOMAIN named :
           /\ oldN[c].embedded = named[c].embedded /\ oldN[c].record = named[c].record
           /\ IF c \in C THEN oldN[c].status = "past" ELSE oldN[c] = named[c]
  BY <1>1, PassedNamings DEF oldN
<1>7. /\ Cardinality(R) \in Nat /\ Cardinality(C) \in Nat
      /\ newR \in Seq(Record) /\ Len(newR) = Cardinality(R)
      /\ \A i \in DOMAIN newR : newR[i].storing = "no"
      /\ \A c \in DOMAIN newN : newN[c].record \in 0 .. (Len(records) + Cardinality(R))
      /\ Len(records) + Cardinality(R) <= MaxEvents =>
           newN \in Seq(Naming) /\ Len(newN) = Cardinality(C)
  BY <1>0, ReplacedRight DEF R, C, newR, newN
<1>8. /\ r \in Seq(Record) /\ Len(r) = Len(records) + Cardinality(R) /\ DOMAIN r = 1 .. Len(r)
      /\ \A i \in DOMAIN records : i \in DOMAIN r /\ r[i] = oldR[i]
      /\ \A i \in DOMAIN r : i \notin DOMAIN records => i \in Added(records, R) /\ r[i].storing = "no"
  <2>1. /\ r \in Seq(Record) /\ Len(r) = Len(oldR) + Len(newR)
        /\ \A i \in 1 .. Len(oldR) + Len(newR) :
             r[i] = IF i <= Len(oldR) THEN oldR[i] ELSE newR[i - Len(oldR)]
    <3>1. oldR \in Seq(Record) /\ newR \in Seq(Record)
      BY <1>5, <1>7
    <3> QED BY ONLY <3>1, ConcatProperties DEF r
  <2>2. DOMAIN r = 1 .. Len(r) /\ DOMAIN newR = 1 .. Len(newR)
    BY <1>7, <2>1
  <2> HIDE DEF r
  <2>3. Len(r) = Len(records) + Cardinality(R)
    BY <1>5, <1>7, <2>1
  <2>4. \A i \in DOMAIN records : i \in DOMAIN r /\ r[i] = oldR[i]
    BY <1>1, <1>5, <1>7, <2>1, <2>2
  <2>5. ASSUME NEW i \in DOMAIN r, i \notin DOMAIN records
        PROVE  i \in Added(records, R) /\ r[i].storing = "no"
    <3>1. i \in (Len(records) + 1) .. (Len(records) + Cardinality(R))
      BY <1>1, <1>7, <2>2, <2>3, <2>5
    <3>2. i - Len(records) \in DOMAIN newR /\ r[i] = newR[i - Len(records)]
      BY <1>1, <1>5, <1>7, <2>1, <2>2, <3>1
    <3> QED BY <1>3, <1>7, <3>1, <3>2
  <2> QED BY <2>1, <2>2, <2>3, <2>4, <2>5
<1>9. /\ n \in Seq(Naming) /\ Len(n) = Len(named) + Cardinality(C) /\ DOMAIN n = 1 .. Len(n)
      /\ \A c \in DOMAIN named : c \in DOMAIN n /\ n[c] = oldN[c]
      /\ \A c \in DOMAIN n : c \notin DOMAIN named =>
           n[c].record \in 0 .. (Len(records) + Cardinality(R))
  <2>0. newN \in Seq(Naming) /\ Len(newN) = Cardinality(C)
    BY <1>0, <1>7, <1>8
  <2>1. /\ n \in Seq(Naming) /\ Len(n) = Len(oldN) + Len(newN)
        /\ \A i \in 1 .. Len(oldN) + Len(newN) :
             n[i] = IF i <= Len(oldN) THEN oldN[i] ELSE newN[i - Len(oldN)]
    BY <1>6, <2>0, ConcatProperties
  <2>2. DOMAIN n = 1 .. Len(n) /\ DOMAIN newN = 1 .. Len(newN)
    BY <2>0, <2>1
  <2> HIDE DEF n
  <2>3. Len(n) = Len(named) + Cardinality(C)
    BY <1>6, <2>0, <2>1
  <2>4. \A i \in DOMAIN named : i \in DOMAIN n /\ n[i] = oldN[i]
    BY <1>1, <1>6, <1>7, <2>0, <2>1, <2>2
  <2>5. ASSUME NEW c \in DOMAIN n, c \notin DOMAIN named
        PROVE  n[c].record \in 0 .. (Len(records) + Cardinality(R))
    <3>1. c - Len(named) \in DOMAIN newN /\ n[c] = newN[c - Len(named)]
      BY <1>1, <1>6, <1>7, <2>0, <2>1, <2>2, <2>3, <2>5
    <3> QED BY <1>7, <3>1
  <2> QED BY <2>1, <2>2, <2>3, <2>4, <2>5
<1> HIDE DEF r, n
<1>10. /\ list \in SUBSET DOMAIN r /\ told \in SUBSET DOMAIN n
       /\ \A c \in told : c \notin DOMAIN named
  <2>1. Added(records, R) \subseteq DOMAIN r
    BY <1>1, <1>3, <1>7, <1>8
  <2>2. TargetRecords(q, r) \subseteq DOMAIN r
    BY DEF TargetRecords, Standing
  <2>3. told \subseteq DOMAIN n /\ \A c \in told : c \notin DOMAIN named
    BY <1>1, <1>4, <1>7, <1>9
  <2> QED BY <1>2, <2>1, <2>2, <2>3
<1>11. /\ o.wait \in Wait /\ o.status \in {"pending", "completed"}
       /\ JobRight(o.status, o.wait, told, list, n, r)
       /\ list \cap Standing(r) \subseteq Todo(o.status, o.wait, list)
  BY <1>8, <1>9, <1>10, FromClaimsRight
<1> HIDE DEF o
<1>12. /\ records' \in Seq(Record) /\ Len(records') = Len(r) /\ DOMAIN records' = DOMAIN r
       /\ \A i \in DOMAIN r : /\ records'[i].status = r[i].status
                              /\ records'[i].storing = r[i].storing
                              /\ records'[i].read = r[i].read
                              /\ i \notin off => records'[i] = r[i]
  BY <1>0, <1>8, DeactivatedRight
<1>13. Outlives(r, records') /\ Outlives(n, named') /\ StaysEmbedded(n, named')
  BY <1>0, <1>12 DEF Outlives, StaysEmbedded
<1>14. Outlives(records, records') /\ Outlives(named, named') /\ StaysEmbedded(named, named')
  <2>1. ASSUME NEW i \in DOMAIN records
        PROVE  i \in DOMAIN records' /\ (records'[i].status = "current" => records[i].status = "current")
    <3>1. i \in DOMAIN r /\ records'[i].status = oldR[i].status
      BY <1>8, <1>12
    <3> QED BY <1>5, <1>12, <3>1
  <2>2. ASSUME NEW c \in DOMAIN named
        PROVE  /\ c \in DOMAIN named' /\ (named'[c].status = "current" => named[c].status = "current")
               /\ named[c].embedded => named'[c].embedded
    BY <1>0, <1>6, <1>9
  <2> QED BY <2>1, <2>2 DEF Outlives, StaysEmbedded
<1>new. PICK key : key = k
  OBVIOUS
<1>15. /\ key \in 1 .. MaxRepairs /\ row \in Repair
       /\ repairs' \in Seq(Repair) /\ Len(repairs') = key /\ DOMAIN repairs' = DOMAIN repairs \cup {key}
       /\ repairs'[key] = row /\ (\A j \in DOMAIN repairs : repairs'[j] = repairs[j] /\ j # key)
       /\ refresh' \in [1 .. MaxRepairs -> Wait] /\ refresh'[key] = o.wait
       /\ \A j \in DOMAIN repairs : refresh'[j] = refresh[j]
  <2>1. key = Len(repairs) + 1 /\ key \in 1 .. MaxRepairs
    BY <1>0, <1>1, <1>new, BoundsAreNumbers DEF k
  <2>2. list \subseteq 1 .. MaxEvents /\ told \subseteq 1 .. MaxClaims
    <3>1. Len(r) \in Nat /\ Len(n) \in Nat /\ Len(r) <= MaxEvents /\ Len(n) <= MaxClaims
      BY <1>0, <1>1, <1>7, <1>8, <1>9
    <3>2. 1 .. Len(r) \subseteq 1 .. MaxEvents /\ 1 .. Len(n) \subseteq 1 .. MaxClaims
      BY <3>1, BoundsAreNumbers
    <3> QED BY <1>8, <1>9, <1>10, <3>2
  <2>3. row \in Repair
    BY <1>11, <2>2 DEF row, Repair
  <2>4. /\ repairs' \in Seq(Repair) /\ Len(repairs') = key /\ DOMAIN repairs' = DOMAIN repairs \cup {key}
        /\ repairs'[key] = row /\ (\A j \in DOMAIN repairs : repairs'[j] = repairs[j] /\ j # key)
    BY <1>0, <1>1, <1>new, <2>1, <2>3
  <2>5. /\ refresh' \in [1 .. MaxRepairs -> Wait] /\ refresh'[key] = o.wait
        /\ \A j \in DOMAIN repairs : refresh'[j] = refresh[j]
    BY <1>0, <1>1, <1>11, <1>new, <2>1
  <2> QED BY <2>1, <2>3, <2>4, <2>5
<1>16. row.claims = told /\ row.records = list /\ row.status = o.status
  BY DEF row
<1>17. /\ entities' \in [Entity -> {"none", "active", "merged"}]
       /\ redirect' \in [Entity -> Entity \cup {Nil}] /\ RedirectInv(entities', redirect')
  <2> DEFINE e2 == [x \in Entity |-> IF q.operation = "merge"
                                     THEN IF x \in q.from THEN "merged" ELSE entities[x]
                                     ELSE IF x = q.target THEN "active" ELSE entities[x]]
             d2 == [x \in Entity |-> IF q.operation = "merge" /\ x \in q.from
                                     THEN q.target ELSE redirect[x]]
  <2>1. /\ entities' = e2 /\ redirect' = d2 /\ q.from \subseteq Entity /\ q.target \in Entity
        /\ entities \in [Entity -> {"none", "active", "merged"}]
        /\ redirect \in [Entity -> Entity \cup {Nil}]
        /\ RedirectInv(entities, redirect)
    BY <1>0 DEF PerformRepair, Merges, Splits, RepairInv, RepairTypeOK
  <2>2. CASE q.operation = "merge"
    <3>1. /\ e2 = [x \in Entity |-> IF x \in q.from THEN "merged" ELSE entities[x]]
          /\ d2 = [x \in Entity |-> IF x \in q.from THEN q.target ELSE redirect[x]]
      BY <2>2
    <3>2. /\ q.from # {} /\ q.target \in Entity \ q.from /\ entities[q.target] = "active"
          /\ \A x \in q.from : entities[x] = "active"
      BY <1>0, <2>1, <2>2 DEF Requestable, SurvivorCurrent, Mergeable
    <3> HIDE DEF e2, d2
    <3>3. RedirectInv(e2, d2)
      BY <2>1, <3>1, <3>2, MergesLead
    <3> QED BY <2>1, <3>1, <3>3
  <2>3. CASE q.operation # "merge"
    <3>1. /\ e2 = [x \in Entity |-> IF x = q.target THEN "active" ELSE entities[x]]
          /\ d2 = redirect /\ entities[q.target] = "none"
      BY <1>0, <2>1, <2>3 DEF Requestable
    <3> HIDE DEF e2, d2
    <3>2. Merged(e2) = Merged(entities)
      BY <2>1, <3>1 DEF Merged
    <3>3. PICK d \in [Entity -> Nat] : Leads(d, entities, redirect)
      BY <2>1 DEF RedirectInv
    <3>4. Leads(d, e2, d2)
      BY <2>1, <3>1, <3>2, <3>3 DEF Leads
    <3>5. RedirectInv(e2, d2)
      BY <3>4 DEF RedirectInv
    <3> QED BY <2>1, <3>1, <3>5
  <2> QED BY <2>2, <2>3
<1>18. RepairTypeOK'
  <2>1. \A c \in DOMAIN named' : named'[c].record \in {0} \cup DOMAIN records'
    <3>1. ASSUME NEW c \in DOMAIN named' PROVE named'[c].record \in {0} \cup DOMAIN records'
      <4>1. CASE c \in DOMAIN named
        <5>1. named'[c].record = named[c].record /\ named[c].record \in {0} \cup DOMAIN records
          BY <1>0, <1>6, <1>9, <4>1 DEF RepairTypeOK
        <5> QED BY <1>8, <1>12, <5>1
      <4>2. CASE c \notin DOMAIN named
        BY <1>0, <1>1, <1>7, <1>8, <1>9, <1>12, <4>2
      <4> QED BY <4>1, <4>2
    <3> QED BY <3>1
  <2>2. requests' \in 0 .. MaxRequests
    BY <1>0, RequestsTyped
  <2>3. Len(records') <= MaxEvents /\ Len(named') <= MaxClaims /\ Len(repairs') <= MaxRepairs
    BY <1>0, <1>12, <1>15
  <2>4. walk' \in Wait
    BY <1>0 DEF RepairTypeOK
  <2> QED BY <1>0, <1>9, <1>12, <1>15, <1>17, <2>1, <2>2, <2>3, <2>4 DEF RepairTypeOK
<1>19. \A j \in DOMAIN repairs' :
         \/ j \in DOMAIN repairs /\ repairs'[j] = repairs[j] /\ refresh'[j] = refresh[j]
         \/ JobInv(j)'
  <2>1. JobRight(o.status, o.wait, told, list, named', records')
    BY <1>11, <1>13, JobStaysRight
  <2>2. JobInv(key)'
    BY <1>15, <1>16, <2>1 DEF JobInv
  <2> QED BY <1>15, <2>2
<1>20. ASSUME NEW i \in Standing(records')
       PROVE  \/ i \in list
              \/ i \in Standing(records) /\ records'[i] = records[i]
  <2>1. i \in DOMAIN r /\ r[i].status = "current"
    BY <1>12 DEF Standing
  <2>2. CASE i \notin DOMAIN records
    BY <1>2, <1>8, <2>1, <2>2
  <2>3. CASE i \in DOMAIN records /\ i \notin list
    <3>1. i \notin R /\ r[i] = records[i]
      BY <1>5, <1>8, <2>1, <2>3
    <3>2. i \notin off
      BY <2>3, <3>1 DEF off
    <3> QED BY <1>12, <2>1, <2>3, <3>1, <3>2 DEF Standing
  <2> QED BY <2>2, <2>3
<1>21. \A i \in DOMAIN records' : ReadRight(records'[i])
  <2> SUFFICES ASSUME NEW i \in DOMAIN records', records'[i].status = "current",
                      records'[i].storing = "views"
               PROVE  records'[i].read
    BY DEF ReadRight
  <2>1. i \in DOMAIN records /\ i \in DOMAIN r /\ r[i] = oldR[i]
    BY <1>8, <1>12
  <2>2. r[i] = records[i]
    BY <1>5, <1>12, <2>1
  <2> QED BY <1>12, <2>1, <2>2 DEF RepairInv, ReadRight
<1>22. CoverInv'
  <2> SUFFICES ASSUME NEW i \in Standing(records'), ~ IsFound(records'[i])
               PROVE  \E j \in DOMAIN repairs' : Awaits(i, j)'
    BY DEF CoverInv
  <2>1. CASE i \in list
    <3>1. i \in Standing(r)
      BY <1>12 DEF Standing
    <3>2. Awaits(i, key)' <=> i \in Todo(repairs'[key].status, refresh'[key], repairs'[key].records)
      BY DEF Awaits
    <3>3. Awaits(i, key)'
      BY <1>11, <1>15, <1>16, <2>1, <3>1, <3>2
    <3> QED BY <1>15, <3>3
  <2>2. CASE i \notin list
    <3>1. i \in Standing(records) /\ ~ IsFound(records[i])
      BY <1>20, <2>2
    <3>2. PICK j \in DOMAIN repairs : Awaits(i, j)
      BY <3>1 DEF RepairInv, CoverInv
    <3>3. Awaits(i, j)'
      BY <1>15, <3>2 DEF Awaits
    <3> QED BY <1>15, <3>3
  <2> QED BY <2>1, <2>2
<1> QED
  BY <1>0, <1>14, <1>17, <1>18, <1>19, <1>21, <1>22, KeepsRight

-----------------------------------------------------------------------------
LEMMA RepairStep ==
  ASSUME RepairInv, [RepairNext]_repairVars
  PROVE  RepairInv'
<1>1. CASE \E e \in Stored, before \in {0} \cup Standing(records) :
             \E retract \in {FALSE, before # 0} : StoreRecord(e.names, e.about, before, retract)
  <2>1. PICK e \in Stored, before \in {0} \cup Standing(records) :
               \E retract \in {FALSE, before # 0} : StoreRecord(e.names, e.about, before, retract)
    BY <1>1
  <2>2. PICK retract \in {FALSE, before # 0} : StoreRecord(e.names, e.about, before, retract)
    BY <2>1
  <2>3. e.names \in SUBSET Entity /\ e.about \in SUBSET Entity /\ retract \in BOOLEAN
    BY EntityRepairAssumption DEF EntityRepairAssumption
  <2> QED BY <2>2, <2>3, StoreRecordRight
<1>2. CASE \E i \in DOMAIN records : EmbedRecord(i) \/ ViewRecord(i) \/ EraseRecord(i)
  BY <1>2, EmbedRecordRight, ViewRecordRight, EraseRecordRight
<1>3. CASE \E c \in DOMAIN named : EraseNaming(c)
  BY <1>3, EraseNamingRight
<1>4. CASE \E q \in Merges \cup Splits : PerformRepair(q)
  BY <1>4, PerformRepairRight
<1>5. CASE \E k \in DOMAIN repairs : EmbedClaim(k) \/ ViewRepaired(k) \/ ReplayRepair(k)
  BY <1>5, EmbedClaimRight, ViewRepairedRight, ReplayRepairRight
<1>6. CASE EnsureViews
  <2>1. Missing \in SUBSET DOMAIN records
    BY DEF Missing, Standing
  <2> QED BY <1>6, <2>1, WalkRight DEF EnsureViews
<1>7. CASE RebuildViews
  <2>1. Standing(records) \in SUBSET DOMAIN records
    BY DEF Standing
  <2> QED BY <1>7, <2>1, WalkRight DEF RebuildViews
<1>8. CASE ViewWalked
  BY <1>8, ViewWalkedRight
<1>9. CASE RepairRestart
  BY <1>9, RepairRestartRight
<1>10. CASE UNCHANGED repairVars
  <2>1. UNCHANGED <<entities, redirect, records, named, repairs, refresh, walk>> /\ RepairTypeOK'
    BY <1>10 DEF RepairInv, RepairTypeOK, repairVars
  <2>2. WalkInv(walk', records')
    BY <2>1 DEF RepairInv
  <2> QED BY <2>1, <2>2, WalkKeepsRight
<1> QED
  BY <1>1, <1>2, <1>3, <1>4, <1>5, <1>6, <1>7, <1>8, <1>9, <1>10 DEF RepairNext

\* Every current event is found, is being stored or waits for a repair, whose
\* refresh knows of it, and redirects lead to an end.
THEOREM RepairsCorrect == RepairSpec => []RepairInv
BY RepairInitRight, RepairStep, PTL DEF RepairSpec

\* Entities, rows, repairs and what waits keep their types.
THEOREM RepairTypes == RepairSpec => []RepairTypeOK
<1>1. RepairInv => RepairTypeOK
  BY DEF RepairInv
<1> QED BY <1>1, RepairsCorrect, PTL

(* A current event is searched by its views, or they are being built, or a *)
(* pending repair will build them, or the process ended while it was       *)
(* stored; a repair that completed embedded its claims (refreshProjection, *)
(* replayEntityRepairProjections).                                         *)
THEOREM NothingStaysUnindexed == RepairSpec => []NothingLeftUnindexed
BY RepairProperties, RepairsCorrect, PTL

\* The redirects of merged entities end at an active one
\* (resolveRepairedEntity, performRepair).
THEOREM MergedResolve == RepairSpec => []MergedEntitiesResolve
BY RepairProperties, RepairsCorrect, PTL

-----------------------------------------------------------------------------
(***************************************************************************)
(* The reviews.                                                            *)
(***************************************************************************)

ReviewRow == [status: {"none", "empty", "generating", "ready", "stale", "failed"},
        print: Source \cup {Unwritten},
        token: 0 .. MaxGenerations, leased: BOOLEAN]

\* The row is the newest generation's, or nobody's.
TokenInv == review.token \in {0, generations}

ReviewInv == ReviewTypeOK /\ TokenInv

-----------------------------------------------------------------------------
\* A generation that failed leaves the row to nobody.
LEMMA FailedTyped ==
  ASSUME NEW row \in ReviewRow
  PROVE  /\ FailedRow(row) \in ReviewRow
         /\ FailedRow(row).token = 0 /\ FailedRow(row).leased = FALSE
<1>1. 0 \in 0 .. MaxGenerations
  BY ReviewAssumption DEF ReviewAssumption
<1>2. FailedRow(row) \in ReviewRow
  BY <1>1 DEF FailedRow, ReviewRow
<1>3. FailedRow(row).token = 0 /\ FailedRow(row).leased = FALSE
  BY DEF FailedRow, ReviewRow
<1> QED
  BY <1>2, <1>3

\* What a look at a row changes: never the token of a lease in force.
LEMMA LooksKeepLeases ==
  ASSUME NEW row \in ReviewRow
  PROVE  /\ Serialized(row) \in ReviewRow
         /\ Serialized(row).token \in {row.token, 0}
         /\ InProgress(row) => /\ Serialized(row).token = row.token
                               /\ InProgress(Serialized(row))
<1> USE ReviewAssumption DEF ReviewAssumption, ReviewRow, InProgress
<1>1. CASE Stale(row) /\ row.status \in {"ready", "empty"}
  BY <1>1 DEF Serialized
<1>2. CASE ~(Stale(row) /\ row.status \in {"ready", "empty"})
           /\ row.status = "generating" /\ ~InProgress(row)
  <2>1. Serialized(row) = FailedRow(row)
    BY <1>2 DEF Serialized, FailedRow
  <2> QED
    BY <1>2, <2>1, FailedTyped
<1>3. CASE ~(Stale(row) /\ row.status \in {"ready", "empty"})
           /\ ~(row.status = "generating" /\ ~InProgress(row))
  <2>1. Serialized(row) = row
    BY <1>3 DEF Serialized
  <2> QED
    BY <2>1
<1> QED
  BY <1>1, <1>2, <1>3

\* The steps that a request begins with: the row, made if there was none.
LEMMA InsertedKeeps ==
  ASSUME review \in ReviewRow
  PROVE  /\ Inserted \in ReviewRow
         /\ Inserted.token = review.token /\ Inserted.leased = review.leased
BY DEF ReviewRow, Inserted

LEMMA SeenKeeps ==
  ASSUME review \in ReviewRow
  PROVE  /\ Serialized(Inserted) \in ReviewRow
         /\ Serialized(Inserted).token \in {review.token, 0}
         /\ InProgress(review) => /\ Serialized(Inserted).token = review.token
                                  /\ InProgress(Serialized(Inserted))
<1>1. Inserted \in ReviewRow /\ Inserted.token = review.token /\ Inserted.leased = review.leased
  BY InsertedKeeps
<1>2. InProgress(review) => InProgress(Inserted)
  BY <1>1 DEF InProgress
<1> QED
  BY <1>1, <1>2, LooksKeepLeases

\* How a generation takes the row and gives it back.
LEMMA RowsTyped ==
  ASSUME NEW row \in ReviewRow, NEW snapshot \in Source, NEW token \in 0 .. MaxGenerations
  PROVE  /\ Leased(row, token) \in ReviewRow /\ Leased(row, token).token = token
         /\ Written(row, snapshot) \in ReviewRow /\ Written(row, snapshot).token = 0
         /\ FailedRow(row) \in ReviewRow /\ FailedRow(row).token = 0
<1> USE ReviewAssumption DEF ReviewAssumption, ReviewRow
<1>1. Leased(row, token) \in ReviewRow /\ Leased(row, token).token = token
  BY DEF Leased
<1>2. FailedRow(row) \in ReviewRow /\ FailedRow(row).token = 0
  BY FailedTyped
<1>3. PICK status \in {"stale", "empty", "ready"} :
        Written(row, snapshot) =
          [row EXCEPT !.status = status, !.print = snapshot, !.token = 0, !.leased = FALSE]
  BY DEF Written
<1> QED
  BY <1>1, <1>2, <1>3

-----------------------------------------------------------------------------
LEMMA ReviewInitInv == ReviewInit => ReviewInv
BY ReviewAssumption DEF ReviewAssumption, ReviewInit, ReviewInv, ReviewTypeOK, TokenInv, Quiet

LEMMA ReviewStep ==
  ASSUME ReviewInv, [ReviewNext]_reviewVars
  PROVE  ReviewInv'
<1> USE DEF ReviewInv
<1>row. review \in ReviewRow
  BY DEF ReviewTypeOK, ReviewRow
<1>ok. ASSUME review' \in ReviewRow, review'.token \in {0, generations'}, sources' \in Source,
              asking' \in [Caller -> [token: 0 .. MaxGenerations, snapshot: Source]],
              generations' \in 0 .. MaxGenerations, writer' \in 0 .. MaxGenerations
       PROVE  ReviewInv'
  BY <1>ok DEF ReviewTypeOK, TokenInv, ReviewRow
<1>quiet. Quiet \in [token: 0 .. MaxGenerations, snapshot: Source]
  BY ReviewAssumption DEF ReviewAssumption, Quiet
<1>1. CASE Read
  BY <1>1, <1>row, <1>ok, LooksKeepLeases DEF Read, ReviewTypeOK, TokenInv
<1>2. CASE LeasePasses
  BY <1>2, <1>row, <1>ok DEF LeasePasses, ReviewTypeOK, TokenInv, ReviewRow
<1>3. CASE SourcesChange
  BY <1>3, <1>row, <1>ok DEF SourcesChange, ReviewTypeOK, TokenInv
<1>4. CASE ReviewRestart
  BY <1>4, <1>row, <1>ok, <1>quiet DEF ReviewRestart, ReviewTypeOK, TokenInv
<1>5. ASSUME NEW forced \in BOOLEAN, Reuse(forced) PROVE ReviewInv'
  BY <1>5, <1>row, <1>ok, SeenKeeps DEF Reuse, ReviewTypeOK, TokenInv
<1>6. ASSUME NEW caller \in Caller, NEW forced \in BOOLEAN, Generate(caller, forced)
      PROVE  ReviewInv'
  <2> DEFINE token == generations + 1
             taken == Leased(Serialized(Inserted), token)
  <2>1. token \in 0 .. MaxGenerations /\ generations' = token
    BY <1>6, ReviewAssumption DEF Generate, ReviewTypeOK
  <2>2. taken \in ReviewRow /\ taken.token = token
    BY <2>1, <1>row, SeenKeeps, RowsTyped, ReviewAssumption
  <2>3. review' \in {taken, Written(taken, Empty), FailedRow(taken)}
    BY <1>6 DEF Generate
  <2>4. review' \in ReviewRow /\ review'.token \in {0, generations'}
    BY <2>1, <2>2, <2>3, RowsTyped, ReviewAssumption
  <2>5. /\ sources' \in Source /\ writer' \in 0 .. MaxGenerations
        /\ asking' \in [Caller -> [token: 0 .. MaxGenerations, snapshot: Source]]
    BY <1>6, <2>1 DEF Generate, ReviewTypeOK
  <2> QED
    BY <2>1, <2>4, <2>5, <1>ok
<1>7. ASSUME NEW caller \in Caller, Answer(caller) PROVE ReviewInv'
  <2>1. asking[caller].token \in 0 .. MaxGenerations /\ asking[caller].snapshot \in Source
    BY DEF ReviewTypeOK
  <2> DEFINE row == IF OwnsLease(asking[caller].token)
                    THEN Written(review, asking[caller].snapshot) ELSE review
  <2>2. row \in ReviewRow /\ row.token \in {0, generations}
    BY <2>1, <1>row, RowsTyped DEF TokenInv
  <2>3. review' = Serialized(row) /\ generations' = generations
    BY <1>7 DEF Answer
  <2>4. review' \in ReviewRow /\ review'.token \in {0, generations'}
    BY <2>2, <2>3, LooksKeepLeases
  <2>5. /\ sources' \in Source /\ writer' \in 0 .. MaxGenerations
        /\ asking' \in [Caller -> [token: 0 .. MaxGenerations, snapshot: Source]]
    BY <1>7, <2>1, <1>quiet DEF Answer, ReviewTypeOK
  <2> QED
    BY <2>3, <2>4, <2>5, <1>ok DEF ReviewTypeOK
<1>8. ASSUME NEW caller \in Caller, Fail(caller) PROVE ReviewInv'
  <2> DEFINE row == IF OwnsLease(asking[caller].token) THEN FailedRow(review) ELSE review
  <2>1. row \in ReviewRow /\ row.token \in {0, generations}
    BY <1>row, RowsTyped, ReviewAssumption DEF TokenInv, ReviewTypeOK
  <2>2. review' = Serialized(row) /\ generations' = generations
    BY <1>8 DEF Fail
  <2>3. review' \in ReviewRow /\ review'.token \in {0, generations'}
    BY <2>1, <2>2, LooksKeepLeases
  <2> QED
    BY <1>8, <2>2, <2>3, <1>quiet, <1>ok DEF Fail, ReviewTypeOK
<1>9. CASE UNCHANGED reviewVars
  BY <1>9, <1>row, <1>ok DEF reviewVars, ReviewTypeOK, TokenInv
<1> QED
  BY <1>1, <1>2, <1>3, <1>4, <1>5, <1>6, <1>7, <1>8, <1>9 DEF ReviewNext

\* Every variable of a review keeps its type, and the row's token is always the
\* newest generation's or nobody's.
THEOREM ReviewCorrect == ReviewSpec => []ReviewInv
BY ReviewInitInv, ReviewStep, PTL DEF ReviewSpec

-----------------------------------------------------------------------------
NewestAlone ==
  /\ writer' # writer => writer' = generations'
  /\ InProgress(review) /\ review'.token # review.token =>
       \E c \in Caller : asking[c].token = review.token /\ asking'[c] = Quiet

LEMMA NewestStep ==
  ASSUME ReviewInv, [ReviewNext]_reviewVars
  PROVE  NewestAlone
<1> USE DEF ReviewInv
<1>row. review \in ReviewRow
  BY DEF ReviewTypeOK, ReviewRow
<1>1. CASE Read
  BY <1>1, <1>row, LooksKeepLeases DEF Read, NewestAlone
<1>2. CASE LeasePasses
  BY <1>2, <1>row DEF LeasePasses, NewestAlone, ReviewRow
<1>3. CASE SourcesChange \/ ReviewRestart \/ UNCHANGED reviewVars
  BY <1>3 DEF SourcesChange, ReviewRestart, reviewVars, NewestAlone
<1>4. ASSUME NEW forced \in BOOLEAN, Reuse(forced) PROVE NewestAlone
  BY <1>4, <1>row, SeenKeeps DEF Reuse, NewestAlone
<1>5. ASSUME NEW caller \in Caller, NEW forced \in BOOLEAN, Generate(caller, forced)
      PROVE  NewestAlone
  <2>1. ~InProgress(review)
    BY <1>5, <1>row, SeenKeeps DEF Generate
  <2>2. writer' # writer => writer' = generations'
    BY <1>5 DEF Generate
  <2> QED
    BY <2>1, <2>2 DEF NewestAlone
<1>6. ASSUME NEW caller \in Caller, Answer(caller) PROVE NewestAlone
  <2>1. writer' # writer => writer' = generations'
    BY <1>6 DEF Answer, OwnsLease, TokenInv
  <2>2. CASE OwnsLease(asking[caller].token)
    BY <1>6, <2>1, <2>2 DEF Answer, OwnsLease, NewestAlone, ReviewTypeOK
  <2>3. CASE ~OwnsLease(asking[caller].token)
    <3>1. review' = Serialized(review)
      BY <1>6, <2>3 DEF Answer
    <3> QED
      BY <3>1, <2>1, <1>row, LooksKeepLeases DEF NewestAlone
  <2> QED
    BY <2>2, <2>3
<1>7. ASSUME NEW caller \in Caller, Fail(caller) PROVE NewestAlone
  <2>1. CASE OwnsLease(asking[caller].token)
    BY <1>7, <2>1 DEF Fail, OwnsLease, NewestAlone, ReviewTypeOK
  <2>2. CASE ~OwnsLease(asking[caller].token)
    <3>1. review' = Serialized(review) /\ writer' = writer
      BY <1>7, <2>2 DEF Fail
    <3> QED
      BY <3>1, <1>row, LooksKeepLeases DEF NewestAlone
  <2> QED
    BY <2>1, <2>2
<1> QED
  BY <1>1, <1>2, <1>3, <1>4, <1>5, <1>6, <1>7 DEF ReviewNext

\* Only the newest generation writes, and nobody else ends a generation whose
\* lease is in force (generateMemoryReview, serializeReview).
THEOREM NewestWrites == ReviewSpec => NewestGenerationWrites
<1>1. ReviewInv /\ [ReviewNext]_reviewVars => [NewestAlone]_reviewVars
  BY NewestStep
<1> QED
  BY <1>1, ReviewCorrect, PTL DEF ReviewSpec, NewestGenerationWrites, NewestAlone

-----------------------------------------------------------------------------
(***************************************************************************)
(* Side by side.                                                           *)
(***************************************************************************)

StoredInv == LedgerInv /\ FieldsInv /\ RepairInv /\ ReviewInv

\* The state functions of a part that stands still stay what they are.
LEMMA StoredStep == StoredInv /\ [Next]_vars => StoredInv'
<1> SUFFICES ASSUME StoredInv, [Next]_vars PROVE StoredInv'
  OBVIOUS
<1>1. /\ [LedgerNext]_ledgerVars /\ [FieldsNext]_fieldVars
      /\ [RepairNext]_repairVars /\ [ReviewNext]_reviewVars
  BY Zenon DEF Next, vars
<1>2. LedgerInv'
  BY <1>1, LedgerStep DEF StoredInv
<1>3. FieldsInv'
  BY <1>1, FieldsStep DEF StoredInv
<1>4. RepairInv'
  BY <1>1, RepairStep DEF StoredInv
<1>5. ReviewInv'
  BY <1>1, ReviewStep DEF StoredInv
<1> QED BY <1>2, <1>3, <1>4, <1>5 DEF StoredInv

\* The rows of all the tables of a scope are what they should be.
THEOREM StoredTypes == Spec => []TypeOK
<1>1. Init => StoredInv
  BY LedgerInitRight, FieldsInitRight, RepairInitRight, ReviewInitInv DEF Init, StoredInv
<1>2. StoredInv => TypeOK
  <2>1. LedgerInv => LedgerTypeOK
    BY DEF LedgerInv
  <2>2. FieldsInv => FieldsTypeOK
    BY DEF FieldsInv
  <2>3. RepairInv => RepairTypeOK
    BY DEF RepairInv
  <2>4. ReviewInv => ReviewTypeOK
    BY DEF ReviewInv
  <2> QED BY <2>1, <2>2, <2>3, <2>4 DEF StoredInv, TypeOK
<1> QED BY <1>1, <1>2, StoredStep, PTL DEF Spec
=============================================================================
