--------------------- MODULE ConversationContextProofs ---------------------
(***************************************************************************)
(* Proofs about ConversationContext, for any processes, budgets and number *)
(* of messages: types, that a context is the whole history that was read,  *)
(* and that a snapshot is made active only by whoever holds the lease.  At *)
(* the end, what a run of MCConversation keeps, with the turns and the     *)
(* page beside it.                                                         *)
(***************************************************************************)
EXTENDS MCConversation, ConversationTurnsProofs

\* covers are the first texts of the messages, and a row covers just them.
Heads(covers, msgs) ==
  /\ covers \in Seq(Text) /\ Len(covers) <= Len(msgs)
  /\ First(Texts(msgs), Len(covers)) = covers

Backed(rows, covers) == covers = <<>> \/ \E c \in rows : c.covers = covers

\* A summary has the texts that its row covers.
RowsInv(rows) == \A c \in rows : c.covers \in Seq(Text) /\ c.summary = c.covers

\* A build goes on from a snapshot of a part of what it read, when n messages
\* have been said, and the batch it summarises is what comes next.
BuildInv(row, rows, n) ==
  /\ row \in Build
  /\ row.at # "idle" => /\ Len(row.messages) <= n
                        /\ row.target <= Len(row.messages)
                        /\ Heads(row.snapshot, row.messages)
                        /\ Backed(rows, row.snapshot)
  /\ row.at = "generating" => Len(row.snapshot) < row.upto /\ row.upto <= Len(row.messages)

\* Nothing was made active since the owner of the lease took it.
LeaseInv ==
  \A p \in Process : lease.owner = p /\ builder[p].at = "generating" => builder[p].base = active

ContextInv ==
  /\ history \in Seq(Message) /\ Len(history) <= MaxMessages
  /\ mishaps \in 0 .. MaxMishaps
  /\ RowsInv(snapshots)
  /\ active \in Seq(Text) /\ Backed(snapshots, active)
  /\ lease \in [owner: Process \cup {Nobody}, live: BOOLEAN]
  /\ builder \in [Process -> Build]
  /\ context \in [read : Seq(Text), given : Seq(Text)]
  /\ \A p \in Process : BuildInv(builder[p], snapshots, Len(history))
  /\ LeaseInv
  /\ ContextIsWhole

-----------------------------------------------------------------------------
(* The greatest and the least of a set of numbers.                         *)

LEMMA MinIsMember ==
  ASSUME NEW S \in SUBSET Nat, S # {}
  PROVE  Min(S) \in S /\ \A s \in S : Min(S) <= s
<1>1. PICK x \in S : \A y \in S : ~ (<<y, x>> \in OpToRel(<, Nat))
  BY NatLessThanWellFounded, WFMin
<1>2. ASSUME NEW y \in S PROVE x <= y
  <2>1. x \in Nat /\ y \in Nat /\ ~ (<<y, x>> \in {ss \in Nat \X Nat : ss[1] < ss[2]})
    BY <1>1 DEF OpToRel
  <2>2. ~ (y < x)
    BY <2>1
  <2> QED
    BY <2>1, <2>2
<1> QED
  BY <1>2 DEF Min

LEMMA MaxIsMember ==
  ASSUME NEW n \in Nat, NEW S \in SUBSET (0 .. n), S # {}
  PROVE  Max(S) \in S /\ \A s \in S : s <= Max(S)
<1> DEFINE T == {m \in 0 .. n : n - m \in S}
<1>1. T \in SUBSET Nat /\ T # {}
  <2>1. PICK s \in S : TRUE
    OBVIOUS
  <2>2. n - s \in T
    BY <2>1
  <2> QED
    BY <2>2
<1>2. PICK x \in T : \A y \in T : x <= y
  BY <1>1, MinIsMember
<1>3. n - x \in S /\ \A s \in S : n - x >= s
  <2>1. \A s \in S : n - s \in T
    OBVIOUS
  <2> QED
    BY <1>2, <2>1
<1>4. Max(S) \in S /\ \A s \in S : Max(S) >= s
  BY <1>3 DEF Max
<1> QED
  BY <1>4

-----------------------------------------------------------------------------
LEMMA TextsType ==
  ASSUME NEW msgs \in Seq(Message)
  PROVE  Texts(msgs) \in Seq(Text) /\ Len(Texts(msgs)) = Len(msgs)
<1>1. Len(msgs) \in Nat /\ DOMAIN msgs = 1 .. Len(msgs)
  BY LenProperties
<1>2. ASSUME NEW i \in 1 .. Len(msgs) PROVE msgs[i].text \in Text
  <2>1. msgs[i] \in Message
    BY ElementOfSeq
  <2> QED
    BY <2>1 DEF Message
<1>3. Texts(msgs) \in [1 .. Len(msgs) -> Text]
  BY <1>1, <1>2 DEF Texts
<1>4. Texts(msgs) \in Seq(Text)
  BY <1>1, <1>3, SeqDef
<1> QED
  BY <1>1, <1>3, <1>4, LenProperties

LEMMA FirstType ==
  ASSUME NEW S, NEW s \in Seq(S), NEW n \in 0 .. Len(s)
  PROVE  First(s, n) \in Seq(S) /\ Len(First(s, n)) = n
<1>1. Len(s) \in Nat /\ \A i \in 1 .. n : s[i] \in S
  BY LenProperties, ElementOfSeq
<1> QED
  BY <1>1, SubSeqProperties DEF First

\* A summary and the texts after it, up to n, are the first n texts.
LEMMA SummaryAndRest ==
  ASSUME NEW msgs \in Seq(Message), NEW covers, Heads(covers, msgs),
         NEW n \in Len(covers) .. Len(msgs)
  PROVE  covers \o SubSeq(Texts(msgs), Len(covers) + 1, n) = First(Texts(msgs), n)
<1> DEFINE texts == Texts(msgs)
           k == Len(covers)
<1>1. texts \in Seq(Text) /\ Len(texts) = Len(msgs) /\ Len(msgs) \in Nat
  BY TextsType, LenProperties
<1>2. k \in 0 .. Len(texts) /\ n \in k .. Len(texts) /\ SubSeq(texts, 1, k) = covers
  BY <1>1, LenProperties DEF Heads, First
<1> HIDE DEF texts, k
<1>3. SubSeq(texts, 1, k) \o SubSeq(texts, k + 1, n) = SubSeq(texts, 1, n)
  <2>1. 1 \in 1 .. Len(texts) + 1 /\ k \in (1 - 1) .. Len(texts)
    BY <1>1, <1>2
  <2> QED
    BY <1>1, <1>2, <2>1, ConcatAdjacentSubSeq
<1> QED
  BY <1>2, <1>3 DEF First, texts, k

\* What a model is given is what was read.
LEMMA ResultIsWhole ==
  ASSUME NEW msgs \in Seq(Message), NEW rows, RowsInv(rows), NEW covers,
         Heads(covers, msgs), Backed(rows, covers)
  PROVE  LET result == ContextResult(rows, msgs, covers)
         IN  result \in [read : Seq(Text), given : Seq(Text)] /\ result.given = result.read
<1>1. SummaryOf(rows, covers) = covers
  BY DEF SummaryOf, Backed, RowsInv
<1>2. Len(covers) \in Nat /\ Len(msgs) \in Nat /\ Len(covers) <= Len(msgs)
  BY LenProperties DEF Heads
<1>3. covers \o SubSeq(Texts(msgs), Len(covers) + 1, Len(msgs))
        = First(Texts(msgs), Len(msgs))
  BY <1>2, SummaryAndRest
<1>4. First(Texts(msgs), Len(msgs)) = Texts(msgs)
  BY TextsType, SubSeqFull DEF First
<1> QED
  BY <1>1, <1>3, <1>4, TextsType DEF ContextResult

-----------------------------------------------------------------------------
(* What is summarised is a part of what was read.                          *)

LEMMA TargetIsRead ==
  ASSUME NEW msgs \in Seq(Message)
  PROVE  CompactionTarget(msgs) \in 0 .. Len(msgs)
<1> DEFINE n      == Len(msgs)
           starts == GroupStarts(msgs)
           later  == Max({i \in starts : n - i + 1 >= Keep} \cup {1})
           least  == IF msgs[n].role = "user" THEN Max(starts \ {Max(starts)}) ELSE Max(starts)
           late   == {i \in starts : i >= later /\ (n - i + 1 <= Available \/ i >= least)}
           first  == IF later >= least THEN later ELSE Min(late)
           ends   == {i \in 1 .. first - 1 : msgs[i].role = "assistant"} \cup {0}
<1>1. CompactionTarget(msgs) = IF Cardinality(starts) < 2 THEN 0 ELSE Max(ends)
  BY DEF CompactionTarget
<1>2. n \in Nat /\ starts \subseteq 1 .. n
  BY LenProperties DEF GroupStarts
<1>3. CASE Cardinality(starts) < 2
  BY <1>1, <1>2, <1>3
<1>4. CASE ~ (Cardinality(starts) < 2)
  <2>1. starts # {} /\ \A x \in starts : starts \ {x} # {}
    <3> HIDE DEF starts
    <3>1. starts # {}
      <4>1. ASSUME starts = {} PROVE Cardinality(starts) = 0
        BY <4>1, FS_EmptySet, Zenon
      <4> QED
        BY <1>4, <4>1
    <3>2. ASSUME NEW x \in starts, starts \ {x} = {} PROVE FALSE
      <4>1. starts = {x}
        BY <3>2
      <4>2. Cardinality(starts) = 1
        BY <4>1, FS_Singleton
      <4> QED
        BY <1>4, <4>2
    <3> QED
      BY <3>1, <3>2
  <2>2. n >= 1 /\ later \in 1 .. n
    <3> DEFINE late1 == {i \in starts : n - i + 1 >= Keep} \cup {1}
    <3>1. n >= 1 /\ late1 \in SUBSET (0 .. n) /\ late1 # {} /\ late1 \subseteq 1 .. n
      BY <1>2, <2>1
    <3> HIDE DEF late1
    <3>2. Max(late1) \in late1
      BY <1>2, <3>1, MaxIsMember
    <3> QED
      BY <3>1, <3>2 DEF late1
  <2>3. least \in starts
    <3> HIDE DEF starts
    <3>t. starts \in SUBSET (0 .. n)
      BY <1>2
    <3> HIDE DEF n
    <3>1. Max(starts) \in starts
      BY <1>2, <2>1, <3>t, MaxIsMember
    <3> DEFINE others == starts \ {Max(starts)}
    <3>2. others \in SUBSET (0 .. n) /\ others # {} /\ others \subseteq starts
      BY <2>1, <3>t, <3>1
    <3> HIDE DEF others
    <3>3. Max(others) \in starts
      BY <1>2, <3>2, MaxIsMember
    <3> QED
      BY <3>1, <3>3 DEF least, others
  <2>4. first \in 1 .. n
    <3> HIDE DEF starts, later, least
    <3>1. CASE later >= least
      BY <2>2, <3>1
    <3>2. CASE ~ (later >= least)
      <4>s. late \subseteq starts
        BY Zenon
      <4>1. late \in SUBSET Nat /\ late \subseteq starts
        <5> HIDE DEF late
        <5> QED
          BY <1>2, <4>s
      <4>3. least \in Nat /\ least >= later
        BY <1>2, <2>2, <2>3, <3>2
      <4>4. least \in late
        BY <2>3, <4>3
      <4> HIDE DEF late
      <4>2. Min(late) \in late
        BY <4>1, <4>4, MinIsMember
      <4> QED
        BY <1>2, <3>2, <4>1, <4>2
    <3> QED
      BY <3>1, <3>2
  <2>5. Max(ends) \in 0 .. n
    <3> HIDE DEF first
    <3>1. ends \in SUBSET (0 .. n) /\ ends # {}
      BY <1>2, <2>4
    <3> HIDE DEF ends
    <3> QED
      BY <1>2, <3>1, MaxIsMember
  <2> QED
    BY <1>1, <1>4, <2>5
<1> QED
  BY <1>3, <1>4

LEMMA BatchIsNext ==
  ASSUME NEW msgs, NEW covered \in Nat, NEW target \in Nat
  PROVE  BatchEnd(msgs, covered, target) \in {0} \cup covered + 1 .. target
<1> DEFINE ends == {i \in covered + 1 .. target :
                     /\ i - covered <= BatchLimit /\ msgs[i].role = "assistant"
                     /\ i = target \/ i + 1 \in GroupStarts(msgs)} \cup {0}
<1>1. BatchEnd(msgs, covered, target) = Max(ends)
  BY DEF BatchEnd
<1>2. ends \in SUBSET (0 .. target) /\ ends # {} /\ ends \subseteq {0} \cup covered + 1 .. target
  OBVIOUS
<1> HIDE DEF ends
<1> QED
  BY <1>1, <1>2, MaxIsMember

LEMMA MatchingBegins ==
  ASSUME NEW msgs \in Seq(Message), NEW rows, RowsInv(rows),
         NEW covers \in Seq(Text), Backed(rows, covers)
  PROVE  /\ Heads(Matching(covers, msgs), msgs)
         /\ Backed(rows, Matching(covers, msgs))
<1>1. Heads(<<>>, msgs)
  <2>1. <<>> \in Seq(Text) /\ Len(<<>>) = 0 /\ Len(msgs) \in Nat
    BY EmptySeq, LenProperties
  <2>2. SubSeq(Texts(msgs), 1, 0) = <<>>
    BY SubSeqEmpty
  <2> QED
    BY <2>1, <2>2 DEF Heads, First
<1>2. SnapshotMatches(covers, msgs) => Heads(covers, msgs)
  BY DEF SnapshotMatches, Heads
<1> QED
  BY <1>1, <1>2 DEF Matching, Backed

-----------------------------------------------------------------------------
(* What every step of a build has to show.                                 *)

LEMMA AtRestInv ==
  ASSUME NEW rows, NEW n PROVE BuildInv(AtRest, rows, n)
BY EmptySeq DEF BuildInv, AtRest, Build

LEMMA BuildsGoOn ==
  ASSUME NEW rows, NEW more, rows \subseteq more, NEW n \in Nat, NEW m \in Nat, n <= m,
         NEW row, BuildInv(row, rows, n)
  PROVE  BuildInv(row, more, m)
<1>1. row \in Build /\ Len(row.messages) \in Nat
  BY LenProperties DEF BuildInv, Build
<1>2. row.at # "idle" => Backed(more, row.snapshot)
  BY DEF BuildInv, Backed
<1> QED
  BY <1>1, <1>2 DEF BuildInv

\* Process p goes on with row; the lease is no one else's than it was.
LEMMA RowMoves ==
  ASSUME ContextInv, NEW p \in Process, NEW row,
         BuildInv(row, snapshots', Len(history')), builder' = [builder EXCEPT ![p] = row],
         snapshots \subseteq snapshots', history' = history,
         lease'.owner = p /\ row.at = "generating" => row.base = active',
         \A q \in Process \ {p} : lease'.owner = q => lease.owner = q /\ active' = active
  PROVE  /\ builder' \in [Process -> Build]
         /\ \A q \in Process : BuildInv(builder'[q], snapshots', Len(history'))
         /\ LeaseInv'
<1>1. builder \in [Process -> Build] /\ row \in Build
  BY DEF ContextInv, BuildInv
<1>2. builder'[p] = row /\ \A q \in Process \ {p} : builder'[q] = builder[q]
  BY <1>1
<1>3. ASSUME NEW q \in Process PROVE BuildInv(builder'[q], snapshots', Len(history'))
  <2>1. CASE q = p
    BY <1>2, <2>1
  <2>2. CASE q # p
    <3>1. BuildInv(builder[q], snapshots, Len(history)) /\ Len(history) \in Nat
      BY LenProperties DEF ContextInv
    <3> QED
      BY <1>2, <2>2, <3>1, BuildsGoOn
  <2> QED
    BY <2>1, <2>2
<1>4. LeaseInv'
  <2> SUFFICES ASSUME NEW q \in Process, lease'.owner = q, builder'[q].at = "generating"
               PROVE  builder'[q].base = active'
    BY DEF LeaseInv
  <2>1. CASE q = p
    BY <1>2, <2>1
  <2>2. CASE q # p
    BY <1>2, <2>2 DEF ContextInv, LeaseInv
  <2> QED
    BY <2>1, <2>2
<1> QED
  BY <1>1, <1>3, <1>4

LEMMA ReturnsRight ==
  ASSUME ContextInv, NEW p \in Process, NEW msgs \in Seq(Message), NEW covers,
         Heads(covers, msgs), Backed(snapshots, covers), Returns(p, msgs, covers),
         UNCHANGED <<history, snapshots, active>>, mishaps' \in 0 .. MaxMishaps,
         lease' \in {lease, Released(p)}
  PROVE  ContextInv'
<1>1. context' \in [read : Seq(Text), given : Seq(Text)] /\ context'.given = context'.read
  BY ResultIsWhole DEF ContextInv, Returns
<1>2. /\ lease' \in [owner: Process \cup {Nobody}, live: BOOLEAN]
      /\ \A q \in Process \ {p} : lease'.owner = q => lease.owner = q
  <2>1. lease \in [owner: Process \cup {Nobody}, live: BOOLEAN]
    BY DEF ContextInv
  <2>2. CASE lease' = lease
    BY <2>1, <2>2
  <2>3. CASE lease' = [owner |-> Nobody, live |-> FALSE]
    BY <2>3, ContextAssumption DEF ContextAssumption
  <2> QED
    BY <2>2, <2>3 DEF Released
<1>3. /\ builder' \in [Process -> Build]
      /\ \A q \in Process : BuildInv(builder'[q], snapshots', Len(history'))
      /\ LeaseInv'
  <2>1. builder' = [builder EXCEPT ![p] = AtRest] /\ AtRest.at = "idle"
    BY DEF Returns, AtRest
  <2>2. BuildInv(AtRest, snapshots', Len(history'))
    BY AtRestInv
  <2> HIDE DEF AtRest
  <2> QED
    BY <1>2, <2>1, <2>2, RowMoves
<1> QED
  BY <1>1, <1>2, <1>3 DEF ContextInv, ContextIsWhole

\* The loop of a build, from the snapshot it just claimed or committed.
LEMMA ContinuesRight ==
  ASSUME ContextInv, NEW p \in Process, NEW row, row.at # "idle",
         BuildInv(row, snapshots', Len(history)), NEW covers, Heads(covers, row.messages),
         Backed(snapshots', covers), RowsInv(snapshots'), snapshots \subseteq snapshots',
         active' \in Seq(Text), Backed(snapshots', active'),
         active' = active \/ lease.owner \notin Process \ {p},
         NEW pass \in Nat, Continues(p, row, covers, pass), UNCHANGED <<history, mishaps>>
  PROVE  ContextInv' /\ (builder'[p].at = "idle" \/ builder'[p].pass = pass)
<1> DEFINE upto == BatchEnd(row.messages, Len(covers), row.target)
           stop == Len(covers) >= row.target \/ upto = 0 \/ pass = MaxPasses
           next == [row EXCEPT !.at = "generating", !.snapshot = covers, !.upto = upto,
                               !.pass = pass, !.base = active']
<1>1. /\ row \in Build /\ row.messages \in Seq(Message) /\ row.target \in Nat
      /\ Len(row.messages) \in Nat /\ Len(row.messages) <= Len(history)
      /\ row.target <= Len(row.messages)
      /\ Len(covers) \in Nat /\ covers \in Seq(Text)
  BY LenProperties DEF BuildInv, Build, Heads
<1>2. upto \in {0} \cup Len(covers) + 1 .. row.target
  BY <1>1, BatchIsNext
<1>o. \A q \in Process \ {p} : p # q /\ Nobody # q
  BY ContextAssumption DEF ContextAssumption
<1>b. builder \in [Process -> Build]
  BY DEF ContextInv
<1>3. CASE stop
  <2>1. /\ builder' = [builder EXCEPT ![p] = AtRest] /\ AtRest.at = "idle"
        /\ context' = ContextResult(snapshots', row.messages, covers)
        /\ lease' = [owner |-> Nobody, live |-> FALSE]
    BY <1>3 DEF Continues, AtRest
  <2>2. context' \in [read : Seq(Text), given : Seq(Text)] /\ context'.given = context'.read
    BY <1>1, <2>1, ResultIsWhole
  <2>3. BuildInv(AtRest, snapshots', Len(history'))
    BY AtRestInv
  <2>4. lease' \in [owner: Process \cup {Nobody}, live: BOOLEAN] /\ lease'.owner = Nobody
    BY <2>1
  <2> HIDE DEF AtRest
  <2>5. /\ builder' \in [Process -> Build]
        /\ \A q \in Process : BuildInv(builder'[q], snapshots', Len(history'))
        /\ LeaseInv'
    BY <1>o, <2>1, <2>3, <2>4, RowMoves
  <2> QED
    BY <1>b, <2>1, <2>2, <2>4, <2>5 DEF ContextInv, ContextIsWhole
<1>4. CASE ~ stop
  <2>1. /\ builder' = [builder EXCEPT ![p] = next] /\ context' = context
        /\ lease' = [owner |-> p, live |-> TRUE]
    BY <1>4 DEF Continues
  <2>2. upto \in Nat /\ Len(covers) < upto /\ upto <= row.target
    BY <1>1, <1>2, <1>4
  <2> HIDE DEF upto
  <2>3. /\ next \in Build /\ next.at = "generating" /\ next.base = active' /\ next.pass = pass
        /\ next.snapshot = covers /\ next.upto = upto
        /\ next.messages = row.messages /\ next.target = row.target
    BY <1>1, <2>2 DEF Build
  <2> HIDE DEF next
  <2>4. BuildInv(next, snapshots', Len(history'))
    BY <1>1, <2>2, <2>3 DEF BuildInv
  <2>5. lease' \in [owner: Process \cup {Nobody}, live: BOOLEAN] /\ lease'.owner = p
    BY <2>1
  <2>6. /\ builder' \in [Process -> Build]
        /\ \A q \in Process : BuildInv(builder'[q], snapshots', Len(history'))
        /\ LeaseInv'
    BY <1>o, <2>1, <2>3, <2>4, <2>5, RowMoves
  <2> QED
    BY <1>b, <2>1, <2>3, <2>5, <2>6 DEF ContextInv, ContextIsWhole
<1> QED
  BY <1>3, <1>4

-----------------------------------------------------------------------------
LEMMA ContextInitInv == ContextInit => ContextInv
<1> SUFFICES ASSUME ContextInit PROVE ContextInv
  OBVIOUS
<1>1. <<>> \in Seq(Message) /\ <<>> \in Seq(Text)
  BY EmptySeq
<1>2. \A p \in Process : builder[p] = AtRest /\ BuildInv(AtRest, snapshots, Len(history))
  BY AtRestInv DEF ContextInit
<1>3. builder \in [Process -> Build]
  BY <1>2 DEF ContextInit, BuildInv
<1>4. mishaps \in 0 .. MaxMishaps /\ Len(<<>>) <= MaxMessages
  BY EmptySeq, ContextAssumption DEF ContextAssumption, ContextInit
<1>5. \A p \in Process : lease.owner # p
  BY ContextAssumption DEF ContextAssumption, ContextInit
<1> QED
  BY <1>1, <1>2, <1>3, <1>4, <1>5
     DEF ContextInit, ContextInv, RowsInv, Backed, LeaseInv, ContextIsWhole

\* A part of the history is as good as the whole for what was made from it.
LEMMA ReadsRight ==
  ASSUME ContextInv, NEW p \in Process, NEW n \in 1 .. Len(history), Reads(p, n)
  PROVE  ContextInv'
<1> DEFINE msgs == First(history, n)
           covers   == Matching(active, msgs)
           target   == CompactionTarget(msgs)
           next     == [builder[p] EXCEPT !.at = "read", !.messages = msgs,
                                          !.snapshot = covers, !.target = target]
<1>1. /\ Len(history) \in Nat /\ msgs \in Seq(Message) /\ Len(msgs) = n
      /\ builder \in [Process -> Build] /\ builder[p] \in Build
  BY LenProperties, FirstType DEF ContextInv
<1>2. Heads(covers, msgs) /\ Backed(snapshots, covers)
  BY <1>1, MatchingBegins DEF ContextInv
<1>3. Heads(<<>>, msgs) /\ Backed(snapshots, <<>>)
  <2>1. Matching(<<>>, msgs) = <<>> /\ Backed(snapshots, <<>>) /\ <<>> \in Seq(Text)
    BY EmptySeq DEF Matching, Backed
  <2> QED
    BY <1>1, <2>1, MatchingBegins DEF ContextInv
<1>4. target \in Nat /\ target <= Len(msgs)
  BY <1>1, TargetIsRead
<1>5. UNCHANGED <<history, snapshots, active, lease, mishaps>> /\ mishaps \in 0 .. MaxMishaps
  BY DEF Reads, ContextInv
<1>6. \/ Returns(p, msgs, <<>>) \/ Returns(p, msgs, covers)
      \/ builder' = [builder EXCEPT ![p] = next] /\ context' = context
  BY DEF Reads
<1> HIDE DEF msgs, covers, target
<1>7. CASE Returns(p, msgs, <<>>)
  BY <1>1, <1>3, <1>5, <1>7, ReturnsRight
<1>8. CASE Returns(p, msgs, covers)
  BY <1>1, <1>2, <1>5, <1>8, ReturnsRight
<1>9. CASE builder' = [builder EXCEPT ![p] = next] /\ context' = context
  <2>1. /\ next \in Build /\ next.at = "read" /\ next.messages = msgs
        /\ next.snapshot = covers /\ next.target = target
    BY <1>1, <1>2, <1>4 DEF Build, Heads
  <2> HIDE DEF next
  <2>2. BuildInv(next, snapshots', Len(history'))
    BY <1>1, <1>2, <1>4, <1>5, <2>1 DEF BuildInv
  <2>3. /\ builder' \in [Process -> Build]
        /\ \A q \in Process : BuildInv(builder'[q], snapshots', Len(history'))
        /\ LeaseInv'
    BY <1>5, <1>9, <2>1, <2>2, RowMoves
  <2> QED
    BY <1>5, <1>9, <2>3 DEF ContextInv, ContextIsWhole
<1> QED
  BY <1>6, <1>7, <1>8, <1>9

LEMMA ClaimsRight ==
  ASSUME ContextInv, NEW p \in Process, Claims(p)
  PROVE  ContextInv'
<1> DEFINE row    == builder[p]
           covers == IF SnapshotMatches(active, row.messages) THEN active ELSE row.snapshot
<1>1. /\ BuildInv(row, snapshots, Len(history)) /\ row.at # "idle"
      /\ row.messages \in Seq(Message) /\ Heads(row.snapshot, row.messages)
      /\ Backed(snapshots, row.snapshot)
  BY DEF ContextInv, Claims, BuildInv, Build
<1>2. Heads(covers, row.messages) /\ Backed(snapshots, covers)
  BY <1>1 DEF SnapshotMatches, Heads, ContextInv
<1>3. /\ snapshots' = snapshots /\ active' = active /\ UNCHANGED <<history, mishaps>>
      /\ Continues(p, row, covers, 0)
  BY DEF Claims
<1>4. RowsInv(snapshots') /\ active' \in Seq(Text) /\ Backed(snapshots', active')
  BY <1>3 DEF ContextInv
<1> HIDE DEF row, covers
<1> QED
  BY <1>1, <1>2, <1>3, <1>4, ContinuesRight

\* The summary that is committed is of all that its row covers.
LEMMA CommitsRight ==
  ASSUME ContextInv, NEW p \in Process, SummaryCommitted(p)
  PROVE  /\ ContextInv'
         /\ builder[p].at = "generating" /\ builder'[p] # builder[p] /\ builder[p].base = active
<1> DEFINE row    == builder[p]
           covers == First(Texts(row.messages), row.upto)
           made   == [covers  |-> covers,
                      summary |-> SummaryOf(snapshots, row.snapshot)
                                  \o SubSeq(Texts(row.messages), Len(row.snapshot) + 1, row.upto)]
<1>1. /\ BuildInv(row, snapshots, Len(history)) /\ row.at = "generating" /\ row \in Build
      /\ row.messages \in Seq(Message) /\ Heads(row.snapshot, row.messages)
      /\ Backed(snapshots, row.snapshot) /\ row.upto \in Nat /\ row.pass \in Nat
      /\ Len(row.messages) \in Nat /\ Len(row.snapshot) \in Nat
      /\ row.upto \in Len(row.snapshot) .. Len(row.messages)
  <2>1. BuildInv(row, snapshots, Len(history)) /\ row.at = "generating"
    BY DEF ContextInv, SummaryCommitted
  <2> HIDE DEF row
  <2>2. /\ row \in Build /\ Heads(row.snapshot, row.messages) /\ Backed(snapshots, row.snapshot)
        /\ Len(row.snapshot) < row.upto /\ row.upto <= Len(row.messages)
    BY <2>1 DEF BuildInv
  <2>3. /\ row.messages \in Seq(Message) /\ row.snapshot \in Seq(Text)
        /\ row.upto \in Nat /\ row.pass \in Nat
    BY <2>2 DEF Build
  <2>4. Len(row.messages) \in Nat /\ Len(row.snapshot) \in Nat
    BY <2>3, LenProperties
  <2> QED
    BY <2>1, <2>2, <2>3, <2>4
<1>2. /\ lease.owner = p /\ UNCHANGED <<history, mishaps>> /\ active' = covers
      /\ snapshots' \in {snapshots, snapshots \cup {made}}
      /\ (\E c \in snapshots : c.covers = covers) \/ snapshots' = snapshots \cup {made}
      /\ Continues(p, row, covers, row.pass + 1)
  BY DEF SummaryCommitted, MayCommit
<1>3. row.base = active
  BY <1>1, <1>2 DEF ContextInv, LeaseInv
<1>r. RowsInv(snapshots) /\ ContextInv
  BY DEF ContextInv
<1> HIDE DEF row
<1>4. made.covers = covers /\ made.summary = covers
  <2>1. SummaryOf(snapshots, row.snapshot) = row.snapshot
    BY <1>1, <1>r DEF SummaryOf, Backed, RowsInv
  <2> QED
    BY <1>1, <2>1, SummaryAndRest
<1>5. Heads(covers, row.messages)
  <2>1. Texts(row.messages) \in Seq(Text) /\ Len(Texts(row.messages)) = Len(row.messages)
    BY <1>1, TextsType
  <2>2. covers \in Seq(Text) /\ Len(covers) = row.upto
    BY <1>1, <2>1, FirstType
  <2> QED
    BY <1>1, <2>2 DEF Heads
<1> HIDE DEF made, covers
<1>6. RowsInv(snapshots') /\ Backed(snapshots', covers) /\ snapshots \subseteq snapshots'
  BY <1>2, <1>4, <1>5, <1>r DEF RowsInv, Backed, Heads
<1>7. BuildInv(row, snapshots', Len(history))
  <2>1. Len(history) \in Nat
    BY LenProperties DEF ContextInv
  <2> QED
    BY <1>1, <1>6, <2>1, BuildsGoOn
<1>8. ContextInv' /\ (builder'[p].at = "idle" \/ builder'[p].pass = row.pass + 1)
  <2>1. /\ row.at # "idle" /\ row.pass + 1 \in Nat /\ lease.owner \notin Process \ {p}
        /\ active' \in Seq(Text) /\ Backed(snapshots', active')
    BY <1>1, <1>2, <1>5, <1>6 DEF Heads
  <2> QED
    BY <1>2, <1>5, <1>6, <1>7, <2>1, ContinuesRight
<1> QED
  BY <1>1, <1>3, <1>8 DEF row

LEMMA FailsRight ==
  ASSUME ContextInv, NEW p \in Process, Fails(p)
  PROVE  ContextInv'
<1> DEFINE row      == builder[p]
           msgs == First(history, Len(row.messages))
           covers   == Matching(row.snapshot, msgs)
<1>1. /\ Len(row.messages) \in 0 .. Len(history) /\ row.snapshot \in Seq(Text)
      /\ Backed(snapshots, row.snapshot)
  <2>1. BuildInv(row, snapshots, Len(history)) /\ row.at # "idle" /\ history \in Seq(Message)
    BY DEF ContextInv, Fails
  <2> HIDE DEF row
  <2>2. /\ row.messages \in Seq(Message) /\ row.snapshot \in Seq(Text)
        /\ Len(row.messages) <= Len(history) /\ Backed(snapshots, row.snapshot)
    BY <2>1 DEF BuildInv, Build
  <2> QED
    BY <2>1, <2>2, LenProperties
<1>2. msgs \in Seq(Message)
  BY <1>1, FirstType DEF ContextInv
<1>3. /\ Returns(p, msgs, covers) /\ lease' = Released(p)
      /\ UNCHANGED <<history, snapshots, active, mishaps>> /\ mishaps \in 0 .. MaxMishaps
  BY DEF Fails, ContextInv
<1> HIDE DEF row, msgs
<1>4. Heads(covers, msgs) /\ Backed(snapshots, covers)
  BY <1>1, <1>2, MatchingBegins DEF ContextInv
<1> HIDE DEF covers
<1> QED
  BY <1>2, <1>3, <1>4, ReturnsRight

LEMMA ElsewhereRight ==
  ASSUME ContextInv, NEW p \in Process, CompactingElsewhere(p)
  PROVE  ContextInv'
<1>1. /\ builder[p].messages \in Seq(Message) /\ Heads(builder[p].snapshot, builder[p].messages)
      /\ Backed(snapshots, builder[p].snapshot)
  BY DEF ContextInv, CompactingElsewhere, BuildInv, Build
<1>2. /\ Returns(p, builder[p].messages, builder[p].snapshot)
      /\ UNCHANGED <<history, snapshots, active, lease, mishaps>> /\ mishaps \in 0 .. MaxMishaps
  BY DEF CompactingElsewhere, ContextInv
<1> QED
  BY <1>1, <1>2, ReturnsRight

\* The conversation goes on, or a message of it is corrected.
LEMMA HistoryMoves ==
  ASSUME ContextInv, history' \in Seq(Message), Len(history) <= Len(history'),
         Len(history') <= MaxMessages, mishaps' \in 0 .. MaxMishaps, UNCHANGED <<snapshots, active, lease, builder, context>>
  PROVE  ContextInv'
<1>1. Len(history) \in Nat /\ Len(history') \in Nat
  BY LenProperties DEF ContextInv
<1>2. \A p \in Process : BuildInv(builder[p], snapshots, Len(history'))
  BY <1>1, BuildsGoOn DEF ContextInv
<1> QED
  BY <1>2 DEF ContextInv, LeaseInv, ContextIsWhole

LEMMA SaysRight ==
  ASSUME ContextInv, NEW role \in {"user", "assistant"}, Says(role)
  PROVE  ContextInv'
<1> DEFINE said == [role |-> role, text |-> <<Len(history) + 1, "said">>]
<1>1. history \in Seq(Message) /\ Len(history) \in Nat /\ mishaps' \in 0 .. MaxMishaps
  BY LenProperties DEF ContextInv, Says
<1>2. said \in Message
  <2>1. Len(history) + 1 \in 1 .. MaxMessages
    BY <1>1, ContextAssumption DEF ContextAssumption, Says
  <2> QED
    BY <2>1 DEF Message, Text
<1>3. history' = Append(history, said) /\ UNCHANGED <<snapshots, active, lease, builder, context>>
  BY DEF Says
<1> HIDE DEF said
<1>4. history' \in Seq(Message) /\ Len(history') = Len(history) + 1
  BY <1>1, <1>2, <1>3, AppendProperties
<1> QED
  BY <1>1, <1>3, <1>4, ContextAssumption, HistoryMoves DEF ContextAssumption, Says

LEMMA EditsRight ==
  ASSUME ContextInv, NEW i \in DOMAIN history, NEW wording \in {"said", "corrected"},
         Edits(i, wording)
  PROVE  ContextInv'
<1> DEFINE new == [history[i] EXCEPT !.text = <<i, wording>>]
<1>1. history \in Seq(Message) /\ Len(history) \in Nat /\ i \in 1 .. Len(history)
  BY LenProperties DEF ContextInv
<1>2. history[i] \in Message
  BY <1>1, ElementOfSeq
<1>3. new \in Message
  <2>2. i \in 1 .. MaxMessages
    BY <1>1, ContextAssumption DEF ContextAssumption, ContextInv
  <2> QED
    BY <1>2, <2>2 DEF Message, Text
<1>4. history' = [history EXCEPT ![i] = new]
  BY DEF Edits
<1> HIDE DEF new
<1>5. history' \in Seq(Message) /\ Len(history') = Len(history)
  BY <1>1, <1>3, <1>4, ExceptSeq
<1>6. mishaps' \in 0 .. MaxMishaps
  <2>1. mishaps \in 0 .. MaxMishaps /\ mishaps < MaxMishaps /\ mishaps' = mishaps + 1
    BY DEF ContextInv, Edits
  <2> QED
    BY <2>1, ContextAssumption DEF ContextAssumption
<1> QED
  <2>1. Len(history') <= MaxMessages /\ UNCHANGED <<snapshots, active, lease, builder, context>>
    BY <1>5 DEF ContextInv, Edits
  <2> QED
    BY <1>1, <1>5, <1>6, <2>1, HistoryMoves

LEMMA LapseRight ==
  ASSUME ContextInv, LeaseLapses \/ \E p \in Process : Heartbeat(p)
  PROVE  ContextInv'
<1>1. lease \in [owner: Process \cup {Nobody}, live: BOOLEAN] /\ mishaps \in 0 .. MaxMishaps
  BY DEF ContextInv
<1>2. /\ lease' \in [owner: Process \cup {Nobody}, live: BOOLEAN] /\ lease'.owner = lease.owner
      /\ mishaps' \in 0 .. MaxMishaps
      /\ UNCHANGED <<history, snapshots, active, builder, context>>
  <2>1. CASE LeaseLapses
    <3>1. mishaps' \in 0 .. MaxMishaps
      BY <1>1, <2>1, ContextAssumption DEF ContextAssumption, LeaseLapses
    <3> QED
      BY <1>1, <2>1, <3>1 DEF LeaseLapses
  <2>2. CASE \E p \in Process : Heartbeat(p)
    BY <1>1, <2>2 DEF Heartbeat
  <2> QED
    BY <2>1, <2>2
<1> QED
  BY <1>2 DEF ContextInv, LeaseInv, ContextIsWhole

\* The lease of a process that died names it until another claims it.
LEMMA DiesRight ==
  ASSUME ContextInv, NEW p \in Process, Dies(p)
  PROVE  ContextInv'
<1>1. /\ builder' = [builder EXCEPT ![p] = AtRest] /\ AtRest.at = "idle"
      /\ UNCHANGED <<history, snapshots, active, lease, context>>
      /\ mishaps' \in 0 .. MaxMishaps
  BY ContextAssumption DEF ContextAssumption, ContextInv, Dies, AtRest
<1>2. BuildInv(AtRest, snapshots', Len(history'))
  BY AtRestInv
<1> HIDE DEF AtRest
<1>3. /\ builder' \in [Process -> Build]
      /\ \A q \in Process : BuildInv(builder'[q], snapshots', Len(history'))
      /\ LeaseInv'
  BY <1>1, <1>2, RowMoves
<1> QED
  BY <1>1, <1>3 DEF ContextInv, ContextIsWhole

LEMMA ContextStep ==
  ASSUME ContextInv, [ContextNext]_contextVars
  PROVE  /\ ContextInv'
         /\ active' # active => \E p \in Process : /\ builder[p].at = "generating"
                                                   /\ builder'[p] # builder[p]
                                                   /\ builder[p].base = active
<1>1. ASSUME NEW p \in Process, NEW n \in 1 .. Len(history), Reads(p, n)
      PROVE  ContextInv' /\ active' = active
  BY <1>1, ReadsRight DEF Reads
<1>2. ASSUME NEW p \in Process, Claims(p) PROVE ContextInv' /\ active' = active
  BY <1>2, ClaimsRight DEF Claims
<1>3. ASSUME NEW p \in Process, CompactingElsewhere(p) PROVE ContextInv' /\ active' = active
  BY <1>3, ElsewhereRight DEF CompactingElsewhere
<1>4. ASSUME NEW p \in Process, SummaryCommitted(p)
      PROVE  /\ ContextInv'
             /\ builder[p].at = "generating" /\ builder'[p] # builder[p] /\ builder[p].base = active
  BY <1>4, CommitsRight
<1>5. ASSUME NEW p \in Process, Fails(p) PROVE ContextInv' /\ active' = active
  BY <1>5, FailsRight DEF Fails
<1>6. ASSUME NEW p \in Process, Dies(p) PROVE ContextInv' /\ active' = active
  BY <1>6, DiesRight DEF Dies
<1>7. ASSUME LeaseLapses \/ \E p \in Process : Heartbeat(p) PROVE ContextInv' /\ active' = active
  BY <1>7, LapseRight DEF LeaseLapses, Heartbeat
<1>8. ASSUME NEW role \in {"user", "assistant"}, Says(role) PROVE ContextInv' /\ active' = active
  BY <1>8, SaysRight DEF Says
<1>9. ASSUME NEW i \in DOMAIN history, NEW wording \in {"said", "corrected"}, Edits(i, wording)
      PROVE  ContextInv' /\ active' = active
  BY <1>9, EditsRight DEF Edits
<1>10. CASE UNCHANGED contextVars
  BY <1>10 DEF contextVars, ContextInv, RowsInv, Backed, BuildInv, Heads, LeaseInv, ContextIsWhole
<1> QED
  BY <1>1, <1>2, <1>3, <1>4, <1>5, <1>6, <1>7, <1>8, <1>9, <1>10 DEF ContextNext, BuildSteps

-----------------------------------------------------------------------------
\* Every variable keeps its type, a summary is of all that its row covers, a
\* build goes on from a snapshot of what it read, and whoever holds the lease
\* builds on what is active.
THEOREM ContextCorrect == ContextSpec => []ContextInv
BY ContextInitInv, ContextStep, PTL DEF ContextSpec

\* The variables keep their types.
THEOREM ContextTypes == ContextSpec => []ContextTypeOK
<1>1. ContextInv => ContextTypeOK
  BY DEF ContextInv, ContextTypeOK, RowsInv, Backed
<1> QED
  BY <1>1, ContextCorrect, PTL

\* What a model is given is all that was read, each message once (buildLocked).
THEOREM ContextWhole == ContextSpec => []ContextIsWhole
<1>1. ContextInv => ContextIsWhole
  BY DEF ContextInv
<1> QED
  BY <1>1, ContextCorrect, PTL

\* A snapshot is made active by a process that built on the one before it
\* (commitSnapshot).
THEOREM LeaseholderCommits == ContextSpec => OnlyTheLeaseholderCommits
<1>1. ContextInv /\ [ContextNext]_contextVars =>
        [active' # active =>
           \E p \in Process : /\ builder[p].at = "generating" /\ builder'[p] # builder[p]
                             /\ builder[p].base = active]_contextVars
  BY ContextStep
<1> QED
  BY <1>1, ContextCorrect, PTL DEF ContextSpec, OnlyTheLeaseholderCommits

-----------------------------------------------------------------------------
(* The parts side by side.                                                 *)

\* Behind the page, or with clients of any kind and a page that stands still.
PagesInv == IF part = "client" THEN ClientInv
            ELSE TurnsInv /\ tab \in [Tab -> TabState] /\ opens \in 0 .. MaxOpens

PartsInv == PagesInv /\ ContextInv

LEMMA PartsStart == Init => PartsInv
BY ClientInvInit, ContextInitInv DEF Init, PartsInv, PagesInv, ClientInv

LEMMA PartsStep == PartsInv /\ [Next]_vars => PartsInv'
<1> SUFFICES ASSUME PartsInv, [Next]_vars PROVE PartsInv'
  OBVIOUS
<1>1. part' = part
  BY DEF Next, vars
<1>2. [ContextNext]_contextVars
  BY DEF Next, vars
<1>3. ContextInv'
  BY <1>2, ContextStep DEF PartsInv
<1>4. CASE part = "client"
  <2>1. [ClientNext]_clientVars
    BY <1>4 DEF Next, vars
  <2> QED
    BY <1>1, <1>3, <1>4, <2>1, PageTakesTurns DEF PartsInv, PagesInv
<1>5. CASE part # "client"
  <2>1. [TurnsNext]_turnVars /\ UNCHANGED <<tab, opens>>
    BY <1>5 DEF Next, vars, clientVars
  <2>2. TurnsInv'
    BY <1>5, <2>1, TurnsInvStep DEF PartsInv, PagesInv
  <2> QED
    BY <1>1, <1>3, <1>5, <2>1, <2>2 DEF PartsInv, PagesInv
<1> QED
  BY <1>4, <1>5

\* The turns, the page in front of them and the context of a conversation keep
\* their types beside each other.
THEOREM ConversationTypes == Spec => []TypeOK
<1>1. ContextInv => ContextTypeOK
  BY DEF ContextInv, ContextTypeOK, RowsInv, Backed
<1>2. PartsInv => TypeOK
  BY <1>1, TurnsTyped DEF PartsInv, PagesInv, ClientInv, ClientTypeOK, TypeOK
<1> QED
  BY <1>2, PartsStart, PartsStep, PTL DEF Spec
=============================================================================
