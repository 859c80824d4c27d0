------------------------- MODULE ConversationContext -------------------------
(***************************************************************************)
(* lib/conversation-context.js: the history a model is given.  The older   *)
(* messages of a conversation are summarised, a batch at a time, under a   *)
(* lease in the state row; a snapshot names the messages it covers and a   *)
(* fingerprint of their texts, and is used while they are unchanged.       *)
(*                                                                         *)
(* A process builds one context of a conversation at a time.  Processes    *)
(* share the database only: a step ends where another process may come     *)
(* between.  Messages cost one token each; a text is the message's id and  *)
(* whether it is as first said or corrected; a summary is the sequence of  *)
(* the texts it was made from, which is also what a fingerprint tells      *)
(* apart.                                                                  *)
(*                                                                         *)
(* An operator named for a mistake stands before the one it mistakes; no   *)
(* action uses it, the checks substitute it.                               *)
(***************************************************************************)
EXTENDS Naturals, Sequences, FiniteSetsExt

CONSTANTS
  Process,        \* processes that build contexts
  Nobody,         \* no owner of the lease
  Keep,           \* keepRecentMessages
  Available,      \* the budget of messages that are not summarised
  BatchLimit,     \* the budget of messages that one summary takes in
  MinBatch,       \* minBatchMessages
  MaxPasses,      \* maxCompactionPasses
  MaxMessages,    \* bound: messages of the conversation
  MaxMishaps      \* bound: edits, lapses of the lease and deaths

ASSUME ContextAssumption ==
  /\ Nobody \notin Process
  /\ {Keep, Available, BatchLimit, MinBatch, MaxPasses} \subseteq Nat \ {0}
  /\ {MaxMessages, MaxMishaps} \subseteq Nat

VARIABLES
  history,    \* the messages of the conversation
  snapshots,  \* rows of conversation_context_snapshots, by what they cover
  active,     \* active_snapshot_id: the texts it covers, <<>> for none
  lease,      \* lease_owner, and whether lease_expires_at is still to come
  builder,    \* buildLocked in each process
  context,    \* what a process returned last
  mishaps

contextVars == <<history, snapshots, active, lease, builder, context, mishaps>>

Text == (1 .. MaxMessages) \X {"said", "corrected"}

Message == [role: {"user", "assistant"}, text: Text]

Texts(messages) == [i \in DOMAIN messages |-> messages[i].text]

First(s, n) == SubSeq(s, 1, n)

Build == [at: {"idle", "read", "generating"}, messages: Seq(Message), snapshot: Seq(Text),
          target: Nat, upto: Nat, pass: Nat, base: Seq(Text)]

\* base: what was active when the build last held the lease for itself.
AtRest == [at |-> "idle", messages |-> <<>>, snapshot |-> <<>>, target |-> 0,
           upto |-> 0, pass |-> 0, base |-> <<>>]

ContextTypeOK ==
  /\ history \in Seq(Message)
  /\ \A c \in snapshots : c.covers \in Seq(Text) /\ c.summary \in Seq(Text)
  /\ active \in {<<>>} \cup {c.covers : c \in snapshots}
  /\ lease \in [owner: Process \cup {Nobody}, live: BOOLEAN]
  /\ builder \in [Process -> Build]
  /\ context \in [read : Seq(Text), given : Seq(Text)]
  /\ mishaps \in 0 .. MaxMishaps

-----------------------------------------------------------------------------
(* snapshotMatches: the snapshot covers a prefix and its texts are these.  *)
MatchesLength(covers, messages) == covers # <<>> /\ Len(covers) <= Len(messages)

SnapshotMatches(covers, messages) ==
  /\ covers # <<>> /\ Len(covers) <= Len(messages)
  /\ First(Texts(messages), Len(covers)) = covers

\* The stored snapshot if it matches, or nothing.
Matching(covers, messages) ==
  IF SnapshotMatches(covers, messages) THEN covers ELSE <<>>

SummaryOf(rows, covers) ==
  IF covers = <<>> THEN <<>> ELSE (CHOOSE c \in rows : c.covers = covers).summary

(* contextResult: the summary, then the messages it does not cover.        *)
ContextResult(rows, messages, covers) ==
  [read  |-> Texts(messages),
   given |-> SummaryOf(rows, covers) \o SubSeq(Texts(messages), Len(covers) + 1, Len(messages))]

(* completeTurnGroups and compactionTarget: whole turns are kept, the last *)
(* Keep messages and as many more as the budget allows, at least one       *)
(* complete exchange and the turn that is not answered yet.                *)
GroupStarts(messages) ==
  {i \in DOMAIN messages : i = 1 \/ messages[i].role = "user"}

CompactionTarget(messages) ==
  LET n      == Len(messages)
      starts == GroupStarts(messages)
      recent == Max({i \in starts : n - i + 1 >= Keep} \cup {1})
      least  == IF messages[n].role = "user" THEN Max(starts \ {Max(starts)}) ELSE Max(starts)
      first  == IF recent >= least THEN recent
                ELSE Min({i \in starts : i >= recent /\ (n - i + 1 <= Available \/ i >= least)})
  IN IF Cardinality(starts) < 2 THEN 0
     ELSE Max({i \in 1 .. first - 1 : messages[i].role = "assistant"} \cup {0})

\* boundedSourceBatch: where the next batch of whole turns ends, 0 for none.
BatchEnd(messages, covered, target) ==
  Max({i \in covered + 1 .. target :
         /\ i - covered <= BatchLimit /\ messages[i].role = "assistant"
         /\ i = target \/ i + 1 \in GroupStarts(messages)} \cup {0})

-----------------------------------------------------------------------------
\* buildLocked returns: the lease is given up if it is still held.
Released(p) == IF lease.owner = p THEN [owner |-> Nobody, live |-> FALSE] ELSE lease

Returns(p, messages, covers) ==
  /\ builder' = [builder EXCEPT ![p] = AtRest]
  /\ context' = ContextResult(snapshots, messages, covers)

(* The history or an explicit prefix of it is read.  It goes back as it is *)
(* if a newer snapshot is active, or if there is nothing to summarise, or  *)
(* less than a batch while the whole is within the budget.                 *)
Reads(p, n) ==
  LET messages == First(history, n)
      covers   == Matching(active, messages)
      target   == CompactionTarget(messages)
  IN /\ builder[p].at = "idle" /\ n \in 1 .. Len(history)
     /\ \/ /\ n < Len(history) /\ Len(active) > n
           /\ Returns(p, messages, <<>>)
        \/ /\ n = Len(history) \/ Len(active) <= n
           /\ target < Len(covers) + MinBatch
           /\ Returns(p, messages, covers)
        \/ /\ n = Len(history) \/ Len(active) <= n
           /\ target > Len(covers)
           /\ builder' = [builder EXCEPT ![p] =
                [@ EXCEPT !.at = "read", !.messages = messages, !.snapshot = covers,
                          !.target = target]]
           /\ UNCHANGED context
     /\ UNCHANGED <<history, snapshots, active, lease, mishaps>>

\* The loop goes on with the next batch, or is over.
Continues(p, row, covers, pass) ==
  LET upto == BatchEnd(row.messages, Len(covers), row.target)
  IN IF Len(covers) >= row.target \/ upto = 0 \/ pass = MaxPasses
     THEN /\ builder' = [builder EXCEPT ![p] = AtRest]
          /\ context' = ContextResult(snapshots', row.messages, covers)
          /\ lease' = [owner |-> Nobody, live |-> FALSE]
     ELSE /\ builder' = [builder EXCEPT ![p] =
               [row EXCEPT !.at = "generating", !.snapshot = covers, !.upto = upto,
                           !.pass = pass, !.base = active']]
          /\ lease' = [owner |-> p, live |-> TRUE]
          /\ UNCHANGED context

(* The lease is claimed, and the snapshot read again: another process may  *)
(* have committed one since.                                               *)
Claims(p) ==
  LET row    == builder[p]
      covers == IF SnapshotMatches(active, row.messages) THEN active ELSE row.snapshot
  IN /\ row.at = "read"
     /\ lease.owner = Nobody \/ ~lease.live
     /\ snapshots' = snapshots
     /\ active' = active
     /\ Continues(p, row, covers, 0)
     /\ UNCHANGED <<history, mishaps>>

CompactingElsewhere(p) ==
  /\ builder[p].at = "read"
  /\ lease.owner # Nobody /\ lease.live
  /\ Returns(p, builder[p].messages, builder[p].snapshot)
  /\ UNCHANGED <<history, snapshots, active, lease, mishaps>>

-----------------------------------------------------------------------------
(* commitSnapshot, in a transaction: the lease is still held and the       *)
(* messages still say what they said.                                      *)
SourcesSame(p) ==
  First(Texts(history), builder[p].upto) = First(Texts(builder[p].messages), builder[p].upto)

MayCommitWithoutLease(p) == SourcesSame(p)

MayCommit(p) == lease.owner = p /\ lease.live /\ SourcesSame(p)

SummaryCommitted(p) ==
  LET row    == builder[p]
      covers == First(Texts(row.messages), row.upto)
      made   == [covers  |-> covers,
                 summary |-> SummaryOf(snapshots, row.snapshot)
                             \o SubSeq(Texts(row.messages), Len(row.snapshot) + 1, row.upto)]
  IN /\ row.at = "generating" /\ MayCommit(p)
     /\ snapshots' = IF \E c \in snapshots : c.covers = covers THEN snapshots
                     ELSE snapshots \cup {made}
     /\ active' = covers
     /\ Continues(p, row, covers, row.pass + 1)
     /\ UNCHANGED <<history, mishaps>>

(* The model failed, its summary is invalid, or the commit was refused:    *)
(* the messages are read again, and the snapshot dropped if they changed.  *)
Fails(p) ==
  LET row == builder[p]
      messages == First(history, Len(row.messages))
  IN /\ row.at = "generating"
     /\ Returns(p, messages, Matching(row.snapshot, messages))
     /\ lease' = Released(p)
     /\ UNCHANGED <<history, snapshots, active, mishaps>>

-----------------------------------------------------------------------------
\* saveMessage, in chat.
Says(role) ==
  /\ Len(history) < MaxMessages
  /\ role = "assistant" => history # <<>> /\ history[Len(history)].role = "user"
  /\ history' = Append(history, [role |-> role, text |-> <<Len(history) + 1, "said">>])
  /\ UNCHANGED <<snapshots, active, lease, builder, context, mishaps>>

\* A message is corrected in the database, or put back.
Edits(i, wording) ==
  /\ mishaps < MaxMishaps /\ mishaps' = mishaps + 1
  /\ i \in DOMAIN history /\ wording # history[i].text[2]
  /\ history' = [history EXCEPT ![i].text = <<i, wording>>]
  /\ UNCHANGED <<snapshots, active, lease, builder, context>>

\* The process of the owner stalls past the lease, or has died.
LeaseLapses ==
  /\ mishaps < MaxMishaps /\ mishaps' = mishaps + 1
  /\ lease.live
  /\ lease' = [lease EXCEPT !.live = FALSE]
  /\ UNCHANGED <<history, snapshots, active, builder, context>>

\* The interval that renews the lease does not ask whether it had lapsed.
Heartbeat(p) ==
  /\ builder[p].at = "generating" /\ lease.owner = p /\ ~lease.live
  /\ lease' = [lease EXCEPT !.live = TRUE]
  /\ UNCHANGED <<history, snapshots, active, builder, context, mishaps>>

Dies(p) ==
  /\ mishaps < MaxMishaps /\ mishaps' = mishaps + 1
  /\ builder[p].at # "idle"
  /\ builder' = [builder EXCEPT ![p] = AtRest]
  /\ UNCHANGED <<history, snapshots, active, lease, context>>

-----------------------------------------------------------------------------
ContextInit ==
  /\ history = <<>> /\ snapshots = {} /\ active = <<>>
  /\ lease = [owner |-> Nobody, live |-> FALSE]
  /\ builder = [p \in Process |-> AtRest]
  /\ context = [read |-> <<>>, given |-> <<>>]
  /\ mishaps = 0

BuildSteps(p) ==
  \/ \E n \in 1 .. Len(history) : Reads(p, n)
  \/ Claims(p)
  \/ CompactingElsewhere(p)
  \/ SummaryCommitted(p)
  \/ Fails(p)

ContextNext ==
  \/ \E p \in Process : BuildSteps(p) \/ Heartbeat(p) \/ Dies(p)
  \/ \E role \in {"user", "assistant"} : Says(role)
  \/ \E i \in DOMAIN history, wording \in {"said", "corrected"} : Edits(i, wording)
  \/ LeaseLapses

ContextSpec == ContextInit /\ [][ContextNext]_contextVars

-----------------------------------------------------------------------------
(* Properties.                                                             *)

(* What the model is given is the whole history that was read: each        *)
(* message once, in its place, in the summary or as it was said, whatever  *)
(* was edited, whoever held the lease and wherever the build failed        *)
(* (buildLocked, commitSnapshot, contextResult).                           *)
ContextIsWhole ==
  context.given = context.read

(* A snapshot is made active only by the process whose summary goes on     *)
(* from what was active when it got the lease: a process that stalled past *)
(* its lease puts nothing over the work of the one that took over, and the *)
(* heartbeat does not give it back what it lost (the claim, the heartbeat, *)
(* commitSnapshot).                                                        *)
OnlyTheLeaseholderCommits ==
  [][active' # active =>
       \E p \in Process : /\ builder[p].at = "generating" /\ builder'[p] # builder[p]
                         /\ builder[p].base = active]_contextVars
=============================================================================
