-------------------------- MODULE ConversationTurns --------------------------
(***************************************************************************)
(* The turns of one user with one character, lib/agent.js: chat, the       *)
(* manual extraction and the replay of a trace queue behind one lock per   *)
(* user and character, a chain of promises whose last link is kept in a    *)
(* map.  A turn first writes the memory of the conversation the user left, *)
(* then saves the message, recalls, answers, saves the answer and, every   *)
(* so many turns, extracts memory and moves the conversation's checkpoint. *)
(*                                                                         *)
(* A request is one step up to its next await.  A message is its place in  *)
(* the conversation and its role; what is extracted is the set of answers  *)
(* whose turns were in the batch.                                          *)
(*                                                                         *)
(* An operator named for a mistake stands before the one it mistakes; no   *)
(* action uses it, the checks substitute it.                               *)
(***************************************************************************)
EXTENDS Naturals, Sequences, FiniteSetsExt

CONSTANTS
  Conversation,   \* conversations there may be
  None,           \* no conversation, no profile
  Profile,        \* what getEventExtractionProfile may return over time
  MaxRequests,    \* bound: requests, numbered as they arrive
  MaxUpsets       \* bound: changes of the profile and deaths of the process

ASSUME TurnsAssumption ==
  /\ None \notin Conversation
  /\ \A p \in Profile : p.interval \in Nat \ {0} /\ p.enabled \in BOOLEAN
  /\ {MaxRequests, MaxUpsets} \subseteq Nat

VARIABLES
  messages,   \* roles of the messages of each conversation, in order
  recent,     \* the conversation updated last
  state,      \* rows of conversation_extraction_states
  profile,    \* the extraction profile of the character's scene
  tail,       \* conversationTurnQueues: the last request of the chain, or 0
  request,    \* the requests that have arrived, by number
  past,       \* history: the turns that were told to memory, those that may
              \* be told again, those passed over, where the row began
  upsets

turnVars == <<messages, recent, state, profile, tail, request, past, upsets>>

Requests == 1 .. Len(request)

Awaits == {"waiting", "flushing", "flushed", "answering", "extracting", "extracted"}

RequestRow ==
  [at: Awaits \cup {"ended", "failed"}, kind: {"chat", "extract", "replay"},
   conversation: Conversation \cup {None}, previous: Conversation \cup {None},
   after: Nat, user: Nat, batch: SUBSET Nat, upto: Nat, degraded: BOOLEAN]

StateRow == [profile: {p.id : p \in Profile} \cup {None}, last: Nat]

NoState == [profile |-> None, last |-> 0]

TurnsTypeOK ==
  /\ messages \in [Conversation -> Seq({"user", "assistant"})]
  /\ recent \in Conversation \cup {None}
  /\ state \in [Conversation -> StateRow]
  /\ profile \in Profile
  /\ tail \in 0 .. MaxRequests
  /\ request \in Seq(RequestRow)
  /\ past \in [Conversation -> [told: SUBSET Nat, again: SUBSET Nat, skipped: SUBSET Nat, since: Nat]]
  /\ upsets \in 0 .. MaxUpsets

Over(r) == request[r].at \in {"ended", "failed"}

-----------------------------------------------------------------------------
(* planMemoryExtraction: the row of the conversation, made for the current *)
(* turn if there is none for this profile, and the batch after it.  A      *)
(* disabled profile passes turns over.                                     *)

Saved(dialogue, role) == {i \in DOMAIN dialogue : dialogue[i] = role}

Latest(places) == Max(places \cup {0})

FirstTurns(turns, n) == {i \in turns : Cardinality({j \in turns : j <= i}) <= n}

RowBeforeTurn(row, user) ==
  IF row.profile = profile.id THEN row ELSE [profile |-> profile.id, last |-> user - 2]

RowForTurn(row, user) ==
  IF row.profile = profile.id THEN row ELSE [profile |-> profile.id, last |-> user - 1]

Plan(row, was, dialogue, user, answer) ==
  LET made == RowForTurn(row, user)
      kept == IF made = row THEN was
              ELSE [was EXCEPT !.since = made.last, !.again = was.told]
      open == {i \in Saved(dialogue, "assistant") : made.last < i /\ i <= answer}
  IN CASE profile.id = None -> [row |-> row, past |-> was, batch |-> {}, due |-> FALSE]
       [] profile.id # None /\ ~profile.enabled ->
            [row |-> [made EXCEPT !.last = answer], batch |-> {}, due |-> FALSE,
             past |-> [kept EXCEPT !.skipped = @ \cup open]]
       [] OTHER ->
            [row |-> made, past |-> kept, batch |-> FirstTurns(open, profile.interval),
             due |-> Cardinality(open) >= profile.interval]

Planned(c, plan) ==
  /\ state' = [state EXCEPT ![c] = plan.row]
  /\ past' = [past EXCEPT ![c] = plan.past]

\* The places of the latest complete turn of a conversation, 0 for none.
LatestAnswer(c) == Latest(Saved(messages[c], "assistant"))

LatestUser(c) ==
  Latest({i \in Saved(messages[c], "user") : i < LatestAnswer(c)})

\* The plan for the latest complete turn: of a flush and of the status.
PlanAfter(c, row) == Plan(row, past[c], messages[c], LatestUser(c), LatestAnswer(c))

NoPlan(c, row) == [row |-> row, past |-> past[c], batch |-> {}, due |-> FALSE]

PlanOfLatest(c, row) == IF LatestUser(c) = 0 THEN NoPlan(c, row) ELSE PlanAfter(c, row)

-----------------------------------------------------------------------------
(* withConversationTurnLock.                                               *)

Arrived(kind, c, p) ==
  [at |-> "waiting", kind |-> kind, conversation |-> c, previous |-> p,
   after |-> tail, user |-> 0, batch |-> {}, upto |-> 0, degraded |-> FALSE]

Arrive(kind, c, p) ==
  /\ Len(request) < MaxRequests
  /\ request' = Append(request, Arrived(kind, c, p))
  /\ tail' = Len(request) + 1
  /\ UNCHANGED <<messages, recent, state, profile, past, upsets>>

Begun(r) ==
  /\ request[r].at = "waiting"
  /\ request[r].after \in {0} \cup {q \in Requests : Over(q)}

TailAfterAnyEnd(r) == 0

TailAfter(r) == IF tail = r THEN 0 ELSE tail

Await(r, row) ==
  /\ request' = [request EXCEPT ![r] = row]
  /\ UNCHANGED tail

\* What a request that is over had read is gone with it.
Left(row, at) ==
  [row EXCEPT !.at = at, !.previous = None, !.after = 0, !.user = 0, !.batch = {}, !.upto = 0]

Leave(r, at) ==
  /\ request' = [request EXCEPT ![r] = Left(request[r], at)]
  /\ tail' = TailAfter(r)

-----------------------------------------------------------------------------
(* runChat.                                                                *)

(* saveMessage of the user.  Controls, triggers, recall, tools, the         *)
(* conversation's context and the model are then awaited.                  *)
UserSaved(r, row) ==
  LET c == row.conversation IN
  /\ messages' = [messages EXCEPT ![c] = Append(@, "user")]
  /\ recent' = c
  /\ Await(r, [row EXCEPT !.at = "answering", !.user = Len(messages[c]) + 1])

FlushAwaited(r, row, batch) ==
  /\ Await(r, [row EXCEPT !.at = "flushing", !.batch = batch, !.upto = Latest(batch)])
  /\ UNCHANGED <<messages, recent>>

\* A conversation that was created.
Exists(c) ==
  messages[c] # <<>> \/ c = recent \/ \E r \in Requests : request[r].conversation = c

\* Bound: there is a conversation left for each request that needs a new one.
RoomForNew ==
  Cardinality({c \in Conversation : ~Exists(c)})
    > Cardinality({r \in Requests : ~Over(r) /\ request[r].conversation = None
                                    /\ request[r].kind = "chat"})

(* The conversation of the request, or a new one; the one the user left,   *)
(* or for a new conversation the one updated last.                         *)
Conversations(r) ==
  IF request[r].conversation # None THEN {request[r].conversation}
  ELSE {c \in Conversation : ~Exists(c)}

PreviousOf(r) ==
  IF request[r].conversation = None /\ request[r].previous = None
  THEN recent ELSE request[r].previous

ChatBegins(r) ==
  /\ Begun(r) /\ request[r].kind = "chat"
  /\ \E c \in Conversations(r) :
       LET p   == PreviousOf(r)
           row == [request[r] EXCEPT !.conversation = c, !.previous = p]
       IN \/ /\ p \in {None, c}
             /\ UserSaved(r, row) /\ UNCHANGED <<state, past>>
          \/ /\ p \notin {None, c}
             /\ LET plan == PlanOfLatest(p, state[p]) IN
                /\ Planned(p, plan)
                /\ IF plan.batch = {} THEN UserSaved(r, row)
                   ELSE FlushAwaited(r, row, plan.batch)
  /\ UNCHANGED <<profile, upsets>>

\* The conversation whose memory the request is extracting.
Subject(r) ==
  IF request[r].at \in {"flushing", "flushed"} /\ request[r].kind = "chat"
  THEN request[r].previous ELSE request[r].conversation

(* extractAndCommitMemory has written the batch and awaits the projection; *)
(* the checkpoint is moved when that is over.                              *)
Stored(r) ==
  /\ request[r].at \in {"flushing", "extracting"}
  /\ past' = [past EXCEPT ![Subject(r)].told = @ \cup request[r].batch,
                          ![Subject(r)].again = @ \ request[r].batch]
  /\ Await(r, [request[r] EXCEPT
                 !.at = IF @ = "flushing" THEN "flushed" ELSE "extracted"])
  /\ UNCHANGED <<messages, recent, state, profile, upsets>>

CheckpointOfLatest(r) == [state[Subject(r)] EXCEPT !.last = LatestAnswer(Subject(r))]

CheckpointKept(r) == state[Subject(r)]

CommitMemoryExtractionCheckpoint(r) ==
  [state[Subject(r)] EXCEPT !.last = request[r].upto]

ChatFlushed(r) ==
  /\ request[r].kind = "chat" /\ request[r].at = "flushed"
  /\ state' = [state EXCEPT ![Subject(r)] = CommitMemoryExtractionCheckpoint(r)]
  /\ UserSaved(r, request[r])
  /\ UNCHANGED <<profile, past, upsets>>

\* A failed extraction leaves the checkpoint; the turn goes on.
ChatFlushFails(r) ==
  /\ request[r].kind = "chat" /\ request[r].at = "flushing"
  /\ UserSaved(r, [request[r] EXCEPT !.degraded = TRUE])
  /\ UNCHANGED <<state, profile, past, upsets>>

\* Controls, triggers, recall, tools, context or model failed.
TurnThrows(r) ==
  /\ request[r].at = "answering"
  /\ Leave(r, "failed")
  /\ UNCHANGED <<messages, recent, state, profile, past, upsets>>

(* The answer is saved and the plan made in one step; it is carried out if *)
(* the interval is reached.  A turn without extraction ends here.          *)
Answered(r) ==
  LET c    == request[r].conversation
      said == Append(messages[c], "assistant")
      plan == Plan(state[c], past[c], said, request[r].user, Len(said))
  IN /\ request[r].kind = "chat" /\ request[r].at = "answering"
     /\ messages' = [messages EXCEPT ![c] = said] /\ recent' = c
     /\ Planned(c, plan)
     /\ IF plan.due
        THEN Await(r, [request[r] EXCEPT !.at = "extracting", !.batch = plan.batch,
                                         !.upto = Latest(plan.batch)])
        ELSE Leave(r, "ended")
     /\ UNCHANGED <<profile, upsets>>

ReplayAnswered(r) ==
  /\ request[r].kind = "replay" /\ request[r].at = "answering"
  /\ Leave(r, "ended")
  /\ UNCHANGED <<messages, recent, state, profile, past, upsets>>

\* The answer to the request includes the status, which plans once more.
EndsWithStatus(r, row) ==
  /\ Planned(Subject(r), PlanOfLatest(Subject(r), row))
  /\ Leave(r, "ended")
  /\ UNCHANGED <<messages, recent, profile, upsets>>

Extracted(r) ==
  /\ request[r].at = "extracted"
  /\ EndsWithStatus(r, CommitMemoryExtractionCheckpoint(r))

ExtractionFails(r) ==
  /\ request[r].at = "extracting"
  /\ EndsWithStatus(r, state[Subject(r)])

-----------------------------------------------------------------------------
(* extractConversationMemoryNow, replayTraceWithoutShortTermMemory and     *)
(* getConversationMemoryExtractionStatus, which plans outside the lock.    *)

ExtractBegins(r) ==
  LET c    == request[r].conversation
      plan == PlanOfLatest(c, state[c])
  IN /\ Begun(r) /\ request[r].kind = "extract"
     /\ Planned(c, plan)
     /\ IF plan.batch = {}
        THEN Leave(r, "ended") /\ UNCHANGED <<messages, recent>>
        ELSE FlushAwaited(r, request[r], plan.batch)
     /\ UNCHANGED <<profile, upsets>>

ExtractFlushed(r) ==
  /\ request[r].kind = "extract" /\ request[r].at = "flushed"
  /\ EndsWithStatus(r, CommitMemoryExtractionCheckpoint(r))

ExtractFails(r) ==
  /\ request[r].kind = "extract" /\ request[r].at = "flushing"
  /\ Leave(r, "failed")
  /\ UNCHANGED <<messages, recent, state, profile, past, upsets>>

(* The user, the character or the conversation is gone, or an attachment   *)
(* is not theirs: nothing was saved.                                       *)
BeginThrows(r) ==
  /\ Begun(r)
  /\ Leave(r, "failed")
  /\ UNCHANGED <<messages, recent, state, profile, past, upsets>>

ReplayBegins(r) ==
  /\ Begun(r) /\ request[r].kind = "replay"
  /\ Await(r, [request[r] EXCEPT !.at = "answering"])
  /\ UNCHANGED <<messages, recent, state, profile, past, upsets>>

Status(c) ==
  /\ Planned(c, PlanOfLatest(c, state[c]))
  /\ UNCHANGED <<messages, recent, profile, tail, request, upsets>>

-----------------------------------------------------------------------------
ProfileEdited ==
  /\ upsets < MaxUpsets
  /\ profile' \in Profile \ {profile}
  /\ upsets' = upsets + 1
  /\ UNCHANGED <<messages, recent, state, tail, request, past>>

(* The map and the requests die with the process.  What was written for a  *)
(* batch whose checkpoint was not moved will be written again.             *)
Death ==
  /\ upsets < MaxUpsets
  /\ upsets' = upsets + 1
  /\ tail' = 0
  /\ request' = [r \in Requests |->
                   IF Over(r) THEN request[r] ELSE Left(request[r], "failed")]
  /\ past' = [c \in Conversation |->
       [past[c] EXCEPT !.again = @ \cup UNION {request[r].batch : r \in
          {q \in Requests : request[q].at \in {"flushed", "extracted"} /\ Subject(q) = c}}]]
  /\ UNCHANGED <<messages, recent, state, profile>>

-----------------------------------------------------------------------------
(* What the clients ask for: a chat in a conversation or in a new one,     *)
(* naming the one the user left or none.                                   *)
Chat(c, p) ==
  /\ c = None => RoomForNew
  /\ Arrive("chat", c, p)

ExtractConversationMemoryNow(c) == Arrive("extract", c, None)

ReplayTraceWithoutShortTermMemory ==
  /\ recent # None
  /\ Arrive("replay", None, None)

TurnsInit ==
  /\ messages = [c \in Conversation |-> <<>>]
  /\ recent = None
  /\ state = [c \in Conversation |-> NoState]
  /\ profile \in Profile
  /\ tail = 0
  /\ request = <<>>
  /\ past = [c \in Conversation |-> [told |-> {}, again |-> {}, skipped |-> {}, since |-> 0]]
  /\ upsets = 0

Begins(r) ==
  \/ ChatBegins(r)
  \/ ExtractBegins(r)
  \/ ReplayBegins(r)
  \/ BeginThrows(r)

\* What request r awaits is over, one way or the other.
Settles(r) ==
  \/ Stored(r)
  \/ ChatFlushed(r)
  \/ ChatFlushFails(r)
  \/ TurnThrows(r)
  \/ Answered(r)
  \/ ReplayAnswered(r)
  \/ Extracted(r)
  \/ ExtractionFails(r)
  \/ ExtractFlushed(r)
  \/ ExtractFails(r)

Serves == \E r \in Requests : Begins(r) \/ Settles(r)

Arrives ==
  \/ \E c \in Conversation \cup {None}, p \in Conversation \cup {None} :
       /\ {c, p} \subseteq {None} \cup {d \in Conversation : Exists(d)}
       /\ Chat(c, p)
  \/ \E c \in Conversation : Exists(c) /\ ExtractConversationMemoryNow(c)
  \/ ReplayTraceWithoutShortTermMemory

TurnsNext ==
  \/ Arrives
  \/ Serves
  \/ \E c \in Conversation : Status(c)
  \/ ProfileEdited
  \/ Death

(* Promises settle: models answer, fail or time out, and a turn whose gate *)
(* is open goes on.                                                        *)
TurnsSpec == TurnsInit /\ [][TurnsNext]_turnVars /\ WF_turnVars(Serves)

(* The queue the chain of promises amounts to: the requests that arrived   *)
(* after the last one that is over, and the one of them past the lock.     *)
Line ==
  SubSeq([r \in Requests |-> r], Latest({r \in Requests : Over(r)}) + 1, Len(request))

Served == Latest({r \in Requests : ~Over(r) /\ request[r].at # "waiting"})

Queue == INSTANCE TurnQueue WITH line <- Line, served <- Served

-----------------------------------------------------------------------------
(* Properties.                                                             *)

(* The turns of a user with a character are served one at a time, first    *)
(* come first, and every one that arrives is served and ends: the map      *)
(* entry is deleted by the last of the chain only, and every way out of a  *)
(* turn opens its gate (withConversationTurnLock).                         *)
RefinesTurnQueue == Queue!Spec

(* No turn is extracted twice for one row: neither a flush and the turn    *)
(* that left the conversation, nor two tabs, nor a retry after a failure   *)
(* write the memory of a turn again; only a death between the writes and   *)
(* the checkpoint, or another profile, does (planMemoryExtraction,         *)
(* commitMemoryExtractionCheckpoint).                                      *)
ExtractedOnce ==
  [][\A r \in Requests : Stored(r) =>
       request[r].batch \cap past[Subject(r)].told \subseteq past[Subject(r)].again]_turnVars

(* The checkpoint passes no complete turn whose memory was not written:    *)
(* behind it, and after the turn the row was made for, every turn has been *)
(* extracted or was passed while the profile was disabled, whatever        *)
(* failed, whatever the interval became and whoever asked for the status.  *)
NothingPassed ==
  \A c \in Conversation : \A i \in Saved(messages[c], "assistant") :
    past[c].since < i /\ i <= state[c].last => i \in past[c].told \cup past[c].skipped
=============================================================================
