----------------------------- MODULE ChatClient -----------------------------
(***************************************************************************)
(* The chat page of public/app.js in front of ConversationTurns: the tabs  *)
(* a user has open with one character.  A tab shows a conversation,        *)
(* remembers in one slot the one it came from, and sends both with each    *)
(* message, so that the memory of the one that was left is written before  *)
(* the message is answered.                                                *)
(*                                                                         *)
(* A handler is one step up to its next request to the server.             *)
(***************************************************************************)
EXTENDS ConversationTurns

CONSTANTS
  Tab,        \* tabs of the browser
  MaxOpens    \* bound: clicks on a conversation or on the button for a new one

ASSUME ClientAssumption == MaxOpens \in Nat

VARIABLES
  tab,     \* state of app.js, by tab
  opens

clientVars == <<turnVars, tab, opens>>

(* "waits" is what sendMessage or extractMemoryNow awaits: the reply to    *)
(* request, then the list and the messages of the conversation target.     *)
(* History: "stale", the messages shown were not reloaded after a reply;   *)
(* "broken", a request of the tab failed, or its answer was lost or came   *)
(* after a reply that was asked for later.                                 *)
TabState ==
  [current: Conversation \cup {None}, shown: Conversation \cup {None},
   previous: Conversation \cup {None}, opening: SUBSET Conversation,
   waits: {"nothing", "reply", "list", "messages", "extraction"},
   request: Nat, target: Conversation \cup {None}, stale: BOOLEAN, broken: BOOLEAN]

ClientTypeOK ==
  /\ TurnsTypeOK
  /\ tab \in [Tab -> TabState]
  /\ opens \in 0 .. MaxOpens

Blank ==
  [current |-> None, shown |-> None, previous |-> None, opening |-> {},
   waits |-> "nothing", request |-> 0, target |-> None, stale |-> FALSE, broken |-> FALSE]

Frozen(t) == tab[t].waits # "nothing"

Idle(row) == [row EXCEPT !.waits = "nothing", !.request = 0, !.target = None]

Broken(row) == [Idle(row) EXCEPT !.broken = TRUE]

-----------------------------------------------------------------------------
(* openConversation: the one slot is taken, whatever it held, before the   *)
(* messages are fetched.                                                   *)
Slot(t, c) ==
  IF tab[t].current \in {None, c} THEN tab[t].previous ELSE tab[t].current

OpenConversation(t, c) ==
  /\ opens < MaxOpens /\ Exists(c)
  /\ opens' = opens + 1
  /\ tab' = [tab EXCEPT ![t].previous = Slot(t, c), ![t].opening = @ \cup {c}]
  /\ UNCHANGED turnVars

Shows(row, c) == [row EXCEPT !.current = c, !.shown = c, !.stale = FALSE]

ConversationOpened(t, c) ==
  /\ c \in tab[t].opening
  /\ tab' = [tab EXCEPT ![t] = [Shows(tab[t], c) EXCEPT !.opening = @ \ {c}]]
  /\ UNCHANGED <<turnVars, opens>>

OpenFails(t, c) ==
  /\ c \in tab[t].opening
  /\ tab' = [tab EXCEPT ![t].opening = @ \ {c}, ![t].broken = TRUE]
  /\ UNCHANGED <<turnVars, opens>>

NewConversation(t) ==
  /\ opens < MaxOpens
  /\ opens' = opens + 1
  /\ tab' = [tab EXCEPT ![t] = [Shows(tab[t], None) EXCEPT !.previous = Slot(t, None)]]
  /\ UNCHANGED turnVars

-----------------------------------------------------------------------------
(* sendMessage: the reply, loadConversations, openConversation.  Nothing   *)
(* is sent before the last of them has returned.                           *)
SendMessage(t) ==
  /\ ~Frozen(t)
  /\ Chat(tab[t].current, tab[t].previous)
  /\ tab' = [tab EXCEPT ![t].waits = "reply", ![t].request = Len(request) + 1]
  /\ UNCHANGED opens

\* A mistake: the messages are not reloaded after a reply.
WaitsNoMore(t, row) == Idle(row)

\* After a reply the list is fetched before anything else is sent.
WaitsForList(t, row) == [row EXCEPT !.waits = "list", !.request = 0]

\* Its conversation becomes current, whatever was opened meanwhile.
Replied(row, reply) ==
  [row EXCEPT !.current = reply.conversation, !.stale = row.shown # reply.conversation,
              !.broken = @ \/ row.opening # {},
              !.previous = IF reply.degraded THEN @ ELSE None]

ReplyReceived(t) ==
  LET reply == request[tab[t].request] IN
  /\ tab[t].waits = "reply" /\ reply.at = "ended"
  /\ tab' = [tab EXCEPT ![t] = WaitsForList(t, Replied(@, reply))]
  /\ UNCHANGED <<turnVars, opens>>

\* The turn failed, or the connection was lost while it goes on.
ReplyFails(t) ==
  /\ tab[t].waits = "reply" /\ request[tab[t].request].at # "ended"
  /\ tab' = [tab EXCEPT ![t] = Broken(@)]
  /\ UNCHANGED <<turnVars, opens>>

ConversationsListed(t) ==
  LET c == IF tab[t].current = None THEN recent ELSE tab[t].current IN
  /\ tab[t].waits = "list"
  /\ tab' = [tab EXCEPT ![t].waits = "messages", ![t].target = c,
                        ![t].previous = Slot(t, c)]
  /\ UNCHANGED <<turnVars, opens>>

MessagesReloaded(t) ==
  /\ tab[t].waits = "messages"
  /\ tab' = [tab EXCEPT ![t] = Idle(Shows(tab[t], tab[t].target))]
  /\ UNCHANGED <<turnVars, opens>>

ReloadFails(t) ==
  /\ tab[t].waits \in {"list", "messages"}
  /\ tab' = [tab EXCEPT ![t] = Broken(@)]
  /\ UNCHANGED <<turnVars, opens>>

-----------------------------------------------------------------------------
\* extractMemoryNow, offered when the status says there is something.
ExtractMemoryNow(t) ==
  LET c == tab[t].current IN
  /\ ~Frozen(t) /\ c # None
  /\ PlanOfLatest(c, state[c]).batch # {}
  /\ ExtractConversationMemoryNow(c)
  /\ tab' = [tab EXCEPT ![t].waits = "extraction", ![t].request = Len(request) + 1]
  /\ UNCHANGED opens

ExtractReturns(t) ==
  /\ tab[t].waits = "extraction" /\ Over(tab[t].request)
  /\ tab' = [tab EXCEPT ![t] = Idle(@)]
  /\ UNCHANGED <<turnVars, opens>>

-----------------------------------------------------------------------------
ClientInit ==
  /\ TurnsInit
  /\ tab = [t \in Tab |-> Blank]
  /\ opens = 0

TabSteps(t) ==
  \/ \E c \in Conversation :
       \/ OpenConversation(t, c)
       \/ ConversationOpened(t, c)
       \/ OpenFails(t, c)
  \/ NewConversation(t)
  \/ SendMessage(t)
  \/ ReplyReceived(t)
  \/ ReplyFails(t)
  \/ ConversationsListed(t)
  \/ MessagesReloaded(t)
  \/ ReloadFails(t)
  \/ ExtractMemoryNow(t)
  \/ ExtractReturns(t)

ClientNext ==
  \/ \E t \in Tab : TabSteps(t)
  \/ Serves /\ UNCHANGED <<tab, opens>>

ClientSpec == ClientInit /\ [][ClientNext]_clientVars

-----------------------------------------------------------------------------
(* Properties.                                                             *)

(* A message is sent to the conversation whose messages are shown, however *)
(* replies, clicks and reloads interleave, unless a reload after a reply   *)
(* failed (sendMessage, loadConversations, openConversation).              *)
SentWhereShown ==
  [][\A t \in Tab : SendMessage(t) =>
       tab[t].shown = tab[t].current \/ (tab[t].stale /\ tab[t].broken)]_clientVars
=============================================================================
