--------------------------- MODULE MCConversation ---------------------------
(***************************************************************************)
(* A conversation as TLC checks it: the queue of turns with every client   *)
(* there may be, the same queue behind the chat page, or the context of    *)
(* one conversation built by several processes.  A behaviour is of one of  *)
(* these parts; the rest stands still.                                     *)
(***************************************************************************)
EXTENDS ChatClient, ConversationContext

VARIABLE part

vars == <<clientVars, contextVars, part>>

Profiles ==
  {[id |-> "first", enabled |-> TRUE, interval |-> 1],
   [id |-> "first", enabled |-> FALSE, interval |-> 1],
   [id |-> "second", enabled |-> TRUE, interval |-> 2]}

Init ==
  /\ part \in {"turns", "client", "context"}
  /\ ClientInit /\ ContextInit
  /\ part # "turns" => profile.enabled /\ profile.interval = 2

Next ==
  \/ /\ part = "turns" /\ TurnsNext
     /\ UNCHANGED <<tab, opens, contextVars, part>>
  \/ /\ part = "client" /\ ClientNext
     /\ UNCHANGED <<contextVars, part>>
  \/ /\ part = "context" /\ ContextNext
     /\ UNCHANGED <<clientVars, part>>

Spec == Init /\ [][Next]_vars /\ WF_turnVars(Serves)

TypeOK == ClientTypeOK /\ ContextTypeOK
=============================================================================
