------------------------------ MODULE TurnQueue ------------------------------
(***************************************************************************)
(* What lib/agent.js promises of the turns of one user with one character: *)
(* they are served one at a time, in the order in which they arrived, and  *)
(* each that arrives is served and ends, unless the process dies.          *)
(***************************************************************************)
EXTENDS Naturals, Sequences

CONSTANT MaxRequests   \* bound: requests, numbered as they arrive

VARIABLES
  line,    \* the requests that have arrived and not ended, first come first
  served   \* the one of them that is being served, 0 for none

vars == <<line, served>>

Init == line = <<>> /\ served = 0

Join(r) ==
  /\ \A i \in DOMAIN line : line[i] # r
  /\ line' = Append(line, r)
  /\ UNCHANGED served

Serve ==
  /\ served = 0 /\ line # <<>>
  /\ served' = Head(line)
  /\ UNCHANGED line

End ==
  /\ served # 0 /\ served = Head(line)
  /\ line' = Tail(line)
  /\ served' = 0

\* A turn that answers without waiting for anything.
ServeAndEnd ==
  /\ served = 0 /\ line # <<>>
  /\ line' = Tail(line)
  /\ UNCHANGED served

Die == line' = <<>> /\ served' = 0

Next ==
  \/ \E r \in 1 .. MaxRequests : Join(r)
  \/ Serve
  \/ End
  \/ ServeAndEnd
  \/ Die

Spec == Init /\ [][Next]_vars /\ WF_vars(Serve \/ ServeAndEnd) /\ WF_vars(End)
=============================================================================
