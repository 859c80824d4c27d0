--------------------------- MODULE ServicesProofs ---------------------------
(***************************************************************************)
(* Proofs about the services a turn calls, for any callers, workers, turns *)
(* and limits.  AgentRun: types, and that what a request said is shown     *)
(* once.  Delegation and the Sandbox under it: types, that each task is    *)
(* run once and its result is its row's, and that what a tool wrote the    *)
(* next one finds.  Capabilities: types, and that a tool is called on the  *)
(* server that it was looked up in.  At the end, what a run of MCServices  *)
(* keeps, with the memory service and the recall beside them.              *)
(***************************************************************************)
EXTENDS MCServices, MemoryServiceProofs, RecallProofs, TLAPS

-----------------------------------------------------------------------------
(* The agent loop.                                                         *)

RunRow == [tools : BOOLEAN, at : Places, turns : 0..(MaxModelTurns + 1),
           calls : 0..(MaxToolCalls + 1), left : 0..MaxAsked, made : BOOLEAN,
           said : 0..MaxPieces, shown : Texts, text : Texts]

(* What the page shows is what the request under way has said so far, or   *)
(* what the answer that asked for tools had said.                          *)
ShowsWhatWasSaid(r) ==
  /\ r.at \in Requests => r.shown = Pieces(r)
  /\ r.at = "creating" => r.shown = <<>> /\ r.said = 0
  /\ r.at = "tools" => r.shown = r.text /\ r.left > 0
  /\ r.at = "done" => r.shown = r.text

RunInv ==
  /\ prefix \in CacheRows
  /\ runs \in [Caller -> RunRow]
  /\ \A c \in Caller : ShowsWhatWasSaid(runs[c])

LEMMA NothingIsAText == <<>> \in Texts
BY DEF Texts

LEMMA NothingSaid == 0 \in 0..MaxPieces
BY LoopAssumption DEF LoopAssumption

\* What a request says in pieces is one of the texts.
LEMMA PiecesAreAText ==
  ASSUME NEW r \in RunRow, r.at \in Requests
  PROVE  /\ Pieces(r) \in Texts
         /\ r.said = 0 => Pieces(r) = <<>>
<1>1. r.said \in 0..MaxPieces /\ r.said \in Nat
  BY LoopAssumption DEF LoopAssumption, RunRow
<1>2. CASE r.said = 0
  <2>1. Pieces(r) = <<>>
    BY <1>2 DEF Pieces
  <2> QED BY <2>1, <1>2 DEF Texts
<1>3. CASE r.said # 0
  <2>1. r.said \in 1..MaxPieces
    BY <1>1, <1>3, LoopAssumption DEF LoopAssumption
  <2> QED BY <2>1, <1>3 DEF Texts, Pieces
<1> QED BY <1>2, <1>3

\* One more piece is shown after those before it.
LEMMA OneMorePiece ==
  ASSUME NEW r \in RunRow, r.at \in Requests, r.said < MaxPieces, r.shown = Pieces(r),
         NEW s, s = Says(r)
  PROVE  s \in RunRow /\ ShowsWhatWasSaid(s)
<1>1. r.said \in Nat /\ r.said + 1 \in 0..MaxPieces
  BY LoopAssumption DEF LoopAssumption, RunRow
<1>2. s.at = r.at /\ s.said = r.said + 1 /\ s.shown = Append(r.shown, <<r.at, r.said + 1>>)
  BY <1>1 DEF Says, Shows, RunRow
<1>3. Append(r.shown, <<r.at, r.said + 1>>) = [i \in 1..(r.said + 1) |-> <<r.at, i>>]
  BY <1>1 DEF Pieces
<1>4. s.shown = Pieces(s)
  BY <1>2, <1>3 DEF Pieces
<1>5. [r EXCEPT !.said = r.said + 1] \in RunRow /\ [r EXCEPT !.said = r.said + 1].at \in Requests
  BY <1>1 DEF RunRow
<1>6. s.shown \in Texts
  <2> DEFINE q == [r EXCEPT !.said = r.said + 1]
  <2>1. Pieces(q) \in Texts
    BY <1>5, PiecesAreAText
  <2>2. Pieces(q) = [i \in 1..(r.said + 1) |-> <<r.at, i>>]
    BY DEF Pieces, RunRow
  <2> QED BY <1>2, <1>3, <2>1, <2>2
<1>7. s \in RunRow
  BY <1>1, <1>2, <1>6 DEF Says, Shows, RunRow
<1> QED BY <1>4, <1>7, <1>2 DEF ShowsWhatWasSaid, Requests

\* A turn that starts, and a request that is made before anything was said.
LEMMA TurnStartsRight ==
  ASSUME NEW r \in RunRow, NEW where \in Requests \cup {"creating"}
  PROVE  /\ TurnStarts(r, where) \in RunRow
         /\ ShowsWhatWasSaid(TurnStarts(r, where))
<1> DEFINE s == TurnStarts(r, where)
<1>1. AtMost(r.turns + 1, MaxModelTurns + 1) \in 0..(MaxModelTurns + 1)
  BY LoopAssumption DEF LoopAssumption, RunRow, AtMost
<1>2. s \in RunRow
  BY <1>1, NothingIsAText, NothingSaid DEF RunRow, TurnStarts, Places, Requests
<1>3. s.at = where /\ s.said = 0 /\ s.shown = <<>>
  BY DEF RunRow, TurnStarts
<1>4. where \in Requests => s.shown = Pieces(s)
  BY <1>2, <1>3, PiecesAreAText
<1> QED BY <1>2, <1>3, <1>4 DEF ShowsWhatWasSaid, Requests

LEMMA AsksRight ==
  ASSUME NEW r \in RunRow, NEW where \in Requests, NEW made \in BOOLEAN, r.shown = <<>>
  PROVE  /\ [Asks(r, where) EXCEPT !.made = made] \in RunRow
         /\ ShowsWhatWasSaid([Asks(r, where) EXCEPT !.made = made])
<1> DEFINE s == [Asks(r, where) EXCEPT !.made = made]
<1>1. s \in RunRow
  BY NothingSaid DEF RunRow, Asks, Places, Requests
<1>2. s.at = where /\ s.said = 0 /\ s.shown = <<>>
  BY DEF RunRow, Asks
<1>3. s.shown = Pieces(s)
  BY <1>1, <1>2, PiecesAreAText
<1> QED BY <1>1, <1>2, <1>3 DEF ShowsWhatWasSaid, Requests

\* A run that ends with the text it shows; one that is thrown.
LEMMA EndsRight ==
  ASSUME NEW r \in RunRow, NEW text \in Texts, r.shown = text
  PROVE  Ended(r, text) \in RunRow /\ ShowsWhatWasSaid(Ended(r, text))
<1>1. Ended(r, text) \in RunRow
  BY NothingSaid DEF RunRow, Ended, Places
<1>2. /\ Ended(r, text).at \in {"failed", "done"}
      /\ Ended(r, text).shown = Ended(r, text).text
  BY DEF RunRow, Ended
<1> QED BY <1>1, <1>2 DEF ShowsWhatWasSaid, Requests

LEMMA ThrownRight ==
  ASSUME NEW r \in RunRow
  PROVE  Thrown(r) \in RunRow /\ ShowsWhatWasSaid(Thrown(r))
<1>1. Thrown(r) \in RunRow /\ Thrown(r).at = "failed"
  BY NothingSaid DEF RunRow, Thrown, Places
<1> QED BY <1>1 DEF ShowsWhatWasSaid, Requests

LEMMA AnswersRight ==
  ASSUME NEW r \in RunRow, r.at \in Requests, r.shown = Pieces(r)
  PROVE  Answered(r) \in RunRow /\ ShowsWhatWasSaid(Answered(r))
<1>1. CASE r.said = 0
  <2> DEFINE text == <<<<r.at, 0>>>>
             s == Shows(r, 0)
  <2>1. r.shown = <<>>
    BY <1>1, PiecesAreAText
  <2>2. text \in Texts
    BY DEF Texts
  <2>3. s \in RunRow /\ s.shown = text
    BY <2>1, <2>2 DEF Shows, RunRow
  <2> HIDE DEF text, s
  <2>4. Ended(s, text) \in RunRow /\ ShowsWhatWasSaid(Ended(s, text))
    BY <2>2, <2>3, EndsRight
  <2> QED BY <1>1, <2>4 DEF Answered, text, s
<1>2. CASE r.said # 0
  BY <1>2, PiecesAreAText, EndsRight DEF Answered
<1> QED BY <1>1, <1>2

LEMMA TurnEndsRight ==
  ASSUME NEW r \in RunRow, r.shown = r.text
  PROVE  TurnEnds(r) \in RunRow /\ ShowsWhatWasSaid(TurnEnds(r))
<1>1. CASE Stops(r)
  <2>1. r.text \in Texts
    BY DEF RunRow
  <2> QED BY <1>1, <2>1, EndsRight DEF TurnEnds
<1>2. CASE ~Stops(r)
  <2> DEFINE s == TurnStarts(r, "native")
  <2>1. s \in RunRow /\ ShowsWhatWasSaid(s)
    BY TurnStartsRight DEF Requests
  <2>2. s.at = "native"
    BY DEF TurnStarts, RunRow
  <2> HIDE DEF s
  <2>3. /\ [s EXCEPT !.text = <<>>] \in RunRow
        /\ [s EXCEPT !.text = <<>>].at = "native"
        /\ [s EXCEPT !.text = <<>>].said = s.said
        /\ [s EXCEPT !.text = <<>>].shown = s.shown
    BY <2>1, <2>2, NothingIsAText DEF RunRow
  <2>4. ShowsWhatWasSaid([s EXCEPT !.text = <<>>])
    BY <2>1, <2>2, <2>3 DEF ShowsWhatWasSaid, Pieces, Requests
  <2> QED BY <1>2, <2>3, <2>4 DEF TurnEnds, s
<1> QED BY <1>1, <1>2

LEMMA RunInitRight == RunInit => RunInv
<1> SUFFICES ASSUME RunInit PROVE RunInv
  OBVIOUS
<1>1. \A with \in BOOLEAN : NoRun(with) \in RunRow /\ NoRun(with).at = "idle"
  BY NothingIsAText, LoopAssumption DEF LoopAssumption, NoRun, RunRow, Places
<1>2. \A c \in Caller : runs[c] \in {NoRun(FALSE), NoRun(TRUE)}
  BY DEF RunInit
<1>3. \A c \in Caller : runs[c] \in RunRow /\ ShowsWhatWasSaid(runs[c])
  BY <1>1, <1>2 DEF ShowsWhatWasSaid, Requests
<1> QED BY <1>3 DEF RunInit, RunInv

LEMMA ProceedsRight ==
  ASSUME RunInv, NEW c \in Caller, Proceeds(c) \/ Piece(c)
  PROVE  /\ prefix' \in CacheRows
         /\ \E s \in RunRow : ShowsWhatWasSaid(s) /\ runs' = [runs EXCEPT ![c] = s]
<1> DEFINE r == runs[c]
<1>0. prefix \in CacheRows /\ r \in RunRow /\ ShowsWhatWasSaid(r) /\ runs \in [Caller -> RunRow]
  BY DEF RunInv
<1>a. MarkUsed \in CacheRows /\ {"ready", "cooling"} \subseteq CacheRows
  BY <1>0 DEF MarkUsed, CacheRows
<1>1. CASE RunBegins(c)
  <2>1. PICK where \in Requests \cup {"creating"} : runs' = [runs EXCEPT ![c] = TurnStarts(r, where)]
    BY <1>1 DEF RunBegins, Requests
  <2> QED BY <1>0, <1>1, <2>1, TurnStartsRight DEF RunBegins
<1>2. CASE ContextCreated(c)
  <2>1. r.shown = <<>>
    BY <1>0, <1>2 DEF ContextCreated, ShowsWhatWasSaid
  <2> QED BY <1>0, <1>a, <1>2, <2>1, AsksRight DEF ContextCreated, Requests
<1>3. CASE CreateFails(c)
  <2>1. r.shown = <<>>
    BY <1>0, <1>3 DEF CreateFails, ShowsWhatWasSaid
  <2>2. [Asks(r, "regular") EXCEPT !.made = r.made] = Asks(r, "regular") /\ r.made \in BOOLEAN
    BY <1>0 DEF Asks, RunRow
  <2>3. Asks(r, "regular") \in RunRow /\ ShowsWhatWasSaid(Asks(r, "regular"))
    BY <1>0, <2>1, <2>2, AsksRight DEF Requests
  <2> QED BY <1>a, <1>3, <2>3 DEF CreateFails
<1>4. CASE ContextAnswers(c)
  <2>1. r.at \in Requests /\ r.shown = Pieces(r)
    BY <1>0, <1>4 DEF ContextAnswers, ShowsWhatWasSaid, Requests
  <2> QED BY <1>0, <1>a, <1>4, <2>1, AnswersRight DEF ContextAnswers
<1>5. CASE ContextFails(c)
  <2>1. CASE r.said > 0
    BY <1>0, <1>5, <2>1, ThrownRight DEF ContextFails
  <2>2. CASE ~(r.said > 0)
    <3>1. r.said = 0
      BY <1>0, <2>2, LoopAssumption DEF RunRow, LoopAssumption
    <3>2. r.shown = <<>>
      BY <1>0, <1>5, <3>1, PiecesAreAText DEF ContextFails, ShowsWhatWasSaid, Requests
    <3> QED BY <1>0, <1>a, <1>5, <2>2, <3>2, AsksRight DEF ContextFails, FallsBack, Requests
  <2> QED BY <2>1, <2>2
<1>6. CASE RegularAnswers(c)
  <2>1. r.at \in Requests /\ r.shown = Pieces(r)
    BY <1>0, <1>6 DEF RegularAnswers, ShowsWhatWasSaid, Requests
  <2> QED BY <1>0, <1>6, <2>1, AnswersRight DEF RegularAnswers
<1>7. CASE RequestFails(c)
  BY <1>0, <1>7, ThrownRight DEF RequestFails
<1>8. CASE NativeBegins(c)
  BY <1>0, <1>8, TurnStartsRight DEF NativeBegins, Requests
<1>9. CASE NativeAnswers(c)
  <2>1. r.at \in Requests /\ r.shown = Pieces(r)
    BY <1>0, <1>9 DEF NativeAnswers, ShowsWhatWasSaid, Requests
  <2> QED BY <1>0, <1>9, <2>1, PiecesAreAText, EndsRight DEF NativeAnswers
<1>10. CASE NativeAsks(c)
  <2>1. r.at \in Requests /\ r.shown = Pieces(r)
    BY <1>0, <1>10 DEF NativeAsks, ShowsWhatWasSaid, Requests
  <2>2. PICK n \in 1..MaxAsked :
          runs' = [runs EXCEPT ![c] = [r EXCEPT !.at = "tools", !.left = n, !.text = Pieces(r), !.said = 0]]
    BY <1>10 DEF NativeAsks
  <2> DEFINE s == [r EXCEPT !.at = "tools", !.left = n, !.text = Pieces(r), !.said = 0]
  <2>3. Pieces(r) \in Texts
    BY <1>0, <2>1, PiecesAreAText
  <2>4. n \in 0..MaxAsked /\ n > 0
    BY LoopAssumption DEF LoopAssumption
  <2>5. s \in RunRow /\ s.at = "tools" /\ s.shown = s.text /\ s.left = n
    BY <1>0, <2>1, <2>3, <2>4, NothingSaid DEF RunRow, Places
  <2>6. ShowsWhatWasSaid(s)
    BY <2>4, <2>5 DEF ShowsWhatWasSaid, Requests
  <2> QED BY <1>0, <1>10, <2>2, <2>5, <2>6 DEF NativeAsks
<1>11. CASE ToolReturns(c)
  <2> DEFINE s == [r EXCEPT !.calls = AtMost(@ + 1, MaxToolCalls + 1), !.left = @ - 1]
  <2>1. r.at = "tools" /\ r.shown = r.text /\ r.left > 0
    BY <1>0, <1>11 DEF ToolReturns, ShowsWhatWasSaid
  <2>2. /\ AtMost(r.calls + 1, MaxToolCalls + 1) \in 0..(MaxToolCalls + 1)
        /\ r.left - 1 \in 0..MaxAsked
    BY <1>0, <2>1, LoopAssumption DEF LoopAssumption, RunRow, AtMost
  <2>3. s \in RunRow /\ s.at = "tools" /\ s.shown = s.text
    BY <1>0, <2>1, <2>2 DEF RunRow
  <2>4. runs' = [runs EXCEPT ![c] = IF s.left = 0 THEN TurnEnds(s) ELSE s]
    BY <1>11 DEF ToolReturns
  <2> HIDE DEF s
  <2>5. CASE s.left = 0
    BY <1>0, <1>11, <2>3, <2>4, <2>5, TurnEndsRight DEF ToolReturns
  <2>6. CASE s.left # 0
    <3>1. ShowsWhatWasSaid(s)
      <4>1. s.left \in Nat /\ s.left > 0
        BY <2>3, <2>6, LoopAssumption DEF LoopAssumption, RunRow
      <4> QED BY <2>3, <4>1 DEF ShowsWhatWasSaid, Requests
    <3> QED BY <1>0, <1>11, <2>3, <2>4, <2>6, <3>1 DEF ToolReturns
  <2> QED BY <2>5, <2>6
<1>12. CASE Piece(c)
  <2>1. r.at \in Requests /\ r.said < MaxPieces /\ r.shown = Pieces(r)
    BY <1>0, <1>12 DEF Piece, ShowsWhatWasSaid
  <2> DEFINE s == Says(r)
  <2>2. s \in RunRow /\ ShowsWhatWasSaid(s)
    BY <1>0, <2>1, OneMorePiece
  <2>3. runs' = [runs EXCEPT ![c] = s] /\ prefix' = prefix
    BY <1>12 DEF Piece
  <2> HIDE DEF s
  <2> QED BY <1>0, <2>2, <2>3
<1> QED BY <1>1, <1>2, <1>3, <1>4, <1>5, <1>6, <1>7, <1>8, <1>9, <1>10, <1>11, <1>12 DEF Proceeds

LEMMA RunInvKept == RunInv /\ [RunNext]_runVars => RunInv'
<1> SUFFICES ASSUME RunInv, [RunNext]_runVars PROVE RunInv'
  OBVIOUS
<1>1. ASSUME NEW c \in Caller, Proceeds(c) \/ Piece(c) PROVE RunInv'
  <2>1. PICK s \in RunRow : ShowsWhatWasSaid(s) /\ runs' = [runs EXCEPT ![c] = s]
    BY <1>1, ProceedsRight
  <2>2. runs' \in [Caller -> RunRow]
    BY <2>1 DEF RunInv
  <2>3. \A d \in Caller : runs'[d] = s \/ runs'[d] = runs[d]
    BY <2>1 DEF RunInv
  <2>4. \A d \in Caller : ShowsWhatWasSaid(runs'[d])
    BY <2>1, <2>3 DEF RunInv
  <2>5. prefix' \in CacheRows
    BY <1>1, ProceedsRight
  <2> QED BY <2>2, <2>4, <2>5 DEF RunInv
<1>2. CASE Expires \/ CooldownEnds
  BY <1>2 DEF RunInv, Expires, CooldownEnds, CacheRows
<1>3. CASE UNCHANGED runVars
  BY <1>3 DEF RunInv, runVars
<1> QED BY <1>1, <1>2, <1>3 DEF RunNext

\* Runs and the row of the cache keep their types.
THEOREM RunsAreTyped == RunSpec => []RunTypeOK
<1>1. RunInv => RunTypeOK
  BY DEF RunInv, RunTypeOK, RunRow
<1> QED BY <1>1, RunInitRight, RunInvKept, PTL DEF RunSpec

\* The page shows the text of one request, once, and what is saved at the end.
THEOREM TextIsShownOnce == RunSpec => []ShownOnce
<1>1. RunInv => ShownOnce
  BY DEF RunInv, ShownOnce, RunRow, ShowsWhatWasSaid
<1> QED BY <1>1, RunInitRight, RunInvKept, PTL DEF RunSpec

-----------------------------------------------------------------------------
(* Subagents and their sandboxes.                                          *)

SessionRow(n) == [status : {"none", "creating", "ready", "error"},
                  sandbox : 0 .. n, cached : 0 .. n]

CallRow(n) == [at : {"idle", "connecting", "creating", "using"}, sandbox : 0 .. n]

\* The one sandbox that may live is the row's; whoever makes another knows
\* that it does not.
OneSandbox ==
  /\ session.cached \in {0, session.sandbox}
  /\ sandboxes.written \subseteq sandboxes.alive
  /\ \A s \in sandboxes.alive : s = session.sandbox
  /\ \A w \in Worker : calls[w].at = "connecting" => calls[w].sandbox = session.sandbox
  /\ \A w \in Worker : calls[w].at = "creating" => sandboxes.alive = {}

SandboxInv ==
  /\ ran \in [created : 0 .. MaxSandboxes, deaths : 0 .. MaxDeaths, scattered : BOOLEAN]
  /\ session \in SessionRow(ran.created)
  /\ sandboxes \in [alive : SUBSET (1 .. ran.created), written : SUBSET (1 .. ran.created)]
  /\ calls \in [Worker -> CallRow(ran.created)]
  /\ ~ran.scattered => OneSandbox

-----------------------------------------------------------------------------
(* The sandbox.                                                            *)

LEMMA SandboxTyped == SandboxInv => SandboxTypeOK
<1> SUFFICES ASSUME SandboxInv PROVE SandboxTypeOK
  OBVIOUS
<1>1. ran.created \in 0 .. MaxSandboxes /\ Remote = 1 .. ran.created
  BY SandboxAssumption DEF SandboxAssumption, SandboxInv, Remote, Sandboxes
<1>2. 0 .. ran.created = {0} \cup Remote
  BY <1>1, SandboxAssumption DEF SandboxAssumption
<1> QED
  BY <1>1, <1>2 DEF SandboxInv, SandboxTypeOK, SessionRow, CallRow

LEMMA FilesFound == SandboxInv => FilesStay
BY DEF SandboxInv, OneSandbox, FilesStay

LEMMA SandboxStarts == SandboxInit => SandboxInv
BY SandboxAssumption
   DEF SandboxAssumption, SandboxInit, SandboxInv, OneSandbox, SessionRow, CallRow, NoCall

LEMMA EnsureRight ==
  ASSUME SandboxInv, NEW w \in Worker, EnsureSandboxSession(w)
  PROVE  SandboxInv'
<1> DEFINE n == ran.created
<1>1. /\ n \in 0 .. MaxSandboxes /\ n \in Nat /\ UNCHANGED <<sandboxes, ran>>
      /\ session \in SessionRow(n) /\ calls \in [Worker -> CallRow(n)]
      /\ sandboxes.alive \subseteq 1 .. n
  BY SandboxAssumption DEF SandboxAssumption, SandboxInv, EnsureSandboxSession
<1>2. CASE SessionUsed(w)
  <2> DEFINE call == [at |-> "using", sandbox |-> session.cached]
  <2>1. calls' = [calls EXCEPT ![w] = call] /\ session' = session /\ call \in CallRow(n)
        /\ call.at = "using"
    BY <1>1, <1>2 DEF SessionUsed, SessionRow, CallRow
  <2> HIDE DEF call
  <2> QED
    BY <1>1, <2>1 DEF SandboxInv, OneSandbox
<1>3. CASE SessionMissed(w)
  <2> DEFINE call == [at |-> IF session.sandbox # 0 THEN "connecting" ELSE "creating",
                      sandbox |-> session.sandbox]
  <2>1. /\ calls' = [calls EXCEPT ![w] = call]
        /\ session' = [session EXCEPT !.status = "creating"]
    BY <1>3 DEF SessionMissed
  <2>2. /\ call \in CallRow(n) /\ call.sandbox = session.sandbox
        /\ call.at = "creating" => session.sandbox = 0
    BY <1>1 DEF SessionRow, CallRow
  <2>3. /\ session' \in SessionRow(n) /\ session'.sandbox = session.sandbox
        /\ session'.cached = session.cached
    BY <1>1, <2>1 DEF SessionRow
  <2> HIDE DEF call
  <2>4. calls' \in [Worker -> CallRow(n)]
    BY <1>1, <2>1, <2>2
  <2>5. ~ran.scattered => OneSandbox'
    <3> SUFFICES ASSUME ~ran.scattered, OneSandbox PROVE OneSandbox'
      BY DEF SandboxInv
    <3>1. \A v \in Worker : calls'[v] = IF v = w THEN call ELSE calls[v]
      BY <1>1, <2>1
    <3>2. session.sandbox = 0 => sandboxes.alive = {}
      BY <1>1 DEF OneSandbox
    <3> QED
      BY <1>1, <2>2, <2>3, <3>1, <3>2 DEF OneSandbox
  <2> QED
    BY <1>1, <2>3, <2>4, <2>5 DEF SandboxInv
<1> QED
  BY <1>2, <1>3 DEF EnsureSandboxSession

LEMMA BatchProceedsRight ==
  ASSUME SandboxInv, NEW w \in Worker, CallProceeds(w)
  PROVE  SandboxInv'
<1> DEFINE n == ran.created
           call == calls[w]
<1>1. /\ n \in 0 .. MaxSandboxes /\ n \in Nat /\ MaxSandboxes \in Nat
      /\ ran \in [created : 0 .. MaxSandboxes, deaths : 0 .. MaxDeaths, scattered : BOOLEAN]
      /\ session \in SessionRow(n) /\ calls \in [Worker -> CallRow(n)]
      /\ sandboxes \in [alive : SUBSET (1 .. n), written : SUBSET (1 .. n)]
      /\ call \in CallRow(n) /\ call.sandbox \in 0 .. n /\ NoCall \in CallRow(n)
      /\ ~ran.scattered => OneSandbox
  BY SandboxAssumption DEF SandboxAssumption, SandboxInv, CallRow, NoCall
<1>2. CASE Connected(w)
  <2> DEFINE s == call.sandbox
             next == [at |-> "using", sandbox |-> s]
             made == [status |-> "ready", sandbox |-> s, cached |-> s]
  <2>1. /\ calls' = [calls EXCEPT ![w] = next] /\ session' = made
        /\ UNCHANGED <<sandboxes, ran>> /\ call.at = "connecting" /\ s \in sandboxes.alive
    BY <1>2 DEF Connected, SessionReady, Answering
  <2>2. /\ next \in CallRow(n) /\ made \in SessionRow(n) /\ next.at = "using"
        /\ made.sandbox = s /\ made.cached = s
    BY <1>1 DEF CallRow, SessionRow
  <2> HIDE DEF next, made
  <2>3. \A v \in Worker : calls'[v] = IF v = w THEN next ELSE calls[v]
    BY <1>1, <2>1
  <2>4. ~ran.scattered => OneSandbox'
    BY <1>1, <2>1, <2>2, <2>3 DEF OneSandbox
  <2> QED
    BY <1>1, <2>1, <2>2, <2>4 DEF SandboxInv
<1>3. CASE ConnectFails(w)
  <2> DEFINE next == [at |-> "creating", sandbox |-> 0]
  <2>1. /\ calls' = [calls EXCEPT ![w] = next] /\ call.at = "connecting"
        /\ ran' = [ran EXCEPT !.scattered = @ \/ Answering(call.sandbox)]
        /\ UNCHANGED <<session, sandboxes>>
    BY <1>3 DEF ConnectFails
  <2>2. next \in CallRow(n)
    BY <1>1 DEF CallRow
  <2>3. /\ ran' \in [created : 0 .. MaxSandboxes, deaths : 0 .. MaxDeaths, scattered : BOOLEAN]
        /\ ran'.created = n /\ ran'.scattered = (ran.scattered \/ Answering(call.sandbox))
    BY <1>1, <2>1 DEF Answering
  <2>4. \A v \in Worker : calls'[v] = IF v = w THEN next ELSE calls[v]
    BY <1>1, <2>1
  <2>5. ~ran'.scattered => OneSandbox'
    BY <1>1, <2>1, <2>3, <2>4 DEF OneSandbox, Answering
  <2> QED
    BY <1>1, <2>1, <2>2, <2>3, <2>5 DEF SandboxInv
<1>4. CASE Created(w)
  <2> DEFINE s == n + 1
             next == [at |-> "using", sandbox |-> s]
             made == [status |-> "ready", sandbox |-> s, cached |-> s]
             more == \E v \in Worker \ {w} : calls[v].at \in {"connecting", "creating"}
  <2>1. /\ calls' = [calls EXCEPT ![w] = next] /\ session' = made
        /\ sandboxes' = [sandboxes EXCEPT !.alive = @ \cup {s}]
        /\ ran' = [ran EXCEPT !.created = s, !.scattered = @ \/ more]
        /\ call.at = "creating" /\ n < MaxSandboxes
    BY <1>4 DEF Created, SessionReady
  <2>2. /\ s \in 1 .. MaxSandboxes /\ s \in Nat /\ 0 .. n \subseteq 0 .. s
        /\ s \in 0 .. s /\ s \in 1 .. s /\ 1 .. n \subseteq 1 .. s /\ s \in 0 .. MaxSandboxes
    BY <1>1, <2>1
  <2> HIDE DEF s
  <2>3. /\ next \in CallRow(s) /\ made \in SessionRow(s) /\ next.at = "using"
        /\ made.sandbox = s /\ made.cached = s /\ CallRow(n) \subseteq CallRow(s)
    BY <2>2 DEF CallRow, SessionRow
  <2> HIDE DEF next, made, more
  <2>4. /\ ran' \in [created : 0 .. MaxSandboxes, deaths : 0 .. MaxDeaths, scattered : BOOLEAN]
        /\ ran'.created = s /\ ran'.scattered = (ran.scattered \/ more)
    BY <1>1, <2>1, <2>2 DEF more
  <2>5. /\ sandboxes' \in [alive : SUBSET (1 .. s), written : SUBSET (1 .. s)]
        /\ sandboxes'.alive = sandboxes.alive \cup {s} /\ sandboxes'.written = sandboxes.written
    BY <1>1, <2>1, <2>2
  <2>6. \A v \in Worker : calls'[v] = IF v = w THEN next ELSE calls[v]
    BY <1>1, <2>1
  <2>7. calls' \in [Worker -> CallRow(s)]
    BY <1>1, <2>1, <2>3
  <2>8. ~ran'.scattered => OneSandbox'
    BY <1>1, <2>1, <2>3, <2>4, <2>5, <2>6 DEF OneSandbox, more
  <2> QED
    BY <2>1, <2>3, <2>4, <2>5, <2>7, <2>8 DEF SandboxInv
<1>5. CASE CreateThrows(w)
  <2>1. /\ calls' = [calls EXCEPT ![w] = NoCall] /\ session' = [session EXCEPT !.status = "error"]
        /\ UNCHANGED <<sandboxes, ran>> /\ NoCall.at = "idle"
    BY <1>5 DEF CreateThrows, NoCall
  <2>2. /\ session' \in SessionRow(n) /\ session'.sandbox = session.sandbox
        /\ session'.cached = session.cached
    BY <1>1, <2>1 DEF SessionRow
  <2>3. \A v \in Worker : calls'[v] = IF v = w THEN NoCall ELSE calls[v]
    BY <1>1, <2>1
  <2>4. ~ran.scattered => OneSandbox'
    BY <1>1, <2>1, <2>2, <2>3 DEF OneSandbox
  <2> QED
    BY <1>1, <2>1, <2>2, <2>4 DEF SandboxInv
<1>6. CASE ToolEnds(w)
  <2>1. /\ calls' = [calls EXCEPT ![w] = NoCall] /\ UNCHANGED <<session, ran>> /\ NoCall.at = "idle"
        /\ \/ sandboxes' = sandboxes
           \/ /\ call.sandbox \in sandboxes.alive
              /\ sandboxes' = [sandboxes EXCEPT !.written = @ \cup {call.sandbox}]
    BY <1>6 DEF ToolEnds, NoCall, Answering
  <2>2. /\ sandboxes' \in [alive : SUBSET (1 .. n), written : SUBSET (1 .. n)]
        /\ sandboxes'.alive = sandboxes.alive
        /\ sandboxes'.written \subseteq sandboxes.written \cup sandboxes.alive
    <3>1. CASE sandboxes' = sandboxes
      BY <1>1, <3>1
    <3>2. CASE /\ call.sandbox \in sandboxes.alive
               /\ sandboxes' = [sandboxes EXCEPT !.written = @ \cup {call.sandbox}]
      BY <1>1, <3>2
    <3> QED
      BY <2>1, <3>1, <3>2
  <2>3. \A v \in Worker : calls'[v] = IF v = w THEN NoCall ELSE calls[v]
    BY <1>1, <2>1
  <2>4. ~ran.scattered => OneSandbox'
    BY <1>1, <2>1, <2>2, <2>3 DEF OneSandbox
  <2> QED
    BY <1>1, <2>1, <2>2, <2>4 DEF SandboxInv
<1> QED
  BY <1>2, <1>3, <1>4, <1>5, <1>6 DEF CallProceeds

LEMMA ExpiresRight ==
  ASSUME SandboxInv, NEW s \in Sandboxes, SandboxExpires(s)
  PROVE  SandboxInv'
<1>1. /\ sandboxes' = [alive |-> sandboxes.alive \ {s}, written |-> sandboxes.written \ {s}]
      /\ UNCHANGED <<session, calls, ran>>
  BY DEF SandboxExpires
<1>2. sandboxes' \in [alive : SUBSET (1 .. ran.created), written : SUBSET (1 .. ran.created)]
  BY <1>1 DEF SandboxInv
<1>3. ~ran.scattered => OneSandbox'
  BY <1>1 DEF SandboxInv, OneSandbox
<1> QED
  BY <1>1, <1>2, <1>3 DEF SandboxInv

LEMMA ForgottenRight ==
  ASSUME SandboxInv, SandboxForgotten
  PROVE  SandboxInv'
<1> DEFINE n == ran.created
<1>1. /\ session' = [session EXCEPT !.cached = 0] /\ calls' = [w \in Worker |-> NoCall]
      /\ ran' = [ran EXCEPT !.deaths = @ + 1] /\ sandboxes' = sandboxes /\ ran.deaths < MaxDeaths
  BY DEF SandboxForgotten
<1>2. n \in Nat /\ 0 \in 0 .. n /\ NoCall \in CallRow(n) /\ NoCall.at = "idle"
  BY SandboxAssumption DEF SandboxAssumption, SandboxInv, NoCall, CallRow
<1>3. session' \in SessionRow(n) /\ session'.sandbox = session.sandbox /\ session'.cached = 0
  BY <1>1, <1>2 DEF SandboxInv, SessionRow
<1>4. /\ ran' \in [created : 0 .. MaxSandboxes, deaths : 0 .. MaxDeaths, scattered : BOOLEAN]
      /\ ran'.created = n /\ ran'.scattered = ran.scattered
  BY <1>1, SandboxAssumption DEF SandboxAssumption, SandboxInv
<1>5. ~ran.scattered => OneSandbox'
  BY <1>1, <1>2, <1>3 DEF SandboxInv, OneSandbox
<1> QED
  BY <1>1, <1>2, <1>3, <1>4, <1>5 DEF SandboxInv

-----------------------------------------------------------------------------
(* The call.                                                               *)

BatchRow == [at : {"idle", "running", "thrown", "replied", "lost"}, tasks : 0..(MaxTasks + 1),
             cursor : 0..MaxTasks, aborted : BOOLEAN]

GivenRow == [taken : 0..2, result : {"none"} \cup EndStates]

BatchTyped ==
  /\ batch \in BatchRow
  /\ rows \in [Task -> {"none", "queued", "running"} \cup EndStates]
  /\ on \in [Worker -> {0} \cup Task]
  /\ given \in [Task -> GivenRow]

\* Task t is at one worker, or it ended and its result is its row's.
Dealt(t) ==
  \/ rows[t] = "running" /\ \E w \in Worker : on[w] = t
  \/ rows[t] \in EndStates /\ given[t].result = rows[t] /\ \A w \in Worker : on[w] # t

\* The tasks before the cursor were taken once, the others not yet.
CursorInv ==
  /\ batch.at = "idle" => batch.cursor = 0
  /\ batch.at = "running" => batch.tasks <= MaxTasks
  /\ batch.at = "replied" => batch.tasks <= batch.cursor /\ batch.tasks <= MaxTasks
  /\ batch.at # "running" => \A w \in Worker : on[w] = 0
  /\ \A w, v \in Worker : on[w] = on[v] /\ on[w] # 0 => w = v
  /\ \A w \in Worker : on[w] <= batch.cursor
  /\ \A t \in Task : given[t].taken <= 1
  /\ \A t \in Task : t > batch.cursor => given[t].taken = 0 /\ rows[t] # "running"
  /\ batch.at \in {"running", "replied"} => \A t \in Task : t <= batch.cursor => Dealt(t)

BatchInv == SandboxInv /\ BatchTyped /\ CursorInv

LEMMA BatchTypes == BatchInv => BatchTypeOK
BY SandboxTyped DEF BatchInv, BatchTyped, BatchRow, GivenRow, BatchTypeOK

LEMMA TasksRight == BatchInv => EachTaskOnce
<1> SUFFICES ASSUME BatchInv PROVE EachTaskOnce
  OBVIOUS
<1>t. batch.cursor \in Nat /\ batch.tasks \in Nat /\ MaxTasks \in Nat
  BY TasksAssumption DEF TasksAssumption, BatchInv, BatchTyped, BatchRow
<1>1. \A t \in Task : given[t].taken <= 1
  BY DEF BatchInv, CursorInv
<1>2. ASSUME batch.at = "running", NEW t \in Task
      PROVE  (rows[t] = "running") = (\E w \in Worker : on[w] = t)
  <2>1. CASE t <= batch.cursor
    <3>1. Dealt(t) /\ "running" \notin EndStates
      BY <1>2, <2>1 DEF BatchInv, CursorInv, EndStates
    <3> QED
      BY <3>1 DEF Dealt
  <2>2. CASE ~ (t <= batch.cursor)
    <3>1. t > batch.cursor /\ t # 0 /\ rows[t] # "running"
      BY <1>t, <2>2 DEF BatchInv, CursorInv, Task
    <3>2. \A w \in Worker : on[w] # t
      BY <1>t, <3>1 DEF BatchInv, BatchTyped, CursorInv, Task
    <3> QED
      BY <3>1, <3>2
  <2> QED
    BY <2>1, <2>2
<1>3. ASSUME batch.at = "replied", NEW t \in 1 .. batch.tasks
      PROVE  rows[t] \in EndStates /\ given[t].result = rows[t]
  <2>1. t \in Task /\ t <= batch.cursor
    BY <1>t, <1>3 DEF BatchInv, CursorInv, Task
  <2> QED
    BY <1>3, <2>1 DEF BatchInv, CursorInv, Dealt
<1> QED
  BY <1>1, <1>2, <1>3 DEF EachTaskOnce

LEMMA BatchStarts == BatchInit => BatchInv
<1> SUFFICES ASSUME BatchInit PROVE BatchInv
  OBVIOUS
<1>1. MaxTasks \in Nat /\ 0 \in 0 .. MaxTasks /\ 0 \in 0 .. (MaxTasks + 1)
  BY TasksAssumption DEF TasksAssumption
<1>2. SandboxInv
  BY SandboxStarts DEF BatchInit
<1>3. BatchTyped
  BY <1>1 DEF BatchInit, BatchTyped, BatchRow, GivenRow
<1>4. CursorInv
  BY <1>1 DEF BatchInit, CursorInv, Task
<1> QED
  BY <1>2, <1>3, <1>4 DEF BatchInv

LEMMA DelegatesRight ==
  ASSUME BatchInv, NEW n \in 0..(MaxTasks + 1), NEW whole \in BOOLEAN, DelegateParallelTasks(n, whole)
  PROVE  BatchTyped' /\ CursorInv'
<1>1. /\ batch.at = "idle" /\ UNCHANGED <<on, given>> /\ batch.cursor = 0
      /\ batch' = [batch EXCEPT !.at = IF Accepted(n, whole) THEN "running" ELSE "thrown", !.tasks = n]
      /\ rows' = IF Accepted(n, whole) THEN InsertTasks(n) ELSE rows
      /\ MaxTasks \in Nat
  BY TasksAssumption DEF TasksAssumption, DelegateParallelTasks, BatchInv, CursorInv
<1>2. /\ batch' \in BatchRow /\ batch'.cursor = 0 /\ batch'.tasks = n
      /\ batch'.at = IF Accepted(n, whole) THEN "running" ELSE "thrown"
  BY <1>1 DEF BatchInv, BatchTyped, BatchRow, Accepted
<1>3. rows' \in [Task -> {"none", "queued", "running"} \cup EndStates]
  BY <1>1 DEF InsertTasks, BatchInv, BatchTyped
<1>4. \A t \in Task : t > 0 /\ rows'[t] # "running"
  BY <1>1 DEF InsertTasks, BatchInv, CursorInv, Task
<1>5. Accepted(n, whole) => n <= MaxTasks
  BY <1>1 DEF Accepted
<1> QED
  <2>1. BatchTyped'
    BY <1>1, <1>2, <1>3 DEF BatchInv, BatchTyped
  <2>2. \A w \in Worker : on'[w] = 0
    BY <1>1 DEF BatchInv, CursorInv
  <2>3. \A w, v \in Worker : on'[w] = on'[v] /\ on'[w] # 0 => w = v
    BY <2>2
  <2>4. \A t \in Task : given'[t].taken <= 1 /\ given'[t].taken = 0 /\ ~ (t <= 0)
    BY <1>1, <1>4 DEF BatchInv, CursorInv, Task
  <2>5. CursorInv'
    BY <1>1, <1>2, <1>4, <1>5, <2>2, <2>3, <2>4 DEF CursorInv
  <2> QED
    BY <2>1, <2>5

LEMMA TakesRight ==
  ASSUME BatchInv, NEW w \in Worker, TakesTask(w)
  PROVE  BatchTyped' /\ CursorInv'
<1> DEFINE t == batch.cursor + 1
<1>1. /\ batch.at = "running" /\ on[w] = 0 /\ batch.cursor < batch.tasks
      /\ on' = [on EXCEPT ![w] = t] /\ rows' = [rows EXCEPT ![t] = "running"]
      /\ given' = [given EXCEPT ![t].taken = IF @ < 2 THEN @ + 1 ELSE @]
      /\ batch' = [batch EXCEPT !.cursor = t]
  BY DEF TakesTask, UpdateTask, NextCursor
<1>2. /\ MaxTasks \in Nat /\ batch.cursor \in Nat /\ t \in Task /\ t \in 0 .. MaxTasks
      /\ batch \in BatchRow /\ t > batch.cursor /\ batch.tasks <= MaxTasks
  BY <1>1, TasksAssumption
     DEF TasksAssumption, BatchInv, BatchTyped, BatchRow, CursorInv, Task
<1> HIDE DEF t
<1>3. /\ batch' \in BatchRow /\ batch'.at = "running" /\ batch'.cursor = t
      /\ batch'.tasks = batch.tasks
  BY <1>1, <1>2 DEF BatchRow
<1>4. given[t].taken = 0 /\ given[t] \in GivenRow
  BY <1>2 DEF BatchInv, BatchTyped, CursorInv
<1>5. /\ given' \in [Task -> GivenRow] /\ given'[t].taken = 1
      /\ \A u \in Task \ {t} : given'[u] = given[u]
  BY <1>1, <1>2, <1>4 DEF BatchInv, BatchTyped, GivenRow
<1>6. /\ rows' \in [Task -> {"none", "queued", "running"} \cup EndStates]
      /\ \A u \in Task : rows'[u] = IF u = t THEN "running" ELSE rows[u]
  BY <1>1, <1>2 DEF BatchInv, BatchTyped
<1>7. /\ on' \in [Worker -> {0} \cup Task]
      /\ \A v \in Worker : on'[v] = IF v = w THEN t ELSE on[v]
  BY <1>1, <1>2 DEF BatchInv, BatchTyped
<1>8. \A v \in Worker : on[v] \in Nat /\ on[v] <= batch.cursor
  BY <1>2 DEF BatchInv, BatchTyped, CursorInv, Task
<1>9. \A v \in Worker : on[v] < t /\ on'[v] <= t
  BY <1>2, <1>7, <1>8 DEF Task
<1>10. \A u, v \in Worker : on'[u] = on'[v] /\ on'[u] # 0 => u = v
  BY <1>2, <1>7, <1>9 DEF BatchInv, CursorInv
<1>11. ASSUME NEW u \in Task, u <= t PROVE Dealt(u)'
  <2>1. CASE u = t
    BY <1>6, <1>7, <2>1 DEF Dealt
  <2>2. CASE u # t
    <3>1. u <= batch.cursor /\ Dealt(u) /\ given'[u] = given[u] /\ rows'[u] = rows[u]
      BY <1>1, <1>2, <1>5, <1>6, <1>11, <2>2 DEF BatchInv, CursorInv, Task, t
    <3>2. \A v \in Worker : on'[v] = u <=> on[v] = u
      BY <1>1, <1>2, <1>7, <2>2 DEF Task
    <3> QED
      BY <3>1, <3>2 DEF Dealt
  <2> QED
    BY <2>1, <2>2
<1>12. ASSUME NEW u \in Task, u > t PROVE given'[u].taken = 0 /\ rows'[u] # "running"
  <2>1. u # t /\ u > batch.cursor
    BY <1>2, <1>12 DEF Task
  <2> QED
    BY <1>5, <1>6, <2>1 DEF BatchInv, CursorInv
<1>13. \A u \in Task : given'[u].taken <= 1
  BY <1>5 DEF BatchInv, CursorInv
<1> QED
  BY <1>2, <1>3, <1>5, <1>6, <1>7, <1>9, <1>10, <1>11, <1>12, <1>13 DEF BatchTyped, CursorInv

LEMMA TaskEndsRight ==
  ASSUME BatchInv, NEW w \in Worker, TaskEnds(w)
  PROVE  BatchTyped' /\ CursorInv'
<1> DEFINE t == on[w]
<1>1. PICK outcome \in Outcomes :
        /\ rows' = [rows EXCEPT ![t] = outcome]
        /\ given' = [given EXCEPT ![t].result = outcome]
  BY DEF TaskEnds, UpdateTask
<1>2. /\ t # 0 /\ on' = [on EXCEPT ![w] = 0] /\ batch' = batch /\ outcome \in EndStates
      /\ outcome # "running"
  BY DEF TaskEnds, Outcomes, EndStates
<1>3. t \in Task /\ batch.at = "running" /\ batch.cursor \in Nat /\ t <= batch.cursor /\ given[t] \in GivenRow
  BY <1>2 DEF BatchInv, BatchTyped, BatchRow, CursorInv
<1>4. \A v \in Worker \ {w} : on[v] # t
  BY <1>2 DEF BatchInv, CursorInv
<1> HIDE DEF t
<1>5. /\ given' \in [Task -> GivenRow]
      /\ \A u \in Task : given'[u].taken = given[u].taken
      /\ \A u \in Task : given'[u].result = IF u = t THEN outcome ELSE given[u].result
  BY <1>1, <1>2, <1>3 DEF BatchInv, BatchTyped, GivenRow
<1>6. /\ rows' \in [Task -> {"none", "queued", "running"} \cup EndStates]
      /\ \A u \in Task : rows'[u] = IF u = t THEN outcome ELSE rows[u]
  BY <1>1, <1>2, <1>3 DEF BatchInv, BatchTyped
<1>7. /\ on' \in [Worker -> {0} \cup Task]
      /\ \A v \in Worker : on'[v] = IF v = w THEN 0 ELSE on[v]
  BY <1>2 DEF BatchInv, BatchTyped
<1>8. ASSUME NEW u \in Task, u <= batch.cursor PROVE Dealt(u)'
  <2>1. CASE u = t
    <3>1. \A v \in Worker : on'[v] # u
      BY <1>2, <1>4, <1>7, <2>1
    <3> QED
      BY <1>2, <1>5, <1>6, <2>1, <3>1 DEF Dealt
  <2>2. CASE u # t
    <3>1. Dealt(u) /\ given'[u].result = given[u].result /\ rows'[u] = rows[u]
      BY <1>3, <1>5, <1>6, <1>8, <2>2 DEF BatchInv, CursorInv
    <3>2. \A v \in Worker : on'[v] = u <=> on[v] = u
      BY <1>7, <2>2, <1>2, <1>8 DEF t, Task
    <3> QED
      BY <3>1, <3>2 DEF Dealt
  <2> QED
    BY <2>1, <2>2
<1>9. \A v \in Worker : on'[v] <= batch.cursor
  BY <1>3, <1>7 DEF BatchInv, CursorInv
<1>10. \A u, v \in Worker : on'[u] = on'[v] /\ on'[u] # 0 => u = v
  BY <1>7 DEF BatchInv, CursorInv
<1>11. \A u \in Task : u > batch.cursor => given'[u].taken = 0 /\ rows'[u] # "running"
  BY <1>2, <1>5, <1>6 DEF BatchInv, CursorInv
<1>12. \A u \in Task : given'[u].taken <= 1
  BY <1>5 DEF BatchInv, CursorInv
<1>13. batch.tasks <= MaxTasks /\ batch \in BatchRow
  BY <1>3 DEF BatchInv, BatchTyped, CursorInv
<1> QED
  BY <1>2, <1>3, <1>5, <1>6, <1>7, <1>8, <1>9, <1>10, <1>11, <1>12, <1>13
     DEF BatchTyped, CursorInv

LEMMA ReplyRight ==
  ASSUME BatchInv, BatchReplies \/ Aborts
  PROVE  BatchTyped' /\ CursorInv'
<1>1. /\ batch \in BatchRow /\ batch.at = "running" /\ batch.tasks <= MaxTasks
      /\ UNCHANGED <<rows, on, given>> /\ batch.tasks \in Nat /\ batch.cursor \in Nat
  BY DEF BatchReplies, Aborts, BatchInv, BatchTyped, BatchRow, CursorInv
<1>2. /\ batch' \in BatchRow /\ batch'.tasks = batch.tasks /\ batch'.cursor = batch.cursor
      /\ \/ batch'.at = "running"
         \/ /\ batch'.at = "replied" /\ batch.tasks <= batch.cursor
            /\ \A w \in Worker : on[w] = 0
  <2>1. CASE BatchReplies
    BY <1>1, <2>1 DEF BatchReplies, BatchRow
  <2>2. CASE Aborts
    BY <1>1, <2>2 DEF Aborts, BatchRow
  <2> QED
    BY <2>1, <2>2
<1>3. BatchTyped'
  BY <1>1, <1>2 DEF BatchInv, BatchTyped
<1>4. \A t \in Task : Dealt(t)' = Dealt(t)
  BY <1>1 DEF Dealt
<1>5. CursorInv'
  BY <1>1, <1>2, <1>4 DEF BatchInv, CursorInv
<1> QED
  BY <1>3, <1>5

LEMMA LostRight ==
  ASSUME BatchInv, BatchLost
  PROVE  BatchTyped' /\ CursorInv'
<1>1. /\ batch' = [batch EXCEPT !.at = IF @ = "running" THEN "lost" ELSE @]
      /\ on' = [w \in Worker |-> 0] /\ UNCHANGED <<rows, given>>
      /\ batch \in BatchRow
  BY DEF BatchLost, BatchInv, BatchTyped
<1>2. /\ batch' \in BatchRow /\ batch'.tasks = batch.tasks /\ batch'.cursor = batch.cursor
      /\ batch'.at = IF batch.at = "running" THEN "lost" ELSE batch.at
  BY <1>1 DEF BatchRow
<1>3. /\ on' \in [Worker -> {0} \cup Task] /\ \A w \in Worker : on'[w] = 0
      /\ batch.cursor \in Nat
  BY <1>1 DEF BatchRow
<1>4. BatchTyped'
  BY <1>1, <1>2, <1>3 DEF BatchInv, BatchTyped
<1>5. ASSUME batch.at = "replied", NEW t \in Task, t <= batch.cursor PROVE Dealt(t)'
  <2>1. Dealt(t) /\ \A w \in Worker : on[w] = 0
    BY <1>5 DEF BatchInv, CursorInv
  <2>2. t # 0
    BY DEF Task
  <2> QED
    BY <1>1, <1>3, <2>1, <2>2 DEF Dealt
<1>6. CursorInv'
  BY <1>1, <1>2, <1>3, <1>5 DEF BatchInv, CursorInv
<1> QED
  BY <1>4, <1>6

LEMMA BatchStep == BatchInv /\ [BatchNext]_<<batchVars, sandboxVars>> => BatchInv'
<1> SUFFICES ASSUME BatchInv, [BatchNext]_<<batchVars, sandboxVars>> PROVE BatchInv'
  OBVIOUS
<1>0. SandboxInv /\ BatchTyped /\ CursorInv
  BY DEF BatchInv
<1>1. UNCHANGED batchVars => BatchTyped' /\ CursorInv'
  BY <1>0 DEF batchVars, BatchTyped, CursorInv, Dealt
<1>2. UNCHANGED sandboxVars => SandboxInv'
  BY <1>0 DEF sandboxVars, SandboxInv, OneSandbox
<1>3. ASSUME NEW w \in Worker, CallsTool(w) PROVE BatchInv'
  BY <1>0, <1>1, <1>3, EnsureRight DEF CallsTool, BatchInv
<1>4. ASSUME NEW w \in Worker, CallProceeds(w), UNCHANGED batchVars PROVE BatchInv'
  BY <1>0, <1>1, <1>4, BatchProceedsRight DEF BatchInv
<1>5. ASSUME NEW s \in Sandboxes, SandboxExpires(s), UNCHANGED batchVars PROVE BatchInv'
  BY <1>0, <1>1, <1>5, ExpiresRight DEF BatchInv
<1>6. ASSUME NEW n \in 0..(MaxTasks + 1), NEW whole \in BOOLEAN, DelegateParallelTasks(n, whole)
      PROVE  BatchInv'
  BY <1>2, <1>6, DelegatesRight DEF DelegateParallelTasks, BatchInv
<1>7. ASSUME NEW w \in Worker, TakesTask(w) PROVE BatchInv'
  BY <1>2, <1>7, TakesRight DEF TakesTask, BatchInv
<1>8. ASSUME NEW w \in Worker, TaskEnds(w) PROVE BatchInv'
  BY <1>2, <1>8, TaskEndsRight DEF TaskEnds, BatchInv
<1>9. ASSUME BatchReplies \/ Aborts PROVE BatchInv'
  BY <1>2, <1>9, ReplyRight DEF BatchReplies, Aborts, BatchInv
<1>10. ASSUME BatchLost PROVE BatchInv'
  BY <1>0, <1>10, LostRight, ForgottenRight DEF BatchLost, BatchInv
<1>11. CASE UNCHANGED <<batchVars, sandboxVars>>
  BY <1>1, <1>2, <1>11 DEF BatchInv
<1> QED
  BY <1>3, <1>4, <1>5, <1>6, <1>7, <1>8, <1>9, <1>10, <1>11
     DEF BatchNext, ToolSteps, BatchSteps, SandboxEnds

-----------------------------------------------------------------------------
\* Every variable keeps its type, the tasks before the cursor were taken once
\* and are at one worker or have their result in their row, and at most the
\* sandbox of the row lives.
THEOREM BatchCorrect == BatchSpec => []BatchInv
BY BatchStarts, BatchStep, PTL DEF BatchSpec

\* The variables keep their types.
THEOREM BatchTypesKept == BatchSpec => []BatchTypeOK
BY BatchCorrect, BatchTypes, PTL

\* Each task is run once, and the reply has its result (runChildTask).
THEOREM TasksOnce == BatchSpec => []EachTaskOnce
BY BatchCorrect, TasksRight, PTL

\* What a tool wrote the next one finds (ensureSandboxSession).
THEOREM FilesKept == BatchSpec => []FilesStay
<1>1. BatchInv => FilesStay
  BY FilesFound DEF BatchInv
<1> QED
  BY <1>1, BatchCorrect, PTL

-----------------------------------------------------------------------------
(* Capabilities and connections.                                           *)

ConnectionRow == [version : {0} \cup Version,
                  state : {"none", "connecting", "open", "stale", "closed"}]

TurnRow == [at : TurnStates, version : {0} \cup Version,
            connection : {0} \cup Connection, calls : 0..MaxToolRuns,
            run : {"none", "running", "success", "error", "blocked"}]

Joined(t) == turns[t].at \in {"connecting", "calling"}

(* A turn that has begun has a version; one that waits for a connection or *)
(* calls over it has one that was opened, from the version it looked up.   *)
TurnInv(t) ==
  /\ turns[t].at # "idle" => turns[t].version \in Version
  /\ Joined(t) =>
       /\ turns[t].connection \in Opened
       /\ ~hashed => connections[turns[t].connection].version = turns[t].version

\* A connection is listed under the version it was made from.
ListedInv ==
  \A v \in Version : listed[v] # 0 =>
    /\ listed[v] \in Opened
    /\ ~hashed => connections[listed[v]].version = v

CapabilityInv == CapabilityTypeOK /\ ListedInv /\ \A t \in Turn : TurnInv(t)

-----------------------------------------------------------------------------
(* Most steps change the states of connections and take some off the list. *)

Kept ==
  /\ connections' \in [Connection -> ConnectionRow]
  /\ \A c \in Connection : /\ connections'[c].version = connections[c].version
                           /\ connections[c].state # "none" => connections'[c].state # "none"

Delisted ==
  /\ listed' \in [Version -> {0} \cup Connection]
  /\ \A v \in Version : listed'[v] \in {0, listed[v]}

LEMMA ClosingKeeps ==
  ASSUME CapabilityInv, NEW ks \in SUBSET Version, CloseMcpConnections(ks)
  PROVE  Kept /\ Delisted
<1>1. connections \in [Connection -> ConnectionRow] /\ listed \in [Version -> {0} \cup Connection]
  BY DEF CapabilityInv, CapabilityTypeOK, ConnectionRow
<1>2. Delisted
  BY <1>1 DEF CloseMcpConnections, Delisted
<1>3. \A c \in Connection :
        /\ connections'[c] \in {connections[c], [connections[c] EXCEPT !.state = "closed"]}
        /\ connections'[c] # connections[c] => \E k \in ks : listed[k] = c
  BY <1>1 DEF CloseMcpConnections
<1>4. \A c \in Connection : /\ connections'[c] \in ConnectionRow
                            /\ connections'[c].version = connections[c].version
                            /\ connections[c].state # "none" => connections'[c].state # "none"
  BY <1>1, <1>3 DEF ConnectionRow
<1>5. connections' \in [Connection -> ConnectionRow]
  <2>1. connections' = [c \in Connection |-> connections'[c]]
    BY DEF CloseMcpConnections
  <2> QED
    BY <2>1, <1>4
<1> QED
  BY <1>2, <1>4, <1>5 DEF Kept

LEMMA UnchangedKeeps ==
  ASSUME CapabilityInv, UNCHANGED <<connections, listed>>
  PROVE  Kept /\ Delisted
BY DEF CapabilityInv, CapabilityTypeOK, ConnectionRow, Kept, Delisted

\* What is left to show of a step of turn t that makes no connection.
LEMMA TurnMoves ==
  ASSUME CapabilityInv, Kept, Delisted, NEW t \in Turn, NEW row \in TurnRow,
         turns' = [turns EXCEPT ![t] = row],
         manifest' \in Version, hashed' = hashed,
         row.at # "idle" => row.version \in Version,
         row.at \in {"connecting", "calling"} =>
           /\ row.connection \in Opened
           /\ ~hashed => connections[row.connection].version = row.version
  PROVE  CapabilityInv'
<1> USE DEF CapabilityInv, CapabilityTypeOK, TurnRow, ConnectionRow
<1>1. CapabilityTypeOK'
  BY DEF Kept, Delisted
<1>2. Opened \subseteq Opened'
  BY DEF Opened, Kept
<1>3. ListedInv'
  BY <1>2 DEF ListedInv, Kept, Delisted, Opened
<1>4. ASSUME NEW u \in Turn PROVE TurnInv(u)'
  <2>1. CASE u = t
    <3>1. turns'[u] = row
      BY <2>1
    <3> QED
      BY <3>1, <1>2 DEF TurnInv, Joined, Kept, Opened
  <2>2. CASE u # t
    <3>1. turns'[u] = turns[u] /\ TurnInv(u)
      BY <2>2
    <3> QED
      BY <3>1, <1>2 DEF TurnInv, Joined, Kept, Opened
  <2> QED
    BY <2>1, <2>2
<1> QED
  BY <1>1, <1>3, <1>4

-----------------------------------------------------------------------------
LEMMA KeysAreVersions ==
  ASSUME CapabilityInv, NEW t \in Turn, turns[t].at # "idle"
  PROVE  KeyOf(t) \in Version /\ (~hashed => KeyOf(t) = turns[t].version)
BY CapabilityAssumption DEF CapabilityAssumption, CapabilityInv, TurnInv, KeyOf, CacheKey, Version

LEMMA Gets ==
  ASSUME CapabilityInv, NEW t \in Turn, turns[t].at # "idle", NEW then \in {"ready", "calling"},
         GetMcpConnection(t, then), UNCHANGED <<manifest, hashed>>
  PROVE  CapabilityInv'
<1> DEFINE c == listed[KeyOf(t)]
<1>k. KeyOf(t) \in Version /\ (~hashed => KeyOf(t) = turns[t].version)
  BY KeysAreVersions
<1>t. turns \in [Turn -> TurnRow] /\ turns[t] \in TurnRow /\ manifest' \in Version
      /\ turns[t].version \in Version /\ listed \in [Version -> {0} \cup Connection]
  BY DEF CapabilityInv, CapabilityTypeOK, TurnRow, TurnInv
<1>1. CASE Reusable(c)
  <2> DEFINE row == [turns[t] EXCEPT !.at = then, !.connection = c]
  <2>1. turns' = [turns EXCEPT ![t] = row] /\ UNCHANGED <<connections, listed>>
    BY <1>1, <1>t DEF GetMcpConnection
  <2>2. c \in Opened /\ c \in Connection /\ (~hashed => connections[c].version = turns[t].version)
    BY <1>1, <1>k DEF Reusable, CapabilityInv, ListedInv, Opened
  <2>3. row \in TurnRow /\ row.version = turns[t].version /\ row.connection = c
    BY <1>t, <2>2 DEF TurnRow, TurnStates
  <2> HIDE DEF row, c
  <2> QED
    BY <2>1, <2>2, <2>3, <1>t, UnchangedKeeps, TurnMoves
<1>2. CASE ~Reusable(c)
  <2> DEFINE row == [turns[t] EXCEPT !.at = IF c = 0 THEN "opening" ELSE "replacing",
                                     !.connection = 0]
             ks  == IF c = 0 THEN Version \ {KeyOf(t)} ELSE {KeyOf(t)}
  <2>1. turns' = [turns EXCEPT ![t] = row] /\ CloseMcpConnections(ks)
    BY <1>2, <1>t DEF GetMcpConnection
  <2>2. row \in TurnRow /\ row.version = turns[t].version /\ row.at \in {"opening", "replacing"}
    BY <1>t DEF TurnRow, TurnStates
  <2>3. Kept /\ Delisted
    BY <2>1, <1>k, ClosingKeeps
  <2> HIDE DEF row, ks, c
  <2> QED
    BY <2>1, <2>2, <2>3, <1>t, TurnMoves
<1> QED
  BY <1>1, <1>2

\* A turn that fails has no connection any more.
LEMMA FailureKeeps ==
  ASSUME CapabilityInv, NEW t \in Turn, turns[t].at # "idle", turns' = Fails(t),
         Kept, Delisted, UNCHANGED <<manifest, hashed>>
  PROVE  CapabilityInv'
<1> DEFINE row == [turns[t] EXCEPT !.connection = 0,
                     !.run = IF @ = "running" THEN "error" ELSE @,
                     !.at = IF turns[t].run = "running" THEN "ready" ELSE "skipped"]
<1>t. turns \in [Turn -> TurnRow] /\ turns[t] \in TurnRow /\ manifest' \in Version
      /\ turns[t].version \in Version
  BY DEF CapabilityInv, CapabilityTypeOK, TurnRow, TurnInv
<1>1. turns' = [turns EXCEPT ![t] = row]
  BY <1>t DEF Fails, TurnRow
<1>2. row \in TurnRow /\ row.version = turns[t].version /\ row.at \in {"ready", "skipped"}
  BY <1>t DEF TurnRow, TurnStates
<1> HIDE DEF row
<1> QED
  BY <1>1, <1>2, <1>t, TurnMoves

\* The one step that makes a connection.
LEMMA OpensKeeps ==
  ASSUME CapabilityInv, NEW t \in Turn, Opens(t)
  PROVE  CapabilityInv'
<1>t. /\ turns \in [Turn -> TurnRow] /\ turns[t] \in TurnRow /\ turns[t].version \in Version
      /\ connections \in [Connection -> ConnectionRow]
      /\ listed \in [Version -> {0} \cup Connection]
  BY DEF CapabilityInv, CapabilityTypeOK, TurnRow, ConnectionRow, TurnInv, Opens
<1>k. KeyOf(t) \in Version /\ (~hashed => KeyOf(t) = turns[t].version)
  BY KeysAreVersions DEF Opens
<1>1. PICK c \in Connection \ Opened :
        /\ connections' = [connections EXCEPT ![c] = [version |-> turns[t].version, state |-> "connecting"]]
        /\ listed' = [listed EXCEPT ![KeyOf(t)] = c]
        /\ turns' = [turns EXCEPT ![t].at = "connecting", ![t].connection = c]
  BY DEF Opens
<1>2. UNCHANGED <<manifest, hashed>>
  BY DEF Opens
<1>3. CapabilityTypeOK'
  BY <1>t, <1>k, <1>1, <1>2 DEF CapabilityInv, CapabilityTypeOK, TurnRow, TurnStates, ConnectionRow
<1>4. /\ Opened' = Opened \cup {c}
      /\ \A d \in Opened : connections'[d] = connections[d]
      /\ connections'[c].version = turns[t].version
  BY <1>t, <1>1 DEF Opened
<1>5. ListedInv'
  <2> SUFFICES ASSUME NEW v \in Version, listed'[v] # 0
               PROVE  /\ listed'[v] \in Opened'
                      /\ ~hashed' => connections'[listed'[v]].version = v
    BY DEF ListedInv
  <2>1. CASE v = KeyOf(t)
    BY <2>1, <1>t, <1>k, <1>1, <1>2, <1>4
  <2>2. CASE v # KeyOf(t)
    BY <2>2, <1>t, <1>k, <1>1, <1>2, <1>4 DEF CapabilityInv, ListedInv
  <2> QED
    BY <2>1, <2>2
<1>6. ASSUME NEW u \in Turn PROVE TurnInv(u)'
  <2>1. CASE u = t
    <3>1. turns'[u].version = turns[t].version /\ turns'[u].connection = c
      BY <2>1, <1>t, <1>1 DEF TurnRow
    <3> QED
      BY <3>1, <1>t, <1>4 DEF TurnInv
  <2>2. CASE u # t
    <3>1. turns'[u] = turns[u] /\ TurnInv(u)
      BY <2>2, <1>t, <1>1 DEF CapabilityInv
    <3> QED
      BY <3>1, <1>2, <1>4 DEF TurnInv, Joined
  <2> QED
    BY <2>1, <2>2
<1> QED
  BY <1>3, <1>5, <1>6 DEF CapabilityInv

-----------------------------------------------------------------------------
LEMMA CapabilityInitInv == CapabilityInit => CapabilityInv
BY CapabilityAssumption
   DEF CapabilityAssumption, CapabilityInit, CapabilityInv, CapabilityTypeOK, ListedInv, TurnInv,
       Joined, NewTurn, Unopened, Version, Connection, TurnStates

LEMMA CapabilityStep ==
  ASSUME CapabilityInv, [CapabilityNext]_capabilityVars
  PROVE  CapabilityInv'
<1>t. turns \in [Turn -> TurnRow] /\ connections \in [Connection -> ConnectionRow]
  BY DEF CapabilityInv, CapabilityTypeOK, TurnRow, ConnectionRow
<1>i. \A t \in Turn : turns[t].at # "idle" => turns[t].version \in Version
  BY DEF CapabilityInv, TurnInv
<1>m. manifest \in Version
  BY DEF CapabilityInv, CapabilityTypeOK
<1>1. ASSUME NEW t \in Turn, ResolveMcpProp(t) PROVE CapabilityInv'
  <2> DEFINE row == [turns[t] EXCEPT !.at = "resolving", !.version = manifest]
  <2>1. turns' = [turns EXCEPT ![t] = row] /\ UNCHANGED <<manifest, hashed, connections, listed>>
    BY <1>1, <1>t DEF ResolveMcpProp
  <2>2. row \in TurnRow /\ row.version \in Version /\ row.at = "resolving"
    BY <1>t, <1>m DEF TurnRow, TurnStates
  <2> HIDE DEF row
  <2> QED
    BY <2>1, <2>2, <1>m, UnchangedKeeps, TurnMoves
<1>2. ASSUME NEW t \in Turn, LooksUp(t) PROVE CapabilityInv'
  BY <1>2, Gets DEF LooksUp
<1>3. ASSUME NEW t \in Turn, StartsRun(t) PROVE CapabilityInv'
  <2>1. PICK allowed \in BOOLEAN :
          turns' = [turns EXCEPT ![t].calls = @ + 1, ![t].connection = 0,
                                 ![t].run = IF allowed THEN "running" ELSE "blocked",
                                 ![t].at = IF allowed THEN "starting" ELSE "ready"]
    BY <1>3 DEF StartsRun
  <2> DEFINE row == [turns[t] EXCEPT !.calls = @ + 1, !.connection = 0,
                       !.run = IF allowed THEN "running" ELSE "blocked",
                       !.at = IF allowed THEN "starting" ELSE "ready"]
  <2>2. turns' = [turns EXCEPT ![t] = row] /\ UNCHANGED <<manifest, hashed, connections, listed>>
    BY <1>3, <2>1, <1>t DEF StartsRun, TurnRow
  <2>3. turns[t].calls + 1 \in 0..MaxToolRuns
    BY <1>3, <1>t, CapabilityAssumption DEF CapabilityAssumption, StartsRun, TurnRow
  <2>4. row \in TurnRow /\ row.version = turns[t].version /\ row.at \in {"starting", "ready"}
    BY <1>t, <2>3 DEF TurnRow, TurnStates
  <2>5. turns[t].version \in Version
    BY <1>3, <1>i DEF StartsRun
  <2> HIDE DEF row
  <2> QED
    BY <2>2, <2>4, <2>5, <1>m, UnchangedKeeps, TurnMoves
<1>4. ASSUME NEW t \in Turn, Executes(t) PROVE CapabilityInv'
  BY <1>4, Gets DEF Executes
<1>5. ASSUME NEW t \in Turn, Replaces(t) PROVE CapabilityInv'
  <2> DEFINE row == [turns[t] EXCEPT !.at = "opening"]
  <2>1. /\ turns' = [turns EXCEPT ![t] = row] /\ UNCHANGED <<manifest, hashed>>
        /\ CloseMcpConnections(Version \ {KeyOf(t)})
    BY <1>5, <1>t DEF Replaces
  <2>2. row \in TurnRow /\ row.version = turns[t].version /\ row.at = "opening"
    BY <1>t DEF TurnRow, TurnStates
  <2>3. Kept /\ Delisted /\ turns[t].version \in Version
    BY <2>1, <1>5, <1>i, ClosingKeeps DEF Replaces
  <2> HIDE DEF row
  <2> QED
    BY <2>1, <2>2, <2>3, <1>m, TurnMoves
<1>6. ASSUME NEW t \in Turn, Opens(t) PROVE CapabilityInv'
  BY <1>6, OpensKeeps
<1>7. ASSUME NEW t \in Turn, Connects(t) PROVE CapabilityInv'
  <2> DEFINE row == [turns[t] EXCEPT !.at = Then(t)]
  <2>1. turns' = [turns EXCEPT ![t] = row] /\ UNCHANGED <<manifest, hashed, listed>>
    BY <1>7, <1>t DEF Connects
  <2>2. /\ turns[t].connection \in Opened /\ turns[t].connection \in Connection
        /\ ~hashed => connections[turns[t].connection].version = turns[t].version
    BY <1>7 DEF Connects, CapabilityInv, TurnInv, Joined, Opened
  <2>3. Kept
    BY <1>7, <1>t, <2>2 DEF Connects, Kept, ConnectionRow
  <2>4. Delisted
    BY <2>1 DEF Delisted, CapabilityInv, CapabilityTypeOK
  <2>5. /\ row \in TurnRow /\ row.version = turns[t].version
        /\ row.connection = turns[t].connection /\ turns[t].version \in Version
    BY <1>7, <1>t, <1>i DEF TurnRow, TurnStates, Then, Connects
  <2> HIDE DEF row
  <2> QED
    BY <2>1, <2>2, <2>3, <2>4, <2>5, <1>m, TurnMoves
<1>8. ASSUME NEW t \in Turn, ConnectThrows(t) PROVE CapabilityInv'
  <2>1. turns[t].at # "idle" /\ KeyOf(t) \in Version
    BY <1>8, KeysAreVersions DEF ConnectThrows
  <2>2. Kept /\ Delisted
    BY <1>8, <2>1, ClosingKeeps DEF ConnectThrows
  <2> QED
    BY <1>8, <2>1, <2>2, FailureKeeps DEF ConnectThrows
<1>9. ASSUME NEW t \in Turn, CallReturns(t) PROVE CapabilityInv'
  <2> DEFINE row == [turns[t] EXCEPT !.at = "ready", !.run = "success"]
  <2>1. turns' = [turns EXCEPT ![t] = row] /\ UNCHANGED <<manifest, hashed, connections, listed>>
    BY <1>9, <1>t DEF CallReturns
  <2>2. /\ row \in TurnRow /\ row.version = turns[t].version /\ row.at = "ready"
        /\ turns[t].version \in Version
    BY <1>9, <1>t, <1>i DEF TurnRow, TurnStates, CallReturns
  <2> HIDE DEF row
  <2> QED
    BY <2>1, <2>2, <1>m, UnchangedKeeps, TurnMoves
<1>10. ASSUME NEW t \in Turn, CallThrows(t) PROVE CapabilityInv'
  BY <1>10, UnchangedKeeps, FailureKeeps DEF CallThrows
<1>11. ASSUME Kept, UNCHANGED <<manifest, hashed, listed, turns>> PROVE CapabilityInv'
  <2>1. CapabilityTypeOK'
    BY <1>11 DEF Kept, CapabilityInv, CapabilityTypeOK, ConnectionRow
  <2>2. Opened \subseteq Opened'
    BY <1>11 DEF Opened, Kept
  <2>3. ListedInv'
    BY <1>11, <2>2 DEF CapabilityInv, ListedInv, Kept, Opened
  <2>4. \A t \in Turn : TurnInv(t)'
    BY <1>11, <2>2 DEF CapabilityInv, TurnInv, Joined, Kept, Opened
  <2> QED
    BY <2>1, <2>3, <2>4 DEF CapabilityInv
<1>12. ASSUME NEW c \in Connection, ConnectionDrops(c) \/ TimePasses(c) PROVE CapabilityInv'
  <2>1. Kept
    BY <1>12, <1>t DEF ConnectionDrops, TimePasses, Kept, ConnectionRow
  <2> QED
    BY <1>12, <2>1, <1>11 DEF ConnectionDrops, TimePasses
<1>13. CASE ManifestEdited
  <2>1. manifest' \in Version
    BY <1>13, <1>m, CapabilityAssumption DEF CapabilityAssumption, ManifestEdited, Version
  <2> QED
    BY <1>13, <2>1 DEF ManifestEdited, CapabilityInv, CapabilityTypeOK, ListedInv, TurnInv, Joined, Opened
<1>14. CASE UNCHANGED capabilityVars
  BY <1>14, <1>11, UnchangedKeeps DEF capabilityVars
<1> QED
  BY <1>1, <1>2, <1>3, <1>4, <1>5, <1>6, <1>7, <1>8, <1>9, <1>10, <1>12, <1>13, <1>14
     DEF CapabilityNext

\* Every variable keeps its type, a connection is listed under the version it
\* was made from, and whoever waits for one has it from its own version.
THEOREM ConnectionsCorrect == CapabilitySpec => []CapabilityInv
BY CapabilityInitInv, CapabilityStep, PTL DEF CapabilitySpec

\* A tool is called on a server of the manifest it was looked up in, unless the
\* row of the capability has a hash that edits leave alone (getMcpConnection).
THEOREM CalledRight == CapabilitySpec => []CalledAsLookedUp
<1>1. CapabilityInv => CalledAsLookedUp
  BY DEF CapabilityInv, TurnInv, Joined, CalledAsLookedUp
<1> QED
  BY <1>1, ConnectionsCorrect, PTL

-----------------------------------------------------------------------------
(* The parts side by side.                                                 *)

PartsInv == TypeOK /\ ToolsInv /\ RunInv /\ BatchInv /\ CapabilityInv

LEMMA PartsStart == MCInit => PartsInv
BY InitTyped, ToolsInitRight, RunInitRight, BatchStarts, CapabilityInitInv DEF MCInit, PartsInv

\* Each part keeps its own invariant, and that of a part that stands still.
LEMMA PartsStep == PartsInv /\ [MCNext]_serviceVars => PartsInv'
<1> SUFFICES ASSUME PartsInv, [MCNext]_serviceVars PROVE PartsInv'
  OBVIOUS
<1>1. MCNext \/ UNCHANGED serviceVars
  OBVIOUS
<1>2. [Next]_vars
  BY <1>1 DEF MCNext, serviceVars
<1>3. [MemoryToolsNext]_toolVars
  BY <1>1 DEF MCNext, serviceVars
<1>4. [RunNext]_runVars
  BY <1>1 DEF MCNext, serviceVars
<1>5. [CapabilityNext]_capabilityVars
  BY <1>1 DEF MCNext, serviceVars
<1>6. Subagents \/ SandboxAlone => BatchNext
  BY DEF Subagents, SandboxAlone, BatchNext, BatchSteps
<1>7. [BatchNext]_<<batchVars, sandboxVars>>
  BY <1>1, <1>6 DEF MCNext, serviceVars
<1>8. TypeOK' /\ ToolsInv' /\ RunInv'
  BY <1>2, <1>3, <1>4, TypeInvariant, ToolsInvKept, RunInvKept DEF PartsInv
<1>9. BatchInv' /\ CapabilityInv'
  BY <1>5, <1>7, BatchStep, CapabilityStep DEF PartsInv
<1> QED
  BY <1>8, <1>9 DEF PartsInv

\* The jobs, what the memory recalls, the runs of the agent, its subagents and
\* its capabilities keep their types beside each other.
THEOREM ServicesTypes == MCSpec => []MCTypeOK
<1>1. PartsInv => MCTypeOK
  BY BatchTypes DEF PartsInv, ToolsInv, RunInv, RunRow, RunTypeOK, CapabilityInv, MCTypeOK
<1> QED
  BY <1>1, PartsStart, PartsStep, PTL DEF MCSpec
=============================================================================
