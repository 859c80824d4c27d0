---------------------------- MODULE Capabilities ----------------------------
(***************************************************************************)
(* The tools of one capability that is an MCP server (lib/capabilities.js):*)
(* turns look its tools up when they begin and call them later, over a     *)
(* connection that mcpConnections keeps under a key, while an administrator*)
(* changes the manifest, connections drop and their time to live passes.   *)
(***************************************************************************)
EXTENDS Naturals

CONSTANTS
  Turn,            \* turns of any users that may use the capability
  MaxVersions,     \* bound: versions of its manifest, and
  MaxConnections,  \* of connections ever opened
  MaxToolRuns      \* bound: calls of its tools in a turn

ASSUME CapabilityAssumption ==
  /\ MaxVersions \in Nat \ {0} /\ MaxConnections \in Nat /\ MaxToolRuns \in Nat

VARIABLES
  manifest,     \* the version in the database, and
  hashed,       \* whether its row has the hash of the first one, as saveProp's have
  connections,  \* every connection: the version it was made from, its state
  listed,       \* mcpConnections: the connection of each key, 0 for none
  turns         \* the turns: see NewTurn

capabilityVars == <<manifest, hashed, connections, listed, turns>>

Version == 1..MaxVersions
Connection == 1..MaxConnections

NewTurn == [at |-> "idle", version |-> 0, connection |-> 0, run |-> "none", calls |-> 0]

Unopened == [version |-> 0, state |-> "none"]

Opened == {c \in Connection : connections[c].state # "none"}

-----------------------------------------------------------------------------
(* getMcpConnection and closeMcpConnection.                                *)

\* "stale" is connected past discoveryTtlMs.
Reusable(c) == c # 0 /\ connections[c].state = "open"

CloseMcpConnections(ks) ==
  /\ listed' = [k \in Version |-> IF k \in ks THEN 0 ELSE listed[k]]
  /\ connections' = [c \in Connection |-> IF \E k \in ks : listed[k] = c
                                           THEN [connections[c] EXCEPT !.state = "closed"]
                                           ELSE connections[c]]

KeyOfCapability(v) == 1

\* content_hash, which an edit leaves as it was, or updated_at for the seeded
\* rows that have no hash.
CacheKey(v) == IF hashed THEN 1 ELSE v

KeyOf(t) == CacheKey(turns[t].version)

\* A connection of the same key is closed first, then those of the others.
GetMcpConnection(t, then) ==
  LET c == listed[KeyOf(t)]
  IN  IF Reusable(c)
      THEN /\ turns' = [turns EXCEPT ![t].at = then, ![t].connection = c]
           /\ UNCHANGED <<connections, listed>>
      ELSE /\ turns' = [turns EXCEPT ![t].at = IF c = 0 THEN "opening" ELSE "replacing",
                                     ![t].connection = 0]
           /\ CloseMcpConnections(IF c = 0 THEN Version \ {KeyOf(t)} ELSE {KeyOf(t)})

Replaces(t) ==
  /\ turns[t].at = "replacing"
  /\ CloseMcpConnections(Version \ {KeyOf(t)})
  /\ turns' = [turns EXCEPT ![t].at = "opening"]
  /\ UNCHANGED <<manifest, hashed>>

Opens(t) ==
  /\ turns[t].at = "opening"
  /\ \E c \in Connection \ Opened :
       /\ \A d \in Connection \ Opened : c <= d
       /\ connections' = [connections EXCEPT ![c] = [version |-> turns[t].version, state |-> "connecting"]]
       /\ listed' = [listed EXCEPT ![KeyOf(t)] = c]
       /\ turns' = [turns EXCEPT ![t].at = "connecting", ![t].connection = c]
  /\ UNCHANGED <<manifest, hashed>>

\* Whoever waits for a connection has a run under way or looks tools up.
Then(t) == IF turns[t].run = "running" THEN "calling" ELSE "ready"

Connects(t) ==
  /\ turns[t].at = "connecting" /\ connections[turns[t].connection].state = "connecting"
  /\ connections' = [connections EXCEPT ![turns[t].connection].state = "open"]
  /\ turns' = [turns EXCEPT ![t].at = Then(t)]
  /\ UNCHANGED <<manifest, hashed, listed>>

\* A run that fails is recorded; tools that cannot be looked up are skipped.
Fails(t) == [turns EXCEPT ![t].connection = 0,
                          ![t].run = IF @ = "running" THEN "error" ELSE @,
                          ![t].at = IF turns[t].run = "running" THEN "ready" ELSE "skipped"]

\* It closes the connection that is listed by then, another turn's perhaps.
ConnectThrows(t) ==
  /\ turns[t].at = "connecting"
  /\ CloseMcpConnections({KeyOf(t)})
  /\ turns' = Fails(t)
  /\ UNCHANGED <<manifest, hashed>>

-----------------------------------------------------------------------------
(* A turn.                                                                 *)

ResolveMcpProp(t) ==
  /\ turns[t].at = "idle"
  /\ turns' = [turns EXCEPT ![t].at = "resolving", ![t].version = manifest]
  /\ UNCHANGED <<manifest, hashed, connections, listed>>

LooksUp(t) == turns[t].at = "resolving" /\ GetMcpConnection(t, "ready") /\ UNCHANGED <<manifest, hashed>>

\* The version is the one the tools were looked up with.
StartsRun(t) ==
  /\ turns[t].at = "ready" /\ turns[t].calls < MaxToolRuns
  /\ \E allowed \in BOOLEAN :
       turns' = [turns EXCEPT ![t].calls = @ + 1, ![t].connection = 0,
                              ![t].run = IF allowed THEN "running" ELSE "blocked",
                              ![t].at = IF allowed THEN "starting" ELSE "ready"]
  /\ UNCHANGED <<manifest, hashed, connections, listed>>

Executes(t) == turns[t].at = "starting" /\ GetMcpConnection(t, "calling") /\ UNCHANGED <<manifest, hashed>>

CallReturns(t) ==
  /\ turns[t].at = "calling" /\ connections[turns[t].connection].state \in {"open", "stale"}
  /\ turns' = [turns EXCEPT ![t].at = "ready", ![t].run = "success"]
  /\ UNCHANGED <<manifest, hashed, connections, listed>>

CallThrows(t) ==
  /\ turns[t].at = "calling"
  /\ turns' = Fails(t)
  /\ UNCHANGED <<manifest, hashed, connections, listed>>

-----------------------------------------------------------------------------
(* The world.                                                              *)

ManifestEdited ==
  /\ manifest < MaxVersions
  /\ manifest' = manifest + 1
  /\ UNCHANGED <<hashed, connections, listed, turns>>

ConnectionDrops(c) ==
  /\ connections[c].state \in {"open", "stale"}
  /\ connections' = [connections EXCEPT ![c].state = "closed"]
  /\ UNCHANGED <<manifest, hashed, listed, turns>>

TimePasses(c) ==
  /\ connections[c].state = "open"
  /\ connections' = [connections EXCEPT ![c].state = "stale"]
  /\ UNCHANGED <<manifest, hashed, listed, turns>>

-----------------------------------------------------------------------------
CapabilityInit ==
  /\ manifest = 1 /\ hashed \in BOOLEAN
  /\ connections = [c \in Connection |-> Unopened]
  /\ listed = [v \in Version |-> 0]
  /\ turns = [t \in Turn |-> NewTurn]

CapabilityNext ==
  \/ \E t \in Turn : \/ ResolveMcpProp(t) \/ LooksUp(t) \/ StartsRun(t) \/ Executes(t)
                     \/ Replaces(t) \/ Opens(t) \/ Connects(t) \/ ConnectThrows(t)
                     \/ CallReturns(t) \/ CallThrows(t)
  \/ \E c \in Connection : ConnectionDrops(c) \/ TimePasses(c)
  \/ ManifestEdited

CapabilitySpec == CapabilityInit /\ [][CapabilityNext]_capabilityVars

TurnStates == {"idle", "resolving", "replacing", "opening", "connecting", "ready", "starting",
               "calling", "skipped"}

CapabilityTypeOK ==
  /\ manifest \in Version /\ hashed \in BOOLEAN
  /\ connections \in [Connection -> [version : {0} \cup Version,
                                     state : {"none", "connecting", "open", "stale", "closed"}]]
  /\ listed \in [Version -> {0} \cup Connection]
  /\ turns \in [Turn -> [at : TurnStates, version : {0} \cup Version,
                         connection : {0} \cup Connection, calls : 0..MaxToolRuns,
                         run : {"none", "running", "success", "error", "blocked"}]]

(* A tool of a seeded capability, or of one made without a hash, is called *)
(* on a server of the manifest it was looked up in, also when the manifest *)
(* was changed since, other turns connected with the new one and closed    *)
(* the old connection (getMcpConnection).  Those of the others may be      *)
(* called as an older manifest says: saveProp keeps the hash of the first. *)
CalledAsLookedUp ==
  \A t \in Turn : ~hashed /\ turns[t].at = "calling" =>
    connections[turns[t].connection].version = turns[t].version
=============================================================================
