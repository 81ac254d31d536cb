------------------------- MODULE UdpSessionRegistry -------------------------
(***************************************************************************)
(* The registry of UDP sessions that GET /api/connections shows            *)
(* (service/sources/connections/udp_session_registry.go), as one rule sees *)
(* it.  A session key is rule, mode, client address and port, so for one   *)
(* rule the keys are its clients.  Every operation holds the registry's    *)
(* lock throughout and is one step.  Packet and byte counters are left     *)
(* out; lastSeenAt is kept only as far as pruning looks at it.             *)
(***************************************************************************)
EXTENDS Naturals, FiniteSets

CONSTANTS
  Clients,     \* client addresses, the keys of the rule's sessions
  SessionIds,  \* ids generateConnectionID may draw
  None         \* no client, no id, no object

ASSUME RegistryAssumption == None \notin Clients \cup SessionIds

VARIABLES
  entries,  \* r.entries: the client of every id, None for an absent entry
  keyToID,  \* r.keyToID: the id of every client, None for an absent key
  aged,     \* the ids whose lastSeenAt lies before the pruning cutoff
  drawn     \* the ids drawn so far: a random id is never drawn again

registryVars == <<entries, keyToID, aged, drawn>>

RegistryTypeOK ==
  /\ entries \in [SessionIds -> Clients \cup {None}]
  /\ keyToID \in [Clients -> SessionIds \cup {None}]
  /\ aged \subseteq SessionIds
  /\ drawn \subseteq SessionIds

RegistryInit ==
  /\ entries = [i \in SessionIds |-> None]
  /\ keyToID = [c \in Clients |-> None]
  /\ aged = {}
  /\ drawn = {}

Listed(i) == i # None /\ entries[i] # None

-----------------------------------------------------------------------------

\* The entry of client c is touched if there is one, else opened under a new
\* id; i is the id returned.  A key whose entry is gone counts as absent.
OpenOrTouchSession(c, i) ==
  /\ IF Listed(keyToID[c]) THEN i = keyToID[c] ELSE i \notin drawn
  /\ entries' = [entries EXCEPT ![i] = c]
  /\ keyToID' = [keyToID EXCEPT ![c] = i]
  /\ aged' = aged \ {i}
  /\ drawn' = drawn \cup {i}

\* A packet from the client makes the entry recent; nothing happens when the
\* entry is gone.
RecordInbound(i) ==
  /\ aged' = aged \ {i}
  /\ UNCHANGED <<entries, keyToID, drawn>>

\* Mutant: the entry goes, its key stays.
MutantRemoveKeepsKeys(ids) ==
  /\ entries' = [i \in SessionIds |-> IF i \in ids THEN None ELSE entries[i]]
  /\ aged' = aged \ ids
  /\ UNCHANGED <<keyToID, drawn>>

\* Removal of the entries of a set of ids, each with the key it has.
RemoveEntries(ids) ==
  /\ entries' = [i \in SessionIds |-> IF i \in ids THEN None ELSE entries[i]]
  /\ keyToID' = [c \in Clients |->
                   IF \E i \in ids : entries[i] = c THEN None ELSE keyToID[c]]
  /\ aged' = aged \ ids
  /\ UNCHANGED drawn

CloseSession(i) == RemoveEntries({i} \cap SessionIds)

CloseSessionsForRule == RemoveEntries(SessionIds)

PruneExpired == RemoveEntries(aged)

\* Five minutes pass on the wall clock since the entry was last seen.
Age(i) ==
  /\ Listed(i) /\ i \notin aged
  /\ aged' = aged \cup {i}
  /\ UNCHANGED <<entries, keyToID, drawn>>

-----------------------------------------------------------------------------

(***************************************************************************)
(* The two maps stay inverse to each other, whichever forwarder, timer or  *)
(* pruning loop calls in between: every client has at most one entry, and  *)
(* the defensive branch of OpenOrTouchSession is never needed.             *)
(***************************************************************************)
MapsAgree ==
  \A c \in Clients, i \in SessionIds : keyToID[c] = i <=> entries[i] = c

=============================================================================
