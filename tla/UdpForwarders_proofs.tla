------------------------- MODULE UdpForwarders_proofs -------------------------
(***************************************************************************)
(* Proofs about the two UDP forwarders, UdpMultiClient and UdpSharedTarget,*)
(* which keep their sessions in one kind of registry: for every number of  *)
(* clients, sessions and ids, for every bound on refreshes and each mode.  *)
(***************************************************************************)
EXTENDS UdpMultiClient, UdpSharedTarget, TLAPS

-----------------------------------------------------------------------------
(***************************************************************************)
(* The registry: its operations keep its type and its maps inverse, for    *)
(* any number of clients and ids.                                          *)
(***************************************************************************)

\* An id in use has been drawn, so a fresh one is nobody's.
ListedWereDrawn == \A i \in SessionIds : Listed(i) => i \in drawn

RegistryInv == RegistryTypeOK /\ MapsAgree /\ ListedWereDrawn

\* Removing any set of entries, with their keys, keeps the registry in order.
LEMMA RemoveKeepsRegistry ==
  ASSUME NEW ids \in SUBSET SessionIds, RegistryInv, RemoveEntries(ids)
  PROVE  RegistryInv'
<1> USE RegistryAssumption
<1>1. RegistryTypeOK'
  BY DEF RegistryInv, RegistryTypeOK, RemoveEntries
<1>2. ASSUME NEW c \in Clients, NEW i \in SessionIds
      PROVE  keyToID'[c] = i <=> entries'[i] = c
  <2>1. entries[i] = c <=> keyToID[c] = i
    BY DEF RegistryInv, MapsAgree
  <2>2. entries'[i] = IF i \in ids THEN None ELSE entries[i]
    BY DEF RemoveEntries
  <2>3. keyToID'[c] = IF \E j \in ids : entries[j] = c THEN None ELSE keyToID[c]
    BY DEF RemoveEntries
  <2>4. CASE i \in ids
    BY <2>1, <2>2, <2>3, <2>4
  <2>5. CASE i \notin ids
    <3>1. entries'[i] = entries[i]
      BY <2>2, <2>5
    <3>2. ASSUME NEW j \in ids, entries[j] = c
          PROVE  entries[i] # c
      <4>1. j \in SessionIds
        BY <3>2
      <4>2. keyToID[c] = j
        BY <3>2, <4>1 DEF RegistryInv, MapsAgree
      <4> QED BY <4>2, <2>1, <2>5
    <3> QED BY <3>1, <3>2, <2>1, <2>3
  <2> QED BY <2>4, <2>5
<1>3. ListedWereDrawn'
  BY DEF RegistryInv, RegistryTypeOK, ListedWereDrawn, RemoveEntries, Listed
<1> QED BY <1>1, <1>2, <1>3 DEF RegistryInv, MapsAgree

\* Opening or touching an entry does: its id is the client's, or a new one.
LEMMA OpenKeepsRegistry ==
  ASSUME NEW c \in Clients, NEW i \in SessionIds, RegistryInv,
         OpenOrTouchSession(c, i)
  PROVE  RegistryInv'
<1> USE RegistryAssumption
<1>1. RegistryTypeOK'
  BY DEF RegistryInv, RegistryTypeOK, OpenOrTouchSession
<1>2. ListedWereDrawn'
  BY DEF RegistryInv, RegistryTypeOK, ListedWereDrawn, OpenOrTouchSession, Listed
<1>3. /\ entries[i] = c \/ entries[i] = None
      /\ keyToID[c] = i \/ keyToID[c] = None
  <2>1. CASE Listed(keyToID[c])
    BY <2>1 DEF RegistryInv, RegistryTypeOK, MapsAgree, OpenOrTouchSession, Listed
  <2>2. CASE ~Listed(keyToID[c])
    <3>1. keyToID[c] = None
      BY <2>2 DEF RegistryInv, RegistryTypeOK, MapsAgree, Listed
    <3>2. entries[i] = None
      BY <2>2 DEF RegistryInv, RegistryTypeOK, ListedWereDrawn,
                  OpenOrTouchSession, Listed
    <3> QED BY <3>1, <3>2
  <2> QED BY <2>1, <2>2
<1>4. ASSUME NEW d \in Clients, NEW j \in SessionIds
      PROVE  keyToID'[d] = j <=> entries'[j] = d
  <2>1. entries[j] = d <=> keyToID[d] = j
    BY DEF RegistryInv, MapsAgree
  <2>2. /\ entries'[j] = IF j = i THEN c ELSE entries[j]
        /\ keyToID'[d] = IF d = c THEN i ELSE keyToID[d]
    BY DEF RegistryInv, RegistryTypeOK, OpenOrTouchSession
  <2>3. CASE j = i /\ d = c
    BY <2>2, <2>3
  <2>4. CASE j = i /\ d # c
    BY <2>1, <2>2, <2>4, <1>3
  <2>5. CASE j # i /\ d = c
    BY <2>1, <2>2, <2>5, <1>3
  <2>6. CASE j # i /\ d # c
    BY <2>1, <2>2, <2>6
  <2> QED BY <2>3, <2>4, <2>5, <2>6
<1> QED BY <1>1, <1>2, <1>4 DEF RegistryInv, MapsAgree

-----------------------------------------------------------------------------
(***************************************************************************)
(* The inductive invariant.                                                *)
(***************************************************************************)

\* A packet in hand has a client, and a session once it has been looked up.
LoopKnowsItsPacket ==
  /\ loop.at \in {"packet", "forward"} => loop.client \in Clients
  /\ loop.at = "forward" => loop.session \in Sessions

\* An object that no packet has opened yet takes part in nothing.
UnusedSessionsRest ==
  \A s \in Sessions : session[s].client = None =>
    /\ expiring[s] = "no" /\ s \notin taken /\ ~IsOpen(s)
    /\ \A g \in 0..MaxGen : <<s, g>> \notin armed \cup fired

\* A timer is set or has fired, not both, and none is of a later generation.
TimersAreOfThePast ==
  /\ armed \cap fired = {}
  /\ \A s \in Sessions, g \in 0..MaxGen :
       <<s, g>> \in armed \cup fired => g <= session[s].gen

\* Only Stop takes sessions out to close them.
NothingTakenWhileRunning == phase = "running" => taken = {}

IInv ==
  /\ TypeOK
  /\ RegistryInv
  /\ LoopKnowsItsPacket
  /\ UnusedSessionsRest
  /\ TimersAreOfThePast
  /\ NothingTakenWhileRunning
  /\ MappedSessionsAreUsable
  /\ EverySocketHasACloser

\* The initial state is in order: nothing has happened to any session.
LEMMA InitIsFine == Init => IInv
<1> SUFFICES ASSUME Init PROVE IInv
  OBVIOUS
<1> USE RegistryAssumption, UdpAssumption
<1>1. RegistryTypeOK
  BY DEF Init, RegistryInit, RegistryTypeOK
<1>2. TypeOK
  <2>1. loop \in [at: {"read", "packet", "forward", "ended"},
                  client: Clients \cup {None}, session: Sessions \cup {None}]
    BY DEF Init, Idle
  <2>2. Unused \in [client: Clients \cup {None}, gen: 0..MaxGen,
                    id: SessionIds \cup {None},
                    conn: {"none", "open", "closed"}]
    BY DEF Unused
  <2>3. session \in [Sessions -> [client: Clients \cup {None}, gen: 0..MaxGen,
                                  id: SessionIds \cup {None},
                                  conn: {"none", "open", "closed"}]]
    BY <2>2 DEF Init
  <2>4. /\ sessions \in [Clients -> Sessions \cup {None}]
        /\ expiring \in [Sessions -> {"no", "unlist", "close"}]
        /\ phase \in Phases
    BY DEF Init, Phases
  <2> QED BY <1>1, <2>1, <2>3, <2>4 DEF Init, TypeOK
<1>3. RegistryInv
  BY <1>1 DEF Init, RegistryInit, RegistryInv, MapsAgree, ListedWereDrawn, Listed
<1>4. LoopKnowsItsPacket /\ TimersAreOfThePast /\ NothingTakenWhileRunning
  BY DEF Init, LoopKnowsItsPacket, TimersAreOfThePast,
         NothingTakenWhileRunning, Idle
<1>5. UnusedSessionsRest
  BY DEF Init, UnusedSessionsRest, IsOpen, Unused
<1>6. MappedSessionsAreUsable
  BY DEF Init, MappedSessionsAreUsable
<1>7. EverySocketHasACloser
  BY DEF Init, EverySocketHasACloser, IsOpen, Unused
<1> QED BY <1>2, <1>3, <1>4, <1>5, <1>6, <1>7 DEF IInv

\* The registry changes by its own operations only.
LEMMA StepKeepsRegistry ==
  ASSUME IInv, [Next]_vars
  PROVE  RegistryInv'
<1> USE RegistryAssumption
<1>1. ASSUME NEW s \in Sessions, NEW i \in SessionIds, OpenSession(s, i)
      PROVE  RegistryInv'
  <2>1. loop.client \in Clients
    BY <1>1 DEF IInv, OpenSession, LoopKnowsItsPacket
  <2> QED BY <1>1, <2>1, OpenKeepsRegistry DEF IInv, OpenSession
<1>2. ASSUME NEW s \in Sessions, ExpireUnlists(s) PROVE RegistryInv'
  BY <1>2, RemoveKeepsRegistry DEF IInv, ExpireUnlists, CloseSession
<1>3. CASE StopReturns
  BY <1>3, RemoveKeepsRegistry DEF IInv, StopReturns, CloseSessionsForRule
<1>4. CASE Prune
  <2>1. aged \in SUBSET SessionIds
    BY DEF IInv, RegistryInv, RegistryTypeOK
  <2> QED BY <1>4, <2>1, RemoveKeepsRegistry DEF IInv, Prune, PruneExpired
<1>5. ASSUME NEW a \in SUBSET SessionIds, aged' = a,
             UNCHANGED <<entries, keyToID, drawn>>
      PROVE  RegistryInv'
  BY <1>5 DEF IInv, RegistryInv, RegistryTypeOK, MapsAgree, ListedWereDrawn, Listed
<1>6. aged \in SUBSET SessionIds
  BY DEF IInv, RegistryInv, RegistryTypeOK
<1>7. ASSUME UNCHANGED registryVars PROVE RegistryInv'
  BY <1>5, <1>6, <1>7 DEF registryVars
<1>8. CASE ForwardPacket
  BY <1>5, <1>6, <1>8 DEF ForwardPacket, RecordInbound
<1>9. ASSUME NEW i \in SessionIds, EntryAges(i) PROVE RegistryInv'
  BY <1>5, <1>6, <1>9 DEF EntryAges, Age
<1>10. CASE UNCHANGED vars
  BY <1>7, <1>10 DEF vars
<1>11. ASSUME NEW s \in Sessions
       PROVE  /\ ExpireCloses(s) => UNCHANGED registryVars
              /\ StopCloses(s) => UNCHANGED registryVars
              /\ ReaderFails(s) => UNCHANGED registryVars
              /\ \A g \in 0..MaxGen :
                   /\ TimerFires(s, g) => UNCHANGED registryVars
                   /\ ExpireSession(s, g) => UNCHANGED registryVars
  BY DEF ExpireCloses, StopCloses, ReaderFails, TimerFires, ExpireSession
<1>12. /\ LoopEnds => UNCHANGED registryVars
       /\ RefreshSession => UNCHANGED registryVars
       /\ DialFails => UNCHANGED registryVars
       /\ StopBegins => UNCHANGED registryVars
       /\ StopClosesListener => UNCHANGED registryVars
       /\ \A c \in Clients : ReadPacket(c) => UNCHANGED registryVars
  BY DEF LoopEnds, RefreshSession, DialFails, StopBegins, StopClosesListener,
         ReadPacket
<1> QED
  BY <1>1, <1>2, <1>3, <1>4, <1>7, <1>8, <1>9, <1>10, <1>11, <1>12 DEF Next

\* Every variable keeps its type.
LEMMA StepKeepsTypes ==
  ASSUME IInv, [Next]_vars
  PROVE  TypeOK'
<1> USE RegistryAssumption, UdpAssumption
<1>1. RegistryTypeOK'
  BY StepKeepsRegistry DEF RegistryInv
<1>2. TypeOK /\ LoopKnowsItsPacket
  BY DEF IInv
<1>3. ASSUME NEW c \in Clients, ReadPacket(c) PROVE TypeOK'
  BY <1>1, <1>2, <1>3 DEF TypeOK, ReadPacket
<1>4. CASE LoopEnds
  BY <1>1, <1>2, <1>4 DEF TypeOK, LoopEnds, Idle
<1>5. CASE RefreshSession
  <2> DEFINE s == sessions[loop.client]
  <2>1. loop.client \in Clients /\ s \in Sessions
    BY <1>2, <1>5 DEF TypeOK, LoopKnowsItsPacket, RefreshSession
  <2>2. session[s].gen \in 0..MaxGen /\ session[s].gen + 1 \in 0..MaxGen
    BY <1>2, <1>5, <2>1 DEF TypeOK, RefreshSession
  <2>3. armed' \subseteq Sessions \X (0..MaxGen)
    BY <1>2, <1>5, <2>1, <2>2 DEF TypeOK, RefreshSession
  <2>4. session' \in [Sessions -> [client: Clients \cup {None}, gen: 0..MaxGen,
                                   id: SessionIds \cup {None},
                                   conn: {"none", "open", "closed"}]]
    BY <1>2, <1>5, <2>1, <2>2 DEF TypeOK, RefreshSession
  <2>5. loop' \in [at: {"read", "packet", "forward", "ended"},
                   client: Clients \cup {None}, session: Sessions \cup {None}]
    BY <1>2, <1>5, <2>1 DEF TypeOK, RefreshSession
  <2> QED BY <1>1, <1>2, <1>5, <2>3, <2>4, <2>5 DEF TypeOK, RefreshSession
<1>6. ASSUME NEW s \in Sessions, NEW i \in SessionIds, OpenSession(s, i)
      PROVE  TypeOK'
  <2>1. loop.client \in Clients
    BY <1>2, <1>6 DEF LoopKnowsItsPacket, OpenSession
  <2>2. session' \in [Sessions -> [client: Clients \cup {None}, gen: 0..MaxGen,
                                   id: SessionIds \cup {None},
                                   conn: {"none", "open", "closed"}]]
    BY <1>2, <1>6, <2>1 DEF TypeOK, OpenSession
  <2>3. loop' \in [at: {"read", "packet", "forward", "ended"},
                   client: Clients \cup {None}, session: Sessions \cup {None}]
    BY <1>2, <1>6, <2>1 DEF TypeOK, OpenSession
  <2>4. sessions' \in [Clients -> Sessions \cup {None}]
    BY <1>2, <1>6, <2>1 DEF TypeOK, OpenSession
  <2>5. armed' \subseteq Sessions \X (0..MaxGen)
    BY <1>2, <1>6 DEF TypeOK, OpenSession
  <2> QED BY <1>1, <1>2, <1>6, <2>2, <2>3, <2>4, <2>5 DEF TypeOK, OpenSession
<1>7. CASE DialFails
  BY <1>1, <1>2, <1>7 DEF TypeOK, DialFails, Idle
<1>8. CASE ForwardPacket
  BY <1>1, <1>2, <1>8 DEF TypeOK, ForwardPacket, Idle
<1>9. ASSUME NEW s \in Sessions, NEW g \in 0..MaxGen, TimerFires(s, g)
      PROVE  TypeOK'
  BY <1>1, <1>2, <1>9 DEF TypeOK, TimerFires
<1>10. ASSUME NEW s \in Sessions, NEW g \in 0..MaxGen, ExpireSession(s, g)
       PROVE  TypeOK'
  BY <1>1, <1>2, <1>10 DEF TypeOK, ExpireSession
<1>11. ASSUME NEW s \in Sessions, ExpireUnlists(s) PROVE TypeOK'
  BY <1>1, <1>2, <1>11 DEF TypeOK, ExpireUnlists
<1>12. ASSUME NEW s \in Sessions, ExpireCloses(s) PROVE TypeOK'
  BY <1>1, <1>2, <1>12 DEF TypeOK, ExpireCloses, CloseConn
<1>13. CASE StopBegins
  BY <1>1, <1>2, <1>13 DEF TypeOK, StopBegins, Phases
<1>14. ASSUME NEW s \in Sessions, StopCloses(s) PROVE TypeOK'
  BY <1>1, <1>2, <1>14 DEF TypeOK, StopCloses, CloseConn
<1>15. CASE StopClosesListener
  BY <1>1, <1>2, <1>15 DEF TypeOK, StopClosesListener, Phases
<1>16. CASE StopReturns
  BY <1>1, <1>2, <1>16 DEF TypeOK, StopReturns, Phases
<1>17. ASSUME NEW s \in Sessions, ReaderFails(s) PROVE TypeOK'
  BY <1>1, <1>2, <1>17 DEF TypeOK, ReaderFails
<1>18. ASSUME NEW i \in SessionIds, EntryAges(i) PROVE TypeOK'
  BY <1>1, <1>2, <1>18 DEF TypeOK, EntryAges, forwarderVars
<1>19. CASE Prune
  BY <1>1, <1>2, <1>19 DEF TypeOK, Prune, forwarderVars
<1>20. CASE UNCHANGED vars
  BY <1>1, <1>2, <1>20 DEF TypeOK, vars, forwarderVars
<1> QED
  BY <1>3, <1>4, <1>5, <1>6, <1>7, <1>8, <1>9, <1>10, <1>11, <1>12, <1>13,
     <1>14, <1>15, <1>16, <1>17, <1>18, <1>19, <1>20 DEF Next

\* The packet in hand stays known.
LEMMA StepKeepsLoop ==
  ASSUME IInv, [Next]_vars
  PROVE  LoopKnowsItsPacket'
<1>1. TypeOK /\ LoopKnowsItsPacket
  BY DEF IInv
<1>2. ASSUME UNCHANGED loop PROVE LoopKnowsItsPacket'
  BY <1>1, <1>2 DEF LoopKnowsItsPacket
<1>3. ASSUME loop'.at \in {"read", "ended"} PROVE LoopKnowsItsPacket'
  BY <1>3 DEF LoopKnowsItsPacket
<1>4. ASSUME NEW c \in Clients, ReadPacket(c) PROVE LoopKnowsItsPacket'
  BY <1>4 DEF LoopKnowsItsPacket, ReadPacket
<1>5. CASE LoopEnds \/ DialFails \/ ForwardPacket
  BY <1>3, <1>5 DEF LoopEnds, DialFails, ForwardPacket, Idle
<1>6. CASE RefreshSession
  <2>1. loop.client \in Clients /\ sessions[loop.client] \in Sessions
    BY <1>1, <1>6 DEF TypeOK, LoopKnowsItsPacket, RefreshSession
  <2>2. /\ loop'.client = loop.client
        /\ loop'.session = sessions[loop.client]
    BY <1>1, <1>6 DEF TypeOK, RefreshSession
  <2> QED BY <2>1, <2>2 DEF LoopKnowsItsPacket
<1>7. ASSUME NEW s \in Sessions, NEW i \in SessionIds, OpenSession(s, i)
      PROVE  LoopKnowsItsPacket'
  <2>1. loop.client \in Clients
    BY <1>1, <1>7 DEF LoopKnowsItsPacket, OpenSession
  <2>2. loop'.client = loop.client /\ loop'.session = s
    BY <1>1, <1>7 DEF TypeOK, OpenSession
  <2> QED BY <2>1, <2>2 DEF LoopKnowsItsPacket
<1>8. ASSUME NEW s \in Sessions
      PROVE  /\ ExpireUnlists(s) => UNCHANGED loop
             /\ ExpireCloses(s) => UNCHANGED loop
             /\ StopCloses(s) => UNCHANGED loop
             /\ ReaderFails(s) => UNCHANGED loop
             /\ \A g \in 0..MaxGen :
                  /\ TimerFires(s, g) => UNCHANGED loop
                  /\ ExpireSession(s, g) => UNCHANGED loop
  BY DEF ExpireUnlists, ExpireCloses, StopCloses, ReaderFails, TimerFires,
         ExpireSession
<1>9. /\ StopBegins => UNCHANGED loop
      /\ StopClosesListener => UNCHANGED loop
      /\ StopReturns => UNCHANGED loop
      /\ Prune => UNCHANGED loop
      /\ \A i \in SessionIds : EntryAges(i) => UNCHANGED loop
      /\ UNCHANGED vars => UNCHANGED loop
  BY DEF StopBegins, StopClosesListener, StopReturns, Prune, EntryAges, vars,
         forwarderVars
<1> QED
  BY <1>2, <1>4, <1>5, <1>6, <1>7, <1>8, <1>9 DEF Next

-----------------------------------------------------------------------------
(***************************************************************************)
(* The sessions, their timers and their sockets.  Most steps leave them    *)
(* alone.                                                                  *)
(***************************************************************************)

CoreUnchanged ==
  /\ UNCHANGED <<sessions, session, armed, fired, expiring, taken>>
  /\ phase' = "running" => phase = "running"

CoreStep ==
  \/ RefreshSession
  \/ \E s \in Sessions, i \in SessionIds : OpenSession(s, i)
  \/ \E s \in Sessions, g \in 0..MaxGen : TimerFires(s, g)
  \/ \E s \in Sessions, g \in 0..MaxGen : ExpireSession(s, g)
  \/ \E s \in Sessions : ExpireUnlists(s)
  \/ \E s \in Sessions : ExpireCloses(s)
  \/ StopBegins
  \/ \E s \in Sessions : StopCloses(s)

\* Every step leaves the core alone or is one of the core's.
LEMMA StepsOfTheCore ==
  ASSUME [Next]_vars
  PROVE  CoreUnchanged \/ CoreStep
<1>1. \A c \in Clients : ReadPacket(c) => CoreUnchanged
  BY DEF ReadPacket, CoreUnchanged
<1>2. /\ LoopEnds => CoreUnchanged
      /\ DialFails => CoreUnchanged
      /\ ForwardPacket => CoreUnchanged
  BY DEF LoopEnds, DialFails, ForwardPacket, CoreUnchanged
<1>3. /\ StopClosesListener => CoreUnchanged
      /\ StopReturns => CoreUnchanged
  BY DEF StopClosesListener, StopReturns, CoreUnchanged
<1>4. /\ \A s \in Sessions : ReaderFails(s) => CoreUnchanged
      /\ \A i \in SessionIds : EntryAges(i) => CoreUnchanged
      /\ Prune => CoreUnchanged
      /\ UNCHANGED vars => CoreUnchanged
  BY DEF ReaderFails, EntryAges, Prune, vars, forwarderVars, CoreUnchanged
<1> QED BY <1>1, <1>2, <1>3, <1>4 DEF Next, CoreStep

\* What a refresh does to the objects: one generation of one session.
LEMMA RefreshEffect ==
  ASSUME IInv, RefreshSession
  PROVE  LET s == sessions[loop.client] IN
         /\ loop.client \in Clients /\ s \in Sessions
         /\ session[s].client = loop.client
         /\ \A t \in Sessions :
              /\ session'[t].client = session[t].client
              /\ session'[t].conn = session[t].conn
              /\ session'[t].gen = IF t = s THEN session[s].gen + 1
                                   ELSE session[t].gen
<1>1. loop.client \in Clients /\ sessions[loop.client] \in Sessions
  BY DEF IInv, TypeOK, LoopKnowsItsPacket, RefreshSession
<1>2. session[sessions[loop.client]].client = loop.client
  BY <1>1 DEF IInv, MappedSessionsAreUsable, RefreshSession
<1>3. ASSUME NEW t \in Sessions
      PROVE  /\ session'[t].client = session[t].client
             /\ session'[t].conn = session[t].conn
             /\ session'[t].gen = IF t = sessions[loop.client]
                                  THEN session[sessions[loop.client]].gen + 1
                                  ELSE session[t].gen
  BY <1>1 DEF IInv, TypeOK, RefreshSession
<1> QED BY <1>1, <1>2, <1>3

\* What opening a session does to the objects.
LEMMA OpenEffect ==
  ASSUME IInv, NEW s \in Sessions, NEW i \in SessionIds, OpenSession(s, i)
  PROVE  /\ loop.client \in Clients
         /\ session[s].client = None
         /\ session'[s] = [client |-> loop.client, gen |-> 0, id |-> i,
                           conn |-> "open"]
         /\ \A t \in Sessions : t # s => session'[t] = session[t]
         /\ sessions'[loop.client] = s
         /\ \A c \in Clients : c # loop.client => sessions'[c] = sessions[c]
<1>1. loop.client \in Clients
  BY DEF IInv, LoopKnowsItsPacket, OpenSession
<1> QED BY <1>1 DEF IInv, TypeOK, OpenSession, Unused

\* What closing a socket does to the objects.
LEMMA CloseEffect ==
  ASSUME IInv, NEW s \in Sessions, CloseConn(s)
  PROVE  \A t \in Sessions :
           /\ session'[t].client = session[t].client
           /\ session'[t].gen = session[t].gen
           /\ session'[t].conn = IF t = s THEN "closed" ELSE session[t].conn
BY DEF IInv, TypeOK, CloseConn

\* Only a packet takes an unused object into use.
LEMMA StepKeepsUnused ==
  ASSUME IInv, [Next]_vars
  PROVE  UnusedSessionsRest'
<1> USE RegistryAssumption, UdpAssumption
<1>1. TypeOK /\ UnusedSessionsRest
  BY DEF IInv
<1> SUFFICES ASSUME NEW t \in Sessions, session'[t].client = None
             PROVE  /\ expiring'[t] = "no" /\ t \notin taken'
                    /\ session'[t].conn # "open"
                    /\ \A g \in 0..MaxGen : <<t, g>> \notin armed' \cup fired'
  BY DEF UnusedSessionsRest, IsOpen
<1>2. ASSUME session[t].client = None
      PROVE  /\ expiring[t] = "no" /\ t \notin taken
             /\ session[t].conn # "open"
             /\ \A g \in 0..MaxGen : <<t, g>> \notin armed \cup fired
             /\ sessions[session[t].client] # t \/ None \notin Clients
  BY <1>1, <1>2 DEF UnusedSessionsRest, IsOpen
<1>3. CASE CoreUnchanged
  BY <1>2, <1>3 DEF CoreUnchanged
<1>4. CASE RefreshSession
  <2>1. session[t].client = None /\ session'[t].conn = session[t].conn
    BY <1>4, RefreshEffect
  <2>2. t # sessions[loop.client]
    BY <1>4, <2>1, RefreshEffect, RegistryAssumption
  <2>3. armed' \subseteq armed \cup {<<sessions[loop.client],
                                     session[sessions[loop.client]].gen + 1>>}
    BY <1>4 DEF RefreshSession
  <2>4. \A g \in 0..MaxGen : <<t, g>> \notin armed'
    BY <1>2, <2>1, <2>2, <2>3
  <2> QED BY <1>2, <1>4, <2>1, <2>4 DEF RefreshSession
<1>5. ASSUME NEW s \in Sessions, NEW i \in SessionIds, OpenSession(s, i)
      PROVE  /\ expiring'[t] = "no" /\ t \notin taken'
             /\ session'[t].conn # "open"
             /\ \A g \in 0..MaxGen : <<t, g>> \notin armed' \cup fired'
  <2>6. /\ session'[s] = [client |-> loop.client, gen |-> 0, id |-> i,
                          conn |-> "open"]
        /\ loop.client \in Clients
    BY <1>5, OpenEffect
  <2>7. session'[s].client = loop.client /\ loop.client \in Clients
    BY <2>6
  <2>1. t # s
    BY <2>7
  <2>2. session'[t] = session[t]
    BY <1>5, <2>1, OpenEffect
  <2>3. armed' = armed \cup {<<s, 0>>}
    BY <1>5 DEF OpenSession
  <2> QED BY <1>2, <1>5, <2>1, <2>2, <2>3 DEF OpenSession
<1>6. ASSUME NEW s \in Sessions, NEW g \in 0..MaxGen, TimerFires(s, g)
      PROVE  /\ expiring'[t] = "no" /\ t \notin taken'
             /\ session'[t].conn # "open"
             /\ \A h \in 0..MaxGen : <<t, h>> \notin armed' \cup fired'
  BY <1>2, <1>6 DEF TimerFires
<1>7. ASSUME NEW s \in Sessions, NEW g \in 0..MaxGen, ExpireSession(s, g)
      PROVE  /\ expiring'[t] = "no" /\ t \notin taken'
             /\ session'[t].conn # "open"
             /\ \A h \in 0..MaxGen : <<t, h>> \notin armed' \cup fired'
  <2>1. session[t].client = None /\ session'[t].conn = session[t].conn
    BY <1>7 DEF ExpireSession
  <2>2. t # s
    BY <1>2, <1>7, <2>1 DEF ExpireSession
  <2>3. expiring'[t] = expiring[t]
    BY <1>1, <1>7, <2>2 DEF TypeOK, ExpireSession
  <2> QED BY <1>2, <1>7, <2>1, <2>3 DEF ExpireSession
<1>8. ASSUME NEW s \in Sessions, ExpireUnlists(s)
      PROVE  /\ expiring'[t] = "no" /\ t \notin taken'
             /\ session'[t].conn # "open"
             /\ \A h \in 0..MaxGen : <<t, h>> \notin armed' \cup fired'
  <2>1. session[t].client = None /\ session'[t].conn = session[t].conn
    BY <1>8 DEF ExpireUnlists
  <2>2. t # s
    BY <1>2, <1>8, <2>1 DEF ExpireUnlists
  <2>3. expiring'[t] = expiring[t]
    BY <1>1, <1>8, <2>2 DEF TypeOK, ExpireUnlists
  <2> QED BY <1>2, <1>8, <2>1, <2>3 DEF ExpireUnlists
<1>9. ASSUME NEW s \in Sessions, ExpireCloses(s)
      PROVE  /\ expiring'[t] = "no" /\ t \notin taken'
             /\ session'[t].conn # "open"
             /\ \A h \in 0..MaxGen : <<t, h>> \notin armed' \cup fired'
  <2>1. /\ session[t].client = None
        /\ session'[t].conn \in {"closed", session[t].conn}
    BY <1>9, CloseEffect DEF ExpireCloses
  <2>2. expiring'[t] = "no"
    BY <1>1, <1>2, <1>9, <2>1 DEF TypeOK, ExpireCloses
  <2> QED BY <1>2, <1>9, <2>1, <2>2 DEF ExpireCloses
<1>10. CASE StopBegins
  <2>1. session[t].client = None /\ session'[t].conn = session[t].conn
    BY <1>10 DEF StopBegins
  <2>2. t \notin taken'
    BY <1>10, <2>1 DEF StopBegins, Mapped
  <2> QED BY <1>2, <1>10, <2>1, <2>2 DEF StopBegins
<1>11. ASSUME NEW s \in Sessions, StopCloses(s)
       PROVE  /\ expiring'[t] = "no" /\ t \notin taken'
              /\ session'[t].conn # "open"
              /\ \A h \in 0..MaxGen : <<t, h>> \notin armed' \cup fired'
  <2>1. /\ session[t].client = None
        /\ session'[t].conn \in {"closed", session[t].conn}
    BY <1>11, CloseEffect DEF StopCloses
  <2> QED BY <1>2, <1>11, <2>1 DEF StopCloses
<1> QED
  BY <1>3, <1>4, <1>5, <1>6, <1>7, <1>8, <1>9, <1>10, <1>11, StepsOfTheCore
     DEF CoreStep

\* A new timer is of a generation nobody has seen.
LEMMA StepKeepsTimers ==
  ASSUME IInv, [Next]_vars
  PROVE  TimersAreOfThePast'
<1> USE RegistryAssumption, UdpAssumption
<1>1. TypeOK /\ TimersAreOfThePast /\ UnusedSessionsRest
  BY DEF IInv
<1>2. ASSUME armed' \cap fired' = {},
             armed' \cup fired' \subseteq armed \cup fired,
             \A t \in Sessions : session'[t].gen = session[t].gen
      PROVE  TimersAreOfThePast'
  BY <1>1, <1>2 DEF TimersAreOfThePast
<1>3. CASE CoreUnchanged
  BY <1>1, <1>2, <1>3 DEF CoreUnchanged, TimersAreOfThePast
<1>4. CASE RefreshSession
  <2> DEFINE s == sessions[loop.client]
             n == session[s].gen + 1
  <2>1. s \in Sessions /\ session[s].gen \in 0..MaxGen /\ n \in 0..MaxGen
    BY <1>1, <1>4, RefreshEffect DEF TypeOK, RefreshSession
  <2>2. <<s, n>> \notin armed \cup fired
    BY <1>1, <2>1 DEF TimersAreOfThePast
  <2>3. armed' \subseteq armed \cup {<<s, n>>} /\ fired' = fired
    BY <1>4 DEF RefreshSession
  <2>4. armed' \cap fired' = {}
    BY <1>1, <2>2, <2>3 DEF TimersAreOfThePast
  <2>5. ASSUME NEW t \in Sessions, NEW g \in 0..MaxGen,
               <<t, g>> \in armed' \cup fired'
        PROVE  g <= session'[t].gen
    <3>1. session'[t].gen = IF t = s THEN n ELSE session[t].gen
      BY <1>4, RefreshEffect
    <3>2. session[t].gen <= session'[t].gen
      BY <3>1, <2>1 DEF IInv, TypeOK
    <3>3. CASE <<t, g>> = <<s, n>>
      BY <3>1, <3>3, <2>1
    <3>4. CASE <<t, g>> # <<s, n>>
      <4>1. g <= session[t].gen
        BY <1>1, <2>3, <2>5, <3>4 DEF TimersAreOfThePast
      <4>2. session[t].gen \in 0..MaxGen
        BY <1>1 DEF TypeOK
      <4>3. session'[t].gen \in 0..MaxGen
        BY <3>1, <4>2, <2>1
      <4> QED BY <4>1, <4>2, <4>3, <3>2
    <3> QED BY <3>3, <3>4
  <2> QED BY <2>4, <2>5 DEF TimersAreOfThePast
<1>5. ASSUME NEW s \in Sessions, NEW i \in SessionIds, OpenSession(s, i)
      PROVE  TimersAreOfThePast'
  <2>1. \A g \in 0..MaxGen : <<s, g>> \notin armed \cup fired
    BY <1>1, <1>5, OpenEffect DEF UnusedSessionsRest
  <2>2. armed' = armed \cup {<<s, 0>>} /\ fired' = fired
    BY <1>5 DEF OpenSession
  <2>3. armed' \cap fired' = {}
    BY <1>1, <2>1, <2>2 DEF TimersAreOfThePast
  <2>4. ASSUME NEW t \in Sessions, NEW g \in 0..MaxGen,
               <<t, g>> \in armed' \cup fired'
        PROVE  g <= session'[t].gen
    <3>1. CASE t = s
      <4>1. g = 0
        BY <2>1, <2>2, <2>4, <3>1
      <4>4. session'[s] = [client |-> loop.client, gen |-> 0, id |-> i,
                          conn |-> "open"]
        BY <1>5, OpenEffect
      <4>2. session'[t].gen = 0
        BY <4>4, <3>1
      <4>3. g <= 0
        BY <4>1
      <4> QED BY <4>2, <4>3
    <3>2. CASE t # s
      <4>1. session'[t] = session[t]
        BY <1>5, <3>2, OpenEffect
      <4>2. <<t, g>> \in armed \cup fired
        BY <2>2, <2>4, <3>2
      <4> QED BY <1>1, <4>1, <4>2 DEF TimersAreOfThePast
    <3> QED BY <3>1, <3>2
  <2> QED BY <2>3, <2>4 DEF TimersAreOfThePast
<1>6. ASSUME NEW s \in Sessions, NEW g \in 0..MaxGen, TimerFires(s, g)
      PROVE  TimersAreOfThePast'
  <2>1. armed' \cap fired' = {}
    BY <1>1, <1>6 DEF TimerFires, TimersAreOfThePast
  <2>2. armed' \cup fired' \subseteq armed \cup fired
    BY <1>6 DEF TimerFires
  <2> QED BY <1>2, <1>6, <2>1, <2>2 DEF TimerFires
<1>7. ASSUME NEW s \in Sessions, NEW g \in 0..MaxGen, ExpireSession(s, g)
      PROVE  TimersAreOfThePast'
  <2>1. /\ armed' \cap fired' = {}
        /\ armed' \cup fired' \subseteq armed \cup fired
    BY <1>1, <1>7 DEF ExpireSession, TimersAreOfThePast
  <2> QED BY <1>2, <1>7, <2>1 DEF ExpireSession
<1>8. ASSUME NEW s \in Sessions, ExpireUnlists(s) PROVE TimersAreOfThePast'
  BY <1>1, <1>2, <1>8 DEF ExpireUnlists, TimersAreOfThePast
<1>9. ASSUME NEW s \in Sessions, ExpireCloses(s) PROVE TimersAreOfThePast'
  <2>1. \A t \in Sessions : session'[t].gen = session[t].gen
    BY <1>9, CloseEffect DEF ExpireCloses
  <2> QED BY <1>1, <1>2, <1>9, <2>1 DEF ExpireCloses, TimersAreOfThePast
<1>10. CASE StopBegins
  BY <1>1, <1>2, <1>10 DEF StopBegins, TimersAreOfThePast
<1>11. ASSUME NEW s \in Sessions, StopCloses(s) PROVE TimersAreOfThePast'
  <2>1. \A t \in Sessions : session'[t].gen = session[t].gen
    BY <1>11, CloseEffect DEF StopCloses
  <2>2. armed' \subseteq armed /\ fired' = fired
    BY <1>11 DEF StopCloses
  <2>3. armed' \cap fired' = {}
    BY <1>1, <2>2 DEF TimersAreOfThePast
  <2> QED BY <1>2, <2>1, <2>2, <2>3
<1> QED
  BY <1>3, <1>4, <1>5, <1>6, <1>7, <1>8, <1>9, <1>10, <1>11, StepsOfTheCore
     DEF CoreStep

\* A session in the map stays usable: whoever closes sockets or spends timers has
\* taken the session out of the map before.
LEMMA StepKeepsMapped ==
  ASSUME IInv, [Next]_vars
  PROVE  MappedSessionsAreUsable'
<1> USE RegistryAssumption, UdpAssumption
<1>1. TypeOK /\ MappedSessionsAreUsable
  BY DEF IInv
<1> SUFFICES ASSUME NEW c \in Clients, NEW t, t = sessions'[c], t # None
             PROVE  /\ session'[t].client = c
                    /\ session'[t].conn = "open"
                    /\ expiring'[t] = "no" /\ t \notin taken'
                    /\ <<t, session'[t].gen>> \in armed' \cup fired'
  BY DEF MappedSessionsAreUsable, IsOpen, Newest
<1> DEFINE Usable ==
      /\ session'[t].client = c
      /\ session'[t].conn = "open"
      /\ expiring'[t] = "no" /\ t \notin taken'
      /\ <<t, session'[t].gen>> \in armed' \cup fired'
<1>2. ASSUME sessions[c] = t
      PROVE  /\ t \in Sessions
             /\ session[t].client = c /\ session[t].conn = "open"
             /\ expiring[t] = "no" /\ t \notin taken
             /\ <<t, session[t].gen>> \in armed \cup fired
             /\ session[t].gen \in 0..MaxGen
  BY <1>1, <1>2 DEF TypeOK, MappedSessionsAreUsable, IsOpen, Newest
<1>3. CASE CoreUnchanged
  BY <1>2, <1>3 DEF CoreUnchanged
<1>4. CASE RefreshSession
  <2> DEFINE s == sessions[loop.client]
  <2>1. sessions[c] = t
    BY <1>4 DEF RefreshSession
  <2>2. /\ session'[t].client = session[t].client
        /\ session'[t].conn = session[t].conn
        /\ session'[t].gen = IF t = s THEN session[s].gen + 1 ELSE session[t].gen
    BY <1>2, <1>4, <2>1, RefreshEffect
  <2>3. armed' = (armed \ {<<s, session[s].gen>>}) \cup {<<s, session[s].gen + 1>>}
    BY <1>4 DEF RefreshSession, Newest
  <2>4. <<t, session'[t].gen>> \in armed' \cup fired'
    <3>1. CASE t = s
      BY <2>2, <2>3, <3>1
    <3>2. CASE t # s
      <4>1. <<t, session'[t].gen>> \in armed \cup fired
        BY <1>2, <2>1, <2>2, <3>2
      <4>2. <<t, session'[t].gen>> # <<s, session[s].gen>>
        BY <3>2
      <4> QED BY <1>4, <2>3, <4>1, <4>2 DEF RefreshSession
    <3> QED BY <3>1, <3>2
  <2> QED BY <1>2, <1>4, <2>1, <2>2, <2>4 DEF RefreshSession
<1>5. ASSUME NEW s \in Sessions, NEW i \in SessionIds, OpenSession(s, i)
      PROVE  Usable
  <2>1. armed' = armed \cup {<<s, 0>>}
    BY <1>5 DEF OpenSession
  <2>2. /\ session'[s] = [client |-> loop.client, gen |-> 0, id |-> i,
                          conn |-> "open"]
        /\ session[s].client = None /\ loop.client \in Clients
    BY <1>5, OpenEffect
  <2>3. CASE c = loop.client
    <3>1. t = s
      BY <1>5, <2>3, OpenEffect
    <3>2. /\ session'[t].client = c /\ session'[t].conn = "open"
          /\ session'[t].gen = 0
      BY <2>2, <2>3, <3>1
    <3>3. expiring[s] = "no" /\ s \notin taken
      BY <2>2 DEF IInv, UnusedSessionsRest
    <3> QED BY <1>5, <2>1, <3>1, <3>2, <3>3 DEF OpenSession
  <2>4. CASE c # loop.client
    <3>1. sessions[c] = t
      BY <1>5, <2>4, OpenEffect
    <3>2. t # s
      BY <1>2, <3>1, <2>2
    <3>3. session'[t] = session[t]
      BY <1>2, <1>5, <3>1, <3>2, OpenEffect
    <3>4. UNCHANGED <<fired, expiring, taken>>
      BY <1>5 DEF OpenSession
    <3>5. armed \cup fired \subseteq armed' \cup fired'
      BY <2>1, <3>4
    <3>6. <<t, session'[t].gen>> \in armed' \cup fired'
      BY <1>2, <3>1, <3>3, <3>5
    <3> QED BY <1>2, <3>1, <3>3, <3>4, <3>6
  <2> QED BY <2>3, <2>4
<1>6. ASSUME NEW s \in Sessions, NEW g \in 0..MaxGen, TimerFires(s, g)
      PROVE  Usable
  BY <1>2, <1>6 DEF TimerFires
<1>7. ASSUME NEW s \in Sessions, NEW g \in 0..MaxGen, ExpireSession(s, g)
      PROVE  Usable
  <2>1. UNCHANGED <<session, armed, taken>> /\ fired' = fired \ {<<s, g>>}
    BY <1>7 DEF ExpireSession
  <2>2. CASE IsCurrent(s, g)
    <3>1. /\ sessions' = [sessions EXCEPT ![session[s].client] = None]
          /\ expiring' = [expiring EXCEPT ![s] = "unlist"]
      BY <1>7, <2>2 DEF ExpireSession
    <3>2. sessions[c] = t /\ c # session[s].client
      BY <1>1, <3>1 DEF TypeOK
    <3>3. t # s
      BY <1>2, <3>2
    <3>4. expiring'[t] = expiring[t]
      BY <1>1, <1>2, <3>1, <3>2, <3>3 DEF TypeOK
    <3>5. <<t, session[t].gen>> # <<s, g>>
      BY <3>3
    <3> QED BY <1>2, <2>1, <3>2, <3>4, <3>5
  <2>3. CASE ~IsCurrent(s, g)
    <3>1. UNCHANGED <<sessions, expiring>>
      BY <1>7, <2>3 DEF ExpireSession
    <3>2. <<t, session[t].gen>> # <<s, g>>
      BY <1>2, <2>3, <3>1 DEF IsCurrent
    <3> QED BY <1>2, <2>1, <3>1, <3>2
  <2> QED BY <2>2, <2>3
<1>8. ASSUME NEW s \in Sessions, ExpireUnlists(s) PROVE Usable
  <2>1. sessions[c] = t
    BY <1>8 DEF ExpireUnlists
  <2>2. t # s
    BY <1>2, <1>8, <2>1 DEF ExpireUnlists
  <2>3. expiring'[t] = expiring[t]
    BY <1>1, <1>2, <1>8, <2>1, <2>2 DEF TypeOK, ExpireUnlists
  <2> QED BY <1>2, <1>8, <2>1, <2>3 DEF ExpireUnlists
<1>9. ASSUME NEW s \in Sessions, ExpireCloses(s) PROVE Usable
  <2>1. sessions[c] = t
    BY <1>9 DEF ExpireCloses
  <2>2. t # s
    BY <1>2, <1>9, <2>1 DEF ExpireCloses
  <2>3. expiring'[t] = expiring[t]
    BY <1>1, <1>2, <1>9, <2>1, <2>2 DEF TypeOK, ExpireCloses
  <2>4. /\ session'[t].client = session[t].client
        /\ session'[t].gen = session[t].gen
        /\ session'[t].conn = session[t].conn
    BY <1>2, <1>9, <2>1, <2>2, CloseEffect DEF ExpireCloses
  <2> QED BY <1>2, <1>9, <2>1, <2>3, <2>4 DEF ExpireCloses
<1>10. CASE StopBegins
  BY <1>10 DEF StopBegins
<1>11. ASSUME NEW s \in Sessions, StopCloses(s) PROVE Usable
  <2>1. sessions[c] = t
    BY <1>11 DEF StopCloses
  <2>2. t # s
    BY <1>2, <1>11, <2>1 DEF StopCloses
  <2>3. armed' = armed \ {<<s, session[s].gen>>}
    BY <1>11 DEF StopCloses, Newest
  <2>4. /\ session'[t].client = session[t].client
        /\ session'[t].gen = session[t].gen
        /\ session'[t].conn = session[t].conn
    BY <1>2, <1>11, <2>1, <2>2, CloseEffect DEF StopCloses
  <2>5. <<t, session[t].gen>> # <<s, session[s].gen>>
    BY <2>2
  <2> QED BY <1>2, <1>11, <2>1, <2>3, <2>4, <2>5 DEF StopCloses
<1> QED
  BY <1>3, <1>4, <1>5, <1>6, <1>7, <1>8, <1>9, <1>10, <1>11, StepsOfTheCore
     DEF CoreStep

\* Nothing is taken before Stop begins.
LEMMA StepKeepsStop ==
  ASSUME IInv, [Next]_vars
  PROVE  NothingTakenWhileRunning'
<1>1. NothingTakenWhileRunning
  BY DEF IInv
<1>2. CASE CoreUnchanged
  BY <1>1, <1>2 DEF CoreUnchanged, NothingTakenWhileRunning
<1>3. ASSUME NEW s \in Sessions
      PROVE  /\ \A i \in SessionIds : OpenSession(s, i) => UNCHANGED <<phase, taken>>
             /\ \A g \in 0..MaxGen :
                  /\ TimerFires(s, g) => UNCHANGED <<phase, taken>>
                  /\ ExpireSession(s, g) => UNCHANGED <<phase, taken>>
             /\ ExpireUnlists(s) => UNCHANGED <<phase, taken>>
             /\ ExpireCloses(s) => UNCHANGED <<phase, taken>>
             /\ StopCloses(s) => phase' # "running"
  BY DEF OpenSession, TimerFires, ExpireSession, ExpireUnlists, ExpireCloses,
         StopCloses
<1>4. /\ RefreshSession => UNCHANGED <<phase, taken>>
      /\ StopBegins => phase' # "running"
  BY DEF RefreshSession, StopBegins
<1> QED
  BY <1>1, <1>2, <1>3, <1>4, StepsOfTheCore DEF CoreStep, NothingTakenWhileRunning

\* Whoever takes a session out of the map goes on to close its socket.
LEMMA StepKeepsClosers ==
  ASSUME IInv, [Next]_vars
  PROVE  EverySocketHasACloser'
<1> USE RegistryAssumption, UdpAssumption
<1>1. TypeOK /\ EverySocketHasACloser
  BY DEF IInv
<1> DEFINE ClosedBySomebody(t) ==
      \/ session'[t].client # None /\ sessions'[session'[t].client] = t
      \/ expiring'[t] # "no"
      \/ t \in taken'
<1> SUFFICES ASSUME NEW t \in Sessions, session'[t].conn = "open"
             PROVE  ClosedBySomebody(t)
  BY DEF EverySocketHasACloser, IsOpen, Mapped
<1>2. ASSUME session[t].conn = "open"
      PROVE  \/ session[t].client # None /\ sessions[session[t].client] = t
             \/ expiring[t] # "no"
             \/ t \in taken
  BY <1>1, <1>2 DEF EverySocketHasACloser, IsOpen, Mapped
<1>3. CASE CoreUnchanged
  BY <1>2, <1>3 DEF CoreUnchanged
<1>4. CASE RefreshSession
  <2>1. /\ session'[t].client = session[t].client
        /\ session'[t].conn = session[t].conn
    BY <1>4, RefreshEffect
  <2> QED BY <1>2, <1>4, <2>1 DEF RefreshSession
<1>5. ASSUME NEW s \in Sessions, NEW i \in SessionIds, OpenSession(s, i)
      PROVE  ClosedBySomebody(t)
  <2>1. /\ session'[s] = [client |-> loop.client, gen |-> 0, id |-> i,
                          conn |-> "open"]
        /\ sessions'[loop.client] = s /\ loop.client \in Clients
    BY <1>5, OpenEffect
  <2>2. CASE t = s
    <3>1. session'[t].client = loop.client
      BY <2>1, <2>2
    <3> QED BY <2>1, <2>2, <3>1
  <2>3. CASE t # s
    <3>1. session'[t] = session[t]
      BY <1>5, <2>3, OpenEffect
    <3>2. CASE session[t].client # None /\ sessions[session[t].client] = t
      <4>1. session[t].client \in Clients
        BY <1>1, <3>2 DEF TypeOK
      <4>2. sessions[loop.client] = None
        BY <1>5 DEF OpenSession
      <4>3. session[t].client # loop.client
        BY <3>2, <4>2
      <4>4. sessions'[session[t].client] = t
        BY <1>5, <3>2, <4>1, <4>3, OpenEffect
      <4> QED BY <3>1, <3>2, <4>4
    <3> QED BY <1>2, <1>5, <3>1, <3>2 DEF OpenSession
  <2> QED BY <2>2, <2>3
<1>6. ASSUME NEW s \in Sessions, NEW g \in 0..MaxGen, TimerFires(s, g)
      PROVE  ClosedBySomebody(t)
  BY <1>2, <1>6 DEF TimerFires
<1>7. ASSUME NEW s \in Sessions, NEW g \in 0..MaxGen, ExpireSession(s, g)
      PROVE  ClosedBySomebody(t)
  <2>1. UNCHANGED <<session, taken>>
    BY <1>7 DEF ExpireSession
  <2>2. CASE IsCurrent(s, g)
    <3>1. /\ sessions' = [sessions EXCEPT ![session[s].client] = None]
          /\ expiring' = [expiring EXCEPT ![s] = "unlist"]
      BY <1>7, <2>2 DEF ExpireSession
    <3>2. CASE t = s
      BY <1>1, <3>1, <3>2 DEF TypeOK
    <3>3. CASE t # s
      <4>1. expiring'[t] = expiring[t]
        BY <1>1, <3>1, <3>3 DEF TypeOK
      <4>2. CASE session[t].client # None /\ sessions[session[t].client] = t
        <5>1. session[t].client # session[s].client
          BY <2>2, <3>3, <4>2 DEF IsCurrent
        <5>2. sessions'[session[t].client] = t
          BY <1>1, <3>1, <4>2, <5>1 DEF TypeOK
        <5> QED BY <2>1, <4>2, <5>2
      <4> QED BY <1>2, <2>1, <4>1, <4>2
    <3> QED BY <3>2, <3>3
  <2>3. CASE ~IsCurrent(s, g)
    BY <1>2, <1>7, <2>3 DEF ExpireSession
  <2> QED BY <2>2, <2>3
<1>8. ASSUME NEW s \in Sessions, ExpireUnlists(s) PROVE ClosedBySomebody(t)
  <2>1. expiring'[t] # "no" \/ expiring'[t] = expiring[t]
    BY <1>1, <1>8 DEF TypeOK, ExpireUnlists
  <2> QED BY <1>2, <1>8, <2>1 DEF ExpireUnlists
<1>9. ASSUME NEW s \in Sessions, ExpireCloses(s) PROVE ClosedBySomebody(t)
  <2>1. /\ session'[t].client = session[t].client
        /\ session'[t].conn = IF t = s THEN "closed" ELSE session[t].conn
    BY <1>9, CloseEffect DEF ExpireCloses
  <2>2. t # s /\ session[t].conn = "open"
    BY <2>1
  <2>3. expiring'[t] = expiring[t]
    BY <1>1, <1>9, <2>2 DEF TypeOK, ExpireCloses
  <2> QED BY <1>2, <1>9, <2>1, <2>2, <2>3 DEF ExpireCloses
<1>10. CASE StopBegins
  <2>1. taken = {}
    BY <1>10 DEF IInv, NothingTakenWhileRunning, StopBegins
  <2>2. UNCHANGED <<session, expiring>>
    BY <1>10 DEF StopBegins
  <2>3. Mapped(t) => t \in taken'
    BY <1>10 DEF StopBegins
  <2> QED BY <1>2, <2>1, <2>2, <2>3 DEF Mapped
<1>11. ASSUME NEW s \in Sessions, StopCloses(s) PROVE ClosedBySomebody(t)
  <2>1. /\ session'[t].client = session[t].client
        /\ session'[t].conn = IF t = s THEN "closed" ELSE session[t].conn
    BY <1>11, CloseEffect DEF StopCloses
  <2>2. t # s /\ session[t].conn = "open"
    BY <2>1
  <2> QED BY <1>2, <1>11, <2>1, <2>2 DEF StopCloses
<1> QED
  BY <1>3, <1>4, <1>5, <1>6, <1>7, <1>8, <1>9, <1>10, <1>11, StepsOfTheCore
     DEF CoreStep

-----------------------------------------------------------------------------
(***************************************************************************)
(* The theorems.                                                           *)
(***************************************************************************)

\* The inductive invariant holds throughout.
LEMMA Invariance == Spec => []IInv
<1>1. Init => IInv
  BY InitIsFine
<1>2. IInv /\ [Next]_vars => IInv'
  BY StepKeepsTypes, StepKeepsRegistry, StepKeepsLoop, StepKeepsUnused,
     StepKeepsTimers, StepKeepsStop, StepKeepsMapped, StepKeepsClosers DEF IInv
<1> QED BY <1>1, <1>2, PTL DEF Spec

\* Every variable of the forwarder and of its registry keeps its type.
THEOREM TypeCorrect == Spec => []TypeOK
<1>1. IInv => TypeOK
  BY DEF IInv
<1> QED BY <1>1, Invariance, PTL

\* The two maps of the session registry stay inverse to each other, whatever
\* the order in which packets, expiries, prunings and Stop call it.
THEOREM RegistryMapsAgree == Spec => []MapsAgree
<1>1. IInv => MapsAgree
  BY DEF IInv, RegistryInv
<1> QED BY <1>1, Invariance, PTL

\* A session in f.sessions is its client's own, open, nobody's to close, and
\* has the timer of its current generation.
THEOREM SessionsAreUsable == Spec => []MappedSessionsAreUsable
<1>1. IInv => MappedSessionsAreUsable
  BY DEF IInv
<1> QED BY <1>1, Invariance, PTL

\* No target socket is orphaned, not even one that a packet opens after Stop
\* has emptied the map.
THEOREM NoOrphanedSocket == Spec => []EverySocketHasACloser
<1>1. IInv => EverySocketHasACloser
  BY DEF IInv
<1> QED BY <1>1, Invariance, PTL

\* A running forwarder gives a session up only when the timer set by its latest
\* packet has fired: the generation counter does what it is for.
THEOREM StaleTimersAreHarmless == Spec => RenewedSessionsStay
<1> DEFINE Stays == \A c \in Clients :
                      /\ phase = "running" /\ phase' = "running"
                      /\ sessions[c] # None /\ sessions'[c] # sessions[c]
                      => Newest(sessions[c]) \notin armed
<1>1. ASSUME IInv, [Next]_vars PROVE Stays
  <2> SUFFICES ASSUME NEW c \in Clients,
                      phase = "running", phase' = "running",
                      sessions[c] # None, sessions'[c] # sessions[c]
               PROVE  Newest(sessions[c]) \notin armed
    OBVIOUS
  <2>1. sessions[c] \in Sessions /\ session[sessions[c]].client = c
    BY <1>1 DEF IInv, TypeOK, MappedSessionsAreUsable
  <2>2. CASE CoreUnchanged
    BY <2>2 DEF CoreUnchanged
  <2>3. ASSUME NEW s \in Sessions, NEW i \in SessionIds, OpenSession(s, i)
        PROVE  FALSE
    <3>1. sessions[loop.client] = None
      BY <2>3 DEF OpenSession
    <3>2. c # loop.client
      BY <3>1
    <3> QED BY <1>1, <2>3, <3>2, OpenEffect
  <2>4. ASSUME NEW s \in Sessions, NEW g \in 0..MaxGen, ExpireSession(s, g)
        PROVE  Newest(sessions[c]) \notin armed
    <3>1. IsCurrent(s, g)
      BY <2>4 DEF ExpireSession
    <3>2. sessions' = [sessions EXCEPT ![session[s].client] = None]
      BY <2>4, <3>1 DEF ExpireSession
    <3>3. c = session[s].client
      BY <1>1, <3>2 DEF IInv, TypeOK
    <3>4. sessions[c] = s /\ session[s].gen = g
      BY <3>1, <3>3 DEF IsCurrent
    <3>5. <<s, g>> \in fired
      BY <2>4 DEF ExpireSession
    <3>6. armed \cap fired = {}
      BY <1>1 DEF IInv, TimersAreOfThePast
    <3> QED BY <3>4, <3>5, <3>6 DEF Newest
  <2>5. ASSUME NEW s \in Sessions
        PROVE  /\ \A g \in 0..MaxGen : TimerFires(s, g) => UNCHANGED sessions
               /\ ExpireUnlists(s) => UNCHANGED sessions
               /\ ExpireCloses(s) => UNCHANGED sessions
               /\ StopCloses(s) => UNCHANGED sessions
    BY DEF TimerFires, ExpireUnlists, ExpireCloses, StopCloses
  <2>6. /\ RefreshSession => UNCHANGED sessions
        /\ StopBegins => phase' # "running"
    BY DEF RefreshSession, StopBegins
  <2> QED
    BY <1>1, <2>2, <2>3, <2>4, <2>5, <2>6, StepsOfTheCore DEF CoreStep
<1>2. IInv /\ [Next]_vars => [Stays]_vars
  BY <1>1
<1>3. Spec => [][Next]_vars
  BY PTL DEF Spec
<1> QED BY <1>2, <1>3, Invariance, PTL DEF RenewedSessionsStay

-----------------------------------------------------------------------------
(***************************************************************************)
(* The packet in hand, and what the registry lists.                        *)
(***************************************************************************)

\* A packet comes to be forwarded through a refresh or a new session only.
LEMMA ForwardingBegins ==
  ASSUME [Next]_vars, loop'.at = "forward"
  PROVE  \/ UNCHANGED loop
         \/ RefreshSession
         \/ \E s \in Sessions, i \in SessionIds : OpenSession(s, i)
<1>1. /\ \A c \in Clients : ~ReadPacket(c)
      /\ ~LoopEnds /\ ~DialFails /\ ~ForwardPacket
  BY DEF ReadPacket, LoopEnds, DialFails, ForwardPacket, Idle
<1>2. \A s \in Sessions :
        /\ ExpireUnlists(s) => UNCHANGED loop
        /\ ExpireCloses(s) => UNCHANGED loop
        /\ StopCloses(s) => UNCHANGED loop
        /\ ReaderFails(s) => UNCHANGED loop
        /\ \A g \in 0..MaxGen :
             /\ TimerFires(s, g) => UNCHANGED loop
             /\ ExpireSession(s, g) => UNCHANGED loop
  BY DEF ExpireUnlists, ExpireCloses, StopCloses, ReaderFails, TimerFires,
         ExpireSession
<1>3. /\ StopBegins => UNCHANGED loop
      /\ StopClosesListener => UNCHANGED loop
      /\ StopReturns => UNCHANGED loop
      /\ Prune => UNCHANGED loop
      /\ \A i \in SessionIds : EntryAges(i) => UNCHANGED loop
      /\ UNCHANGED vars => UNCHANGED loop
  BY DEF StopBegins, StopClosesListener, StopReturns, Prune, EntryAges, vars,
         forwarderVars
<1> QED BY <1>1, <1>2, <1>3 DEF Next

\* While a packet of a running forwarder is in hand its session stays in the
\* map, unless the timer that this packet has set goes off.
PacketKeepsItsSession ==
  loop.at = "forward" /\ phase = "running" =>
    sessions[loop.client] = loop.session \/ Newest(loop.session) \notin armed

LEMMA StepKeepsThePacket ==
  ASSUME IInv, PacketKeepsItsSession, [Next]_vars
  PROVE  PacketKeepsItsSession'
<1>1. TypeOK /\ LoopKnowsItsPacket /\ TimersAreOfThePast
  BY DEF IInv
<1> SUFFICES ASSUME loop'.at = "forward", phase' = "running"
             PROVE  \/ sessions'[loop'.client] = loop'.session
                    \/ Newest(loop.session)' \notin armed'
  BY DEF PacketKeepsItsSession
<1>2. CASE RefreshSession
  <2>1. sessions'[loop'.client] = loop'.session
    BY <1>1, <1>2 DEF RefreshSession, TypeOK
  <2> QED BY <2>1
<1>3. ASSUME NEW s \in Sessions, NEW i \in SessionIds, OpenSession(s, i)
      PROVE  sessions'[loop'.client] = loop'.session
  <2>1. loop'.client = loop.client /\ loop'.session = s
    BY <1>1, <1>3 DEF OpenSession, TypeOK
  <2> QED BY <1>3, <2>1, OpenEffect
<1>4. CASE UNCHANGED loop
  <2>1. loop.at = "forward" /\ loop.session \in Sessions /\ loop.client \in Clients
    BY <1>1, <1>4 DEF LoopKnowsItsPacket
  <2> DEFINE p == loop.session
  <2>2. phase = "running" =>
          sessions[loop.client] = p \/ Newest(p) \notin armed
    BY <2>1 DEF PacketKeepsItsSession
  <2>3. CASE CoreUnchanged
    BY <1>4, <2>2, <2>3 DEF CoreUnchanged, Newest
  <2>4. ASSUME NEW s \in Sessions, NEW g \in 0..MaxGen, TimerFires(s, g)
        PROVE  sessions'[loop'.client] = p \/ Newest(p)' \notin armed'
    BY <1>4, <2>2, <2>4 DEF TimerFires, Newest
  <2>5. ASSUME NEW s \in Sessions, NEW g \in 0..MaxGen, ExpireSession(s, g)
        PROVE  sessions'[loop'.client] = p \/ Newest(p)' \notin armed'
    <3>1. UNCHANGED <<phase, session, armed>>
      BY <2>5 DEF ExpireSession
    <3>2. CASE sessions'[loop.client] = sessions[loop.client]
      BY <1>4, <2>2, <3>1, <3>2 DEF Newest
    <3>3. CASE sessions'[loop.client] # sessions[loop.client]
      <4>1. IsCurrent(s, g)
        BY <2>5, <3>3 DEF ExpireSession
      <4>2. sessions' = [sessions EXCEPT ![session[s].client] = None]
        BY <2>5, <4>1 DEF ExpireSession
      <4>3. loop.client = session[s].client
        BY <1>1, <2>1, <3>3, <4>2 DEF TypeOK
      <4>4. sessions[loop.client] = s /\ session[s].gen = g
        BY <4>1, <4>3 DEF IsCurrent
      <4>5. <<s, g>> \in fired /\ armed \cap fired = {}
        BY <1>1, <2>5 DEF ExpireSession, TimersAreOfThePast
      <4>6. <<s, g>> \notin armed
        BY <4>5
      <4>7. p = s => Newest(p)' \notin armed'
        BY <1>4, <3>1, <4>4, <4>6 DEF Newest
      <4> QED BY <1>4, <2>2, <3>1, <4>4, <4>7 DEF Newest
    <3> QED BY <3>2, <3>3
  <2>6. ASSUME NEW s \in Sessions, ExpireUnlists(s)
        PROVE  sessions'[loop'.client] = p \/ Newest(p)' \notin armed'
    BY <1>4, <2>2, <2>6 DEF ExpireUnlists, Newest
  <2>7. ASSUME NEW s \in Sessions, ExpireCloses(s)
        PROVE  sessions'[loop'.client] = p \/ Newest(p)' \notin armed'
    <3>1. session'[p].gen = session[p].gen
      BY <2>1, <2>7, CloseEffect DEF ExpireCloses
    <3> QED BY <1>4, <2>2, <2>7, <3>1 DEF ExpireCloses, Newest
  <2>8. ~StopBegins /\ \A s \in Sessions : ~StopCloses(s)
    BY DEF StopBegins, StopCloses
  <2>9. ~RefreshSession /\ \A s \in Sessions, i \in SessionIds : ~OpenSession(s, i)
    BY <2>1 DEF RefreshSession, OpenSession
  <2> QED
    BY <1>4, <2>3, <2>4, <2>5, <2>6, <2>7, <2>8, <2>9, StepsOfTheCore DEF CoreStep
<1> QED BY <1>2, <1>3, <1>4, ForwardingBegins

\* Behind every entry there is a session: a step that leaves the entries, the
\* sessions and their expiries alone, or takes entries away, keeps it so.
Backed(i) == \E s \in Sessions :
               session[s].id = i /\ (Mapped(s) \/ expiring[s] = "unlist")

LEMMA StepKeepsGhostsAway ==
  ASSUME IInv, NoGhostEntries, [Next]_vars
  PROVE  NoGhostEntries'
<1>1. TypeOK /\ RegistryTypeOK /\ UnusedSessionsRest /\ LoopKnowsItsPacket
  BY DEF IInv, RegistryInv
<1> SUFFICES ASSUME NEW i \in SessionIds, entries'[i] # None,
                    phase' \notin {"stopping", "waiting"}
             PROVE  Backed(i)'
  BY DEF NoGhostEntries, Listed, Backed
<1>2. phase \notin {"stopping", "waiting"} /\ entries[i] # None => Backed(i)
  BY RegistryAssumption DEF NoGhostEntries, Listed, Backed
<1>3. ASSUME UNCHANGED <<phase, sessions, session, expiring>>,
             entries' = entries \/ \E ids \in SUBSET SessionIds : RemoveEntries(ids)
      PROVE  Backed(i)'
  <2>1. entries[i] # None
    BY <1>1, <1>3 DEF RemoveEntries, RegistryTypeOK
  <2> QED BY <1>2, <1>3, <2>1 DEF Backed, Mapped
<1>4. CASE UNCHANGED <<phase, sessions, session, expiring, entries>>
  BY <1>3, <1>4
<1>5. CASE Prune
  <2>1. aged \in SUBSET SessionIds
    BY <1>1 DEF RegistryTypeOK
  <2> QED BY <1>3, <1>5, <2>1 DEF Prune, PruneExpired, forwarderVars
<1>6. CASE RefreshSession
  <2>1. \A s \in Sessions : session'[s].client = session[s].client
                            /\ session'[s].id = session[s].id
    BY <1>1, <1>6, RefreshEffect DEF RefreshSession, TypeOK
  <2>2. UNCHANGED <<phase, sessions, expiring, entries>>
    BY <1>6 DEF RefreshSession, registryVars
  <2> QED BY <1>2, <2>1, <2>2 DEF Backed, Mapped
<1>7. ASSUME NEW s \in Sessions, NEW j \in SessionIds, OpenSession(s, j)
      PROVE  Backed(i)'
  <2>1. UNCHANGED <<phase, expiring>> /\ loop.client \in Clients
    BY <1>7, OpenEffect DEF OpenSession
  <2>2. CASE i = j
    <3>1. session'[s].id = i /\ session'[s].client = loop.client
      <4>1. session'[s] = [client |-> loop.client, gen |-> 0, id |-> j, conn |-> "open"]
        BY <1>7, OpenEffect
      <4> QED BY <2>2, <4>1
    <3>2. sessions'[loop.client] = s /\ loop.client # None
      BY <1>7, <2>1, OpenEffect, RegistryAssumption
    <3> QED BY <3>1, <3>2 DEF Backed, Mapped
  <2>3. CASE i # j
    <3>1. entries[i] # None
      BY <1>1, <1>7, <2>3 DEF OpenSession, OpenOrTouchSession, RegistryTypeOK
    <3>2. PICK t \in Sessions : session[t].id = i /\ (Mapped(t) \/ expiring[t] = "unlist")
      BY <1>2, <2>1, <3>1 DEF Backed
    <3>3. t # s
      BY <1>1, <1>7, <3>2, OpenEffect DEF UnusedSessionsRest, Mapped
    <3>4. session'[t] = session[t]
      BY <1>7, <3>3, OpenEffect
    <3>5. CASE Mapped(t)
      <4>1. session[t].client \in Clients /\ session[t].client # loop.client
        BY <1>1, <1>7, <3>5, UdpAssumption DEF TypeOK, Mapped, OpenSession
      <4>2. sessions'[session[t].client] = t
        BY <1>7, <3>5, <4>1, OpenEffect DEF Mapped
      <4> QED BY <3>2, <3>4, <3>5, <4>2 DEF Backed, Mapped
    <3>6. CASE expiring[t] = "unlist"
      BY <2>1, <3>2, <3>4, <3>6 DEF Backed
    <3> QED BY <3>2, <3>5, <3>6
  <2> QED BY <2>2, <2>3
<1>8. ASSUME NEW s \in Sessions, NEW g \in 0..MaxGen, ExpireSession(s, g)
      PROVE  Backed(i)'
  <2>1. UNCHANGED <<phase, session, entries>>
    BY <1>8 DEF ExpireSession, registryVars
  <2>2. PICK t \in Sessions : session[t].id = i /\ (Mapped(t) \/ expiring[t] = "unlist")
    BY <1>2, <2>1 DEF Backed
  <2>3. CASE ~IsCurrent(s, g)
    BY <1>8, <2>1, <2>2, <2>3 DEF ExpireSession, Backed, Mapped
  <2>4. CASE IsCurrent(s, g)
    <3>1. /\ sessions' = [sessions EXCEPT ![session[s].client] = None]
          /\ expiring' = [expiring EXCEPT ![s] = "unlist"]
      BY <1>8, <2>4 DEF ExpireSession
    <3>2. t = s => expiring'[t] = "unlist"
      BY <1>1, <3>1 DEF TypeOK
    <3>3. t # s => expiring'[t] = expiring[t]
      BY <1>1, <3>1 DEF TypeOK
    <3>4. ASSUME Mapped(t), t # s PROVE Mapped(t)'
      <4>1. session[t].client # session[s].client
        BY <2>4, <3>4 DEF IsCurrent, Mapped
      <4>2. sessions'[session[t].client] = t
        BY <1>1, <3>1, <3>4, <4>1 DEF TypeOK, Mapped
      <4> QED BY <2>1, <3>4, <4>2 DEF Mapped
    <3>5. Mapped(t)' \/ expiring'[t] = "unlist"
      BY <2>2, <3>2, <3>3, <3>4
    <3> QED BY <2>1, <2>2, <3>5 DEF Backed, Mapped
  <2> QED BY <2>3, <2>4
<1>9. ASSUME NEW s \in Sessions, ExpireUnlists(s) PROVE Backed(i)'
  <2>1. UNCHANGED <<phase, sessions, session>>
    BY <1>9 DEF ExpireUnlists
  <2>2. entries[i] # None /\ i # session[s].id
    BY <1>1, <1>9 DEF ExpireUnlists, CloseSession, RemoveEntries, RegistryTypeOK
  <2>3. PICK t \in Sessions : session[t].id = i /\ (Mapped(t) \/ expiring[t] = "unlist")
    BY <1>2, <2>1, <2>2 DEF Backed
  <2>4. t # s
    BY <2>2, <2>3
  <2>5. expiring'[t] = expiring[t]
    BY <1>1, <1>9, <2>4 DEF ExpireUnlists, TypeOK
  <2> QED BY <2>1, <2>3, <2>5 DEF Backed, Mapped
<1>10. ASSUME NEW s \in Sessions, ExpireCloses(s) PROVE Backed(i)'
  <2>1. UNCHANGED <<phase, sessions, entries>>
    BY <1>10 DEF ExpireCloses, registryVars
  <2>2. \A t \in Sessions : session'[t].client = session[t].client
                            /\ session'[t].id = session[t].id
    BY <1>1, <1>10 DEF ExpireCloses, CloseConn, TypeOK
  <2>3. \A t \in Sessions : expiring[t] = "unlist" => expiring'[t] = "unlist"
    BY <1>1, <1>10 DEF ExpireCloses, TypeOK
  <2> QED BY <1>2, <2>1, <2>2, <2>3 DEF Backed, Mapped
<1>11. CASE StopReturns
  BY <1>1, <1>11 DEF StopReturns, CloseSessionsForRule, RemoveEntries, RegistryTypeOK
<1>12. /\ ~StopBegins /\ ~StopClosesListener
       /\ \A s \in Sessions : ~StopCloses(s)
  BY DEF StopBegins, StopClosesListener, StopCloses
<1>13. /\ \A c \in Clients :
             ReadPacket(c) => UNCHANGED <<phase, sessions, session, expiring, entries>>
       /\ LoopEnds => UNCHANGED <<phase, sessions, session, expiring, entries>>
       /\ DialFails => UNCHANGED <<phase, sessions, session, expiring, entries>>
       /\ ForwardPacket => UNCHANGED <<phase, sessions, session, expiring, entries>>
       /\ UNCHANGED vars => UNCHANGED <<phase, sessions, session, expiring, entries>>
  BY DEF ReadPacket, LoopEnds, DialFails, ForwardPacket, RecordInbound, registryVars,
         vars, forwarderVars
<1>14. /\ \A s \in Sessions :
            /\ ReaderFails(s) => UNCHANGED <<phase, sessions, session, expiring, entries>>
            /\ \A g \in 0..MaxGen : TimerFires(s, g) =>
                 UNCHANGED <<phase, sessions, session, expiring, entries>>
       /\ \A j \in SessionIds :
            EntryAges(j) => UNCHANGED <<phase, sessions, session, expiring, entries>>
  BY DEF ReaderFails, TimerFires, EntryAges, Age, registryVars, forwarderVars
<1> QED
  BY <1>4, <1>5, <1>6, <1>7, <1>8, <1>9, <1>10, <1>11, <1>12, <1>13, <1>14 DEF Next

\* Nothing is listed that is gone, whatever the order in which expiries,
\* prunings, new packets and Stop call the registry.
THEOREM NothingListedIsGone == Spec => []NoGhostEntries
<1>1. Init => NoGhostEntries
  BY DEF Init, RegistryInit, NoGhostEntries, Listed
<1>2. IInv /\ NoGhostEntries /\ [Next]_vars => NoGhostEntries'
  BY StepKeepsGhostsAway
<1> QED BY <1>1, <1>2, Invariance, PTL DEF Spec

\* A running forwarder closes the socket of the packet in hand only when the
\* timer that this packet has set goes off.
THEOREM PacketsReachTheirSockets == Spec => []PacketsLostOnlyToTimeouts
<1>1. Init => PacketKeepsItsSession
  BY DEF Init, Idle, PacketKeepsItsSession
<1>2. IInv /\ PacketKeepsItsSession /\ [Next]_vars => PacketKeepsItsSession'
  BY StepKeepsThePacket
<1>3. IInv /\ PacketKeepsItsSession => PacketsLostOnlyToTimeouts
  <2> SUFFICES ASSUME IInv, PacketKeepsItsSession,
                      loop.at = "forward", ~IsOpen(loop.session), phase = "running"
               PROVE  Newest(loop.session) \notin armed
    BY DEF PacketsLostOnlyToTimeouts
  <2>1. loop.client \in Clients /\ loop.session \in Sessions
    BY DEF IInv, LoopKnowsItsPacket
  <2>2. loop.session # None
    BY <2>1, UdpAssumption
  <2>3. sessions[loop.client] # loop.session
    BY <2>1, <2>2 DEF IInv, MappedSessionsAreUsable
  <2> QED BY <2>3 DEF PacketKeepsItsSession
<1> QED BY <1>1, <1>2, <1>3, Invariance, PTL DEF Spec

-----------------------------------------------------------------------------
(***************************************************************************)
(* The forwarder whose clients share one target.                           *)
(***************************************************************************)

-----------------------------------------------------------------------------
\* Only the id i is listed, if any, and as the client c's.
ListedAs(c, i) == \A j \in SessionIds : Listed(j) => entries[j] = c /\ j = i

\* A packet in hand has a client; an entry to close, or to note, has an id.
SharedLoopKnowsItsPacket ==
  /\ loop.at \in {"packet", "displace", "open", "note"} => loop.client \in Clients
  /\ loop.at \in {"displace", "note"} => loop.id \in SessionIds

\* What is listed at each point of the listen loop in last-client mode: the
\* two locks are taken apart, so in between it is the packet that knows.
ListedAtEachPoint ==
  LastClientMode /\ phase = "running" =>
    /\ loop.at \in {"read", "packet"} => ListedAs(lastClient, lastSessionID)
    /\ loop.at \in {"displace", "open", "note"} => lastClient = loop.client
    /\ loop.at = "displace" => \A j \in SessionIds : Listed(j) => j = loop.id
    /\ loop.at = "open" => ListedAs(loop.client, lastSessionID)
    /\ loop.at = "note" => ListedAs(loop.client, loop.id)

\* If Stop has waited for the loop nobody opens an entry after it.  If not, the
\* packet in hand does, once; there is no packet after it.
NobodyOpensAfterStop ==
  phase = "stopped" =>
    /\ ~gaveUp => loop.at = "ended"
    /\ (~gaveUp \/ loop.at \in {"packet", "displace", "open"}) =>
         \A i \in SessionIds : ~Listed(i)
    /\ \A i, j \in SessionIds : Listed(i) /\ Listed(j) => i = j

SharedIInv ==
  /\ SharedTypeOK
  /\ RegistryInv
  /\ SharedLoopKnowsItsPacket
  /\ ListedAtEachPoint
  /\ NobodyOpensAfterStop

LEMMA SharedInitIsFine == SharedInit => SharedIInv
<1> SUFFICES ASSUME SharedInit PROVE SharedIInv
  OBVIOUS
<1> USE RegistryAssumption
<1>1. SharedTypeOK
  BY DEF SharedInit, SharedTypeOK, RegistryTypeOK, RegistryInit, SharedIdle, Phases
<1>2. RegistryInv
  BY <1>1 DEF SharedTypeOK, RegistryInv, SharedInit, RegistryInit, MapsAgree,
              ListedWereDrawn, Listed, RegistryTypeOK
<1>3. /\ loop.at = "read" /\ phase = "running"
      /\ \A i \in SessionIds : ~Listed(i)
  BY DEF SharedInit, RegistryInit, SharedIdle, Listed
<1>4. SharedLoopKnowsItsPacket /\ ListedAtEachPoint /\ NobodyOpensAfterStop
  BY <1>3 DEF SharedLoopKnowsItsPacket, ListedAtEachPoint, NobodyOpensAfterStop, ListedAs
<1> QED BY <1>1, <1>2, <1>4 DEF SharedIInv

-----------------------------------------------------------------------------
(***************************************************************************)
(* Types, the registry, and the packet in hand.                            *)
(***************************************************************************)

\* The registry changes by its own operations only.
LEMMA SharedStepKeepsRegistry ==
  ASSUME SharedIInv, [SharedNext]_sharedVars
  PROVE  RegistryInv'
<1>1. RegistryInv /\ aged \in SUBSET SessionIds
  BY DEF SharedIInv, RegistryInv, RegistryTypeOK
<1>2. ASSUME NEW a \in SUBSET SessionIds, aged' = a, UNCHANGED <<entries, keyToID, drawn>>
      PROVE  RegistryInv'
  BY <1>1, <1>2 DEF RegistryInv, RegistryTypeOK, MapsAgree, ListedWereDrawn, Listed
<1>3. ASSUME UNCHANGED registryVars PROVE RegistryInv'
  BY <1>1, <1>2, <1>3 DEF registryVars
<1>4. CASE DisplaceSession
  BY <1>1, <1>4, RemoveKeepsRegistry
      DEF DisplaceSession, CloseSession, RemoveEntries
<1>5. ASSUME NEW i \in SessionIds, OpenEntry(i) PROVE RegistryInv'
  <2>1. loop.client \in Clients
    BY <1>5 DEF SharedIInv, SharedLoopKnowsItsPacket, OpenEntry
  <2> QED BY <1>1, <1>5, <2>1, OpenKeepsRegistry DEF OpenEntry, OpenOrTouchSession, Listed
<1>6. CASE SharedStopReturns
  BY <1>1, <1>6, RemoveKeepsRegistry
      DEF SharedStopReturns, CloseSessionsForRule, RemoveEntries
<1>7. ASSUME NEW i \in SessionIds, SharedEntryAges(i) PROVE RegistryInv'
  BY <1>1, <1>2, <1>7 DEF SharedEntryAges, Age
<1>8. CASE SharedPrune
  BY <1>1, <1>8, RemoveKeepsRegistry DEF SharedPrune, PruneExpired, RemoveEntries
<1>9. /\ \A c \in Clients : SharedReadPacket(c) => UNCHANGED registryVars
      /\ SharedLoopEnds => UNCHANGED registryVars
      /\ BecomeLastClient => UNCHANGED registryVars
      /\ NoteSession => UNCHANGED registryVars
      /\ ReplyArrives => UNCHANGED registryVars
      /\ SendReply => UNCHANGED registryVars
      /\ ReaderEnds => UNCHANGED registryVars
      /\ SharedStopBegins => UNCHANGED registryVars
      /\ StopClosesSockets => UNCHANGED registryVars
      /\ UNCHANGED sharedVars => UNCHANGED registryVars
  BY DEF SharedReadPacket, SharedLoopEnds, BecomeLastClient, NoteSession, ReplyArrives,
         SendReply, ReaderEnds, SharedStopBegins, StopClosesSockets, sharedVars,
         registryVars
<1> QED BY <1>3, <1>4, <1>5, <1>6, <1>7, <1>8, <1>9 DEF SharedNext

\* The variables of the forwarder itself.
ForwarderTypeOK ==
  /\ mode \in Modes
  /\ phase \in Phases
  /\ loop \in [at: {"read", "packet", "displace", "open", "note", "ended"},
               client: Clients \cup {None}, id: SessionIds \cup {None}]
  /\ reply \in [at: {"read", "send", "ended"}, client: Clients \cup {None}]
  /\ lastClient \in Clients \cup {None}
  /\ lastSessionID \in SessionIds \cup {None}
  /\ gaveUp \in BOOLEAN

LEMMA SharedStepKeepsTypes ==
  ASSUME SharedIInv, [SharedNext]_sharedVars
  PROVE  SharedTypeOK' /\ SharedLoopKnowsItsPacket'
<1> SUFFICES ForwarderTypeOK' /\ SharedLoopKnowsItsPacket'
  BY SharedStepKeepsRegistry DEF SharedTypeOK, ForwarderTypeOK, RegistryInv,
                                 RegistryTypeOK
<1>1. ForwarderTypeOK /\ SharedLoopKnowsItsPacket
  BY DEF SharedIInv, SharedTypeOK, ForwarderTypeOK, RegistryTypeOK
<1>2. ASSUME NEW c \in Clients, SharedReadPacket(c)
      PROVE  ForwarderTypeOK' /\ SharedLoopKnowsItsPacket'
  BY <1>1, <1>2 DEF ForwarderTypeOK, SharedLoopKnowsItsPacket, SharedReadPacket
<1>3. CASE SharedLoopEnds
  BY <1>1, <1>3 DEF ForwarderTypeOK, SharedLoopKnowsItsPacket, SharedLoopEnds,
                    SharedIdle
<1>4. CASE BecomeLastClient
  BY <1>1, <1>4 DEF ForwarderTypeOK, SharedLoopKnowsItsPacket, BecomeLastClient
<1>5. CASE DisplaceSession
  BY <1>1, <1>5 DEF ForwarderTypeOK, SharedLoopKnowsItsPacket, DisplaceSession
<1>6. ASSUME NEW i \in SessionIds, OpenEntry(i)
      PROVE  ForwarderTypeOK' /\ SharedLoopKnowsItsPacket'
  BY <1>1, <1>6 DEF ForwarderTypeOK, SharedLoopKnowsItsPacket, OpenEntry,
                    SharedIdle
<1>7. CASE NoteSession
  BY <1>1, <1>7 DEF ForwarderTypeOK, SharedLoopKnowsItsPacket, NoteSession,
                    SharedIdle
<1>8. CASE ReplyArrives \/ SendReply \/ ReaderEnds
  BY <1>1, <1>8 DEF ForwarderTypeOK, SharedLoopKnowsItsPacket, ReplyArrives,
                    SendReply, ReaderEnds
<1>9. CASE SharedStopBegins \/ StopClosesSockets \/ SharedStopReturns
  BY <1>1, <1>9 DEF ForwarderTypeOK, SharedLoopKnowsItsPacket, SharedStopBegins,
                    StopClosesSockets, SharedStopReturns, Phases
<1>10. CASE UNCHANGED <<mode, sharedForwarderVars>>
  BY <1>1, <1>10 DEF ForwarderTypeOK, SharedLoopKnowsItsPacket, sharedForwarderVars
<1>11. /\ \A i \in SessionIds :
            SharedEntryAges(i) => UNCHANGED <<mode, sharedForwarderVars>>
       /\ SharedPrune => UNCHANGED <<mode, sharedForwarderVars>>
       /\ UNCHANGED sharedVars => UNCHANGED <<mode, sharedForwarderVars>>
  BY DEF SharedEntryAges, SharedPrune, sharedVars
<1> QED
  BY <1>2, <1>3, <1>4, <1>5, <1>6, <1>7, <1>8, <1>9, <1>10, <1>11 DEF SharedNext

-----------------------------------------------------------------------------
(***************************************************************************)
(* What is listed.                                                         *)
(***************************************************************************)

\* Whoever removes entries leaves those of the others as they were.
LEMMA RemovalListsLess ==
  ASSUME RegistryTypeOK, NEW ids, RemoveEntries(ids)
  PROVE  \A j \in SessionIds :
           /\ Listed(j)' => Listed(j) /\ entries'[j] = entries[j]
           /\ j \in ids => ~Listed(j)'
BY DEF RegistryTypeOK, RemoveEntries, Listed

LEMMA StepKeepsListing ==
  ASSUME SharedIInv, [SharedNext]_sharedVars
  PROVE  ListedAtEachPoint'
<1> USE RegistryAssumption
<1>1. RegistryTypeOK /\ ForwarderTypeOK /\ SharedLoopKnowsItsPacket
  BY DEF SharedIInv, SharedTypeOK, ForwarderTypeOK, RegistryTypeOK
<1>2. mode' = mode
  BY DEF SharedNext, SharedReadPacket, SharedLoopEnds, BecomeLastClient,
         DisplaceSession, OpenEntry, NoteSession,
         ReplyArrives, SendReply, ReaderEnds, SharedStopBegins,
         StopClosesSockets, SharedStopReturns, SharedEntryAges, SharedPrune,
         sharedVars
<1>3. phase' = "running" => phase = "running"
  BY DEF SharedNext, SharedReadPacket, SharedLoopEnds, BecomeLastClient,
         DisplaceSession, OpenEntry, NoteSession,
         ReplyArrives, SendReply, ReaderEnds, SharedStopBegins,
         StopClosesSockets, SharedStopReturns, SharedEntryAges, SharedPrune,
         sharedVars, sharedForwarderVars
<1> SUFFICES ASSUME LastClientMode, phase = "running", phase' = "running"
             PROVE  ListedAtEachPoint'
  BY <1>2, <1>3 DEF ListedAtEachPoint, LastClientMode
<1>4. /\ loop.at \in {"read", "packet"} => ListedAs(lastClient, lastSessionID)
      /\ loop.at \in {"displace", "open", "note"} => lastClient = loop.client
      /\ loop.at = "displace" => \A j \in SessionIds : Listed(j) => j = loop.id
      /\ loop.at = "open" => ListedAs(loop.client, lastSessionID)
      /\ loop.at = "note" => ListedAs(loop.client, loop.id)
  BY DEF SharedIInv, ListedAtEachPoint
<1>5. ASSUME UNCHANGED <<loop, lastClient, lastSessionID>>,
             \A j \in SessionIds : Listed(j)' => Listed(j) /\ entries'[j] = entries[j]
      PROVE  ListedAtEachPoint'
  BY <1>4, <1>5 DEF ListedAtEachPoint, ListedAs
<1>6. ASSUME NEW c \in Clients, SharedReadPacket(c) PROVE ListedAtEachPoint'
  <2>1. /\ loop.at = "read" /\ loop'.at = "packet"
        /\ UNCHANGED <<lastClient, lastSessionID, entries>>
    BY <1>6 DEF SharedReadPacket, registryVars
  <2> QED BY <1>4, <2>1 DEF ListedAtEachPoint, ListedAs, Listed
<1>7. CASE SharedLoopEnds
  <2>1. loop'.at = "ended"
    BY <1>7 DEF SharedLoopEnds, SharedIdle
  <2> QED BY <2>1 DEF ListedAtEachPoint
<1>8. CASE BecomeLastClient
  <2>1. /\ loop.at = "packet" /\ loop'.client = loop.client /\ lastClient' = loop.client
        /\ UNCHANGED <<lastSessionID, entries>>
    BY <1>1, <1>8 DEF BecomeLastClient, ForwarderTypeOK, registryVars
  <2>2. ListedAs(lastClient, lastSessionID)
    BY <1>4, <2>1
  <2>3. CASE lastClient \notin {None, loop.client} /\ lastSessionID # None
    <3>1. loop'.at = "displace" /\ loop'.id = lastSessionID
      BY <1>1, <1>8, <2>3 DEF BecomeLastClient, ForwarderTypeOK
    <3> QED BY <2>1, <2>2, <3>1 DEF ListedAtEachPoint, ListedAs, Listed
  <2>4. CASE ~(lastClient \notin {None, loop.client} /\ lastSessionID # None)
    <3>1. loop'.at = "open"
      BY <1>1, <1>8, <2>4 DEF BecomeLastClient, ForwarderTypeOK
    <3>2. ListedAs(loop.client, lastSessionID)
      BY <2>2, <2>4 DEF ListedAs, Listed
    <3> QED BY <2>1, <3>1, <3>2 DEF ListedAtEachPoint, ListedAs, Listed
  <2> QED BY <2>3, <2>4
<1>9. CASE DisplaceSession
  <2>1. /\ loop.at = "displace" /\ loop'.at = "open" /\ loop'.client = loop.client
        /\ UNCHANGED <<lastClient, lastSessionID>>
    BY <1>1, <1>9 DEF DisplaceSession, ForwarderTypeOK
  <2>2. loop.id \in SessionIds /\ RemoveEntries({loop.id} \cap SessionIds)
    BY <1>1, <1>9, <2>1 DEF DisplaceSession, CloseSession, SharedLoopKnowsItsPacket,
                            RemoveEntries
  <2>3. \A j \in SessionIds : ~Listed(j)'
    BY <1>1, <1>4, <2>1, <2>2, RemovalListsLess
  <2> QED BY <1>4, <2>1, <2>3 DEF ListedAtEachPoint, ListedAs
<1>10. ASSUME NEW i \in SessionIds, OpenEntry(i) PROVE ListedAtEachPoint'
  <2>1. /\ loop.at = "open" /\ loop'.at = "note" /\ loop'.client = loop.client
        /\ loop'.id = i /\ lastClient' = lastClient
    BY <1>1, <1>10 DEF OpenEntry, ForwarderTypeOK
  <2>2. loop.client \in Clients /\ OpenOrTouchSession(loop.client, i)
    BY <1>1, <1>10, <2>1 DEF OpenEntry, SharedLoopKnowsItsPacket, OpenOrTouchSession,
                             Listed
  <2>3. ASSUME NEW j \in SessionIds, Listed(j)'
        PROVE  entries'[j] = loop.client /\ j = i
    <3>1. entries'[j] = IF j = i THEN loop.client ELSE entries[j]
      BY <1>1, <2>2 DEF OpenOrTouchSession, RegistryTypeOK
    <3>2. CASE j # i
      <4>1. Listed(j)
        BY <2>3, <3>1, <3>2 DEF Listed
      <4>2. entries[j] = loop.client
        BY <1>4, <2>1, <4>1 DEF ListedAs
      <4>3. keyToID[loop.client] = j
        BY <2>2, <4>2 DEF SharedIInv, RegistryInv, MapsAgree
      <4> QED BY <2>2, <3>2, <4>1, <4>3 DEF OpenOrTouchSession, Listed
    <3> QED BY <3>1, <3>2
  <2> QED BY <1>4, <2>1, <2>3 DEF ListedAtEachPoint, ListedAs
<1>11. CASE NoteSession
  <2>1. /\ loop.at = "note" /\ loop'.at = "read" /\ lastSessionID' = loop.id
        /\ UNCHANGED <<lastClient, entries>>
    BY <1>11 DEF NoteSession, SharedIdle, registryVars
  <2> QED BY <1>4, <2>1 DEF ListedAtEachPoint, ListedAs, Listed
<1>12. CASE SharedPrune
  <2>1. UNCHANGED <<loop, lastClient, lastSessionID>> /\ RemoveEntries(aged)
    BY <1>12 DEF SharedPrune, PruneExpired, sharedForwarderVars, RemoveEntries
  <2> QED BY <1>1, <1>5, <2>1, RemovalListsLess
<1>13. ASSUME UNCHANGED <<loop, lastClient, lastSessionID, entries>>
       PROVE  ListedAtEachPoint'
  BY <1>5, <1>13 DEF Listed
<1>14. /\ ReplyArrives => UNCHANGED <<loop, lastClient, lastSessionID, entries>>
       /\ SendReply => UNCHANGED <<loop, lastClient, lastSessionID, entries>>
       /\ ReaderEnds => UNCHANGED <<loop, lastClient, lastSessionID, entries>>
       /\ \A i \in SessionIds :
            SharedEntryAges(i) => UNCHANGED <<loop, lastClient, lastSessionID, entries>>
       /\ UNCHANGED sharedVars => UNCHANGED <<loop, lastClient, lastSessionID, entries>>
  BY DEF ReplyArrives, SendReply, ReaderEnds, SharedEntryAges, Age, sharedVars,
         sharedForwarderVars, registryVars
<1>15. ~SharedStopBegins /\ ~StopClosesSockets /\ ~SharedStopReturns
  BY DEF SharedStopBegins, StopClosesSockets, SharedStopReturns
<1> QED
  BY <1>6, <1>7, <1>8, <1>9, <1>10, <1>11, <1>12, <1>13, <1>14, <1>15 DEF SharedNext

LEMMA StepKeepsStopped ==
  ASSUME SharedIInv, [SharedNext]_sharedVars
  PROVE  NobodyOpensAfterStop'
<1> USE RegistryAssumption
<1>1. RegistryTypeOK /\ ForwarderTypeOK /\ NobodyOpensAfterStop
  BY DEF SharedIInv, SharedTypeOK, RegistryTypeOK, ForwarderTypeOK
<1> SUFFICES ASSUME phase' = "stopped" PROVE NobodyOpensAfterStop'
  BY DEF NobodyOpensAfterStop
<1>2. CASE SharedStopReturns
  <2>1. RemoveEntries(SessionIds)
    BY <1>2 DEF SharedStopReturns, CloseSessionsForRule, RemoveEntries
  <2>2. \A i \in SessionIds : ~Listed(i)'
    BY <1>1, <2>1, RemovalListsLess
  <2>3. ~gaveUp' => loop'.at = "ended"
    BY <1>2 DEF SharedStopReturns
  <2> QED BY <2>2, <2>3 DEF NobodyOpensAfterStop
<1>3. CASE phase = "stopped" /\ ~SharedStopReturns
  <2>1. /\ gaveUp' = gaveUp
        /\ \A c \in Clients : ~SharedReadPacket(c)
        /\ ~ReplyArrives /\ ~SharedStopBegins /\ ~StopClosesSockets
    BY <1>3 DEF SharedNext, SharedReadPacket, SharedLoopEnds, BecomeLastClient,
                DisplaceSession, OpenEntry, NoteSession, ReplyArrives, SendReply,
                ReaderEnds, SharedStopBegins, StopClosesSockets, SharedEntryAges,
                SharedPrune, sharedVars, sharedForwarderVars
  <2>2. ASSUME loop' = loop,
               \A j \in SessionIds : Listed(j)' => Listed(j)
        PROVE  NobodyOpensAfterStop'
    BY <1>1, <1>3, <2>1, <2>2 DEF NobodyOpensAfterStop
  <2>3. CASE SharedLoopEnds
    <3>1. loop'.at = "ended" /\ loop.at = "read" /\ entries' = entries
      BY <2>3 DEF SharedLoopEnds, SharedIdle, registryVars
    <3> QED BY <1>1, <1>3, <2>1, <3>1 DEF NobodyOpensAfterStop, Listed
  <2>4. CASE BecomeLastClient
    <3>1. loop.at = "packet" /\ loop'.at \in {"displace", "open"} /\ entries' = entries
      BY <1>1, <2>4 DEF BecomeLastClient, ForwarderTypeOK, registryVars
    <3> QED BY <1>1, <1>3, <2>1, <3>1 DEF NobodyOpensAfterStop, Listed
  <2>5. CASE DisplaceSession
    <3>1. loop.at = "displace" /\ RemoveEntries({loop.id} \cap SessionIds)
      BY <2>5 DEF DisplaceSession, CloseSession, RemoveEntries
    <3>2. gaveUp /\ \A j \in SessionIds : ~Listed(j)
      BY <1>1, <1>3, <3>1 DEF NobodyOpensAfterStop
    <3>3. \A j \in SessionIds : ~Listed(j)'
      BY <1>1, <3>1, <3>2, RemovalListsLess
    <3> QED BY <2>1, <3>2, <3>3 DEF NobodyOpensAfterStop
  <2>6. ASSUME NEW i \in SessionIds, OpenEntry(i) PROVE NobodyOpensAfterStop'
    <3>1. /\ loop.at = "open" /\ loop'.at \in {"note", "read"}
          /\ entries' = [entries EXCEPT ![i] = loop.client]
      BY <1>1, <2>6 DEF OpenEntry, OpenOrTouchSession, SharedIdle, ForwarderTypeOK
    <3>2. gaveUp /\ \A j \in SessionIds : ~Listed(j)
      BY <1>1, <1>3, <3>1 DEF NobodyOpensAfterStop
    <3>3. \A j \in SessionIds : Listed(j)' => j = i
      BY <1>1, <3>1, <3>2 DEF Listed, RegistryTypeOK
    <3> QED BY <2>1, <3>1, <3>2, <3>3 DEF NobodyOpensAfterStop
  <2>7. CASE NoteSession
    <3>1. loop.at = "note" /\ loop'.at = "read" /\ entries' = entries
      BY <2>7 DEF NoteSession, SharedIdle, registryVars
    <3> QED BY <1>1, <1>3, <2>1, <3>1 DEF NobodyOpensAfterStop, Listed
  <2>8. CASE SharedPrune
    <3>1. loop' = loop /\ RemoveEntries(aged)
      BY <2>8 DEF SharedPrune, PruneExpired, sharedForwarderVars, RemoveEntries
    <3> QED BY <1>1, <2>2, <3>1, RemovalListsLess
  <2>9. CASE UNCHANGED <<loop, entries>>
    BY <2>2, <2>9 DEF Listed
  <2>10. /\ SendReply => UNCHANGED <<loop, entries>>
         /\ ReaderEnds => UNCHANGED <<loop, entries>>
         /\ \A i \in SessionIds : SharedEntryAges(i) => UNCHANGED <<loop, entries>>
         /\ UNCHANGED sharedVars => UNCHANGED <<loop, entries>>
    BY DEF SendReply, ReaderEnds, SharedEntryAges, Age, sharedVars, sharedForwarderVars,
           registryVars
  <2> QED BY <1>3, <2>1, <2>3, <2>4, <2>5, <2>6, <2>7, <2>8, <2>9, <2>10 DEF SharedNext
<1>4. CASE phase # "stopped" /\ ~SharedStopReturns
  BY <1>4 DEF SharedNext, SharedReadPacket, SharedLoopEnds, BecomeLastClient,
              DisplaceSession, OpenEntry, NoteSession,
              ReplyArrives, SendReply, ReaderEnds, SharedStopBegins,
              StopClosesSockets, SharedEntryAges, SharedPrune, sharedVars,
              sharedForwarderVars
<1> QED BY <1>2, <1>3, <1>4

-----------------------------------------------------------------------------
(***************************************************************************)
(* The theorems.                                                           *)
(***************************************************************************)

LEMMA SharedInvariance == SharedSpec => []SharedIInv
<1>1. SharedIInv /\ [SharedNext]_sharedVars => SharedIInv'
  BY SharedStepKeepsTypes, SharedStepKeepsRegistry, StepKeepsListing, StepKeepsStopped
      DEF SharedIInv
<1> QED BY SharedInitIsFine, <1>1, PTL DEF SharedSpec

\* In last-client mode nobody but the last client is listed between two packets,
\* in either mode nothing once Stop has waited for its loops, and one entry at most
\* when it has not: for any number of clients, and whatever the order in which
\* packets, prunings and Stop take the two locks.
THEOREM SharedListingIsCurrent == SharedSpec => []ListingIsCurrent
<1>1. SharedIInv => ListingIsCurrent
  <2> SUFFICES ASSUME SharedIInv PROVE OnlyTheLastClientIsListed /\ StoppedRuleIsNotListed
    BY DEF SharedIInv, ListingIsCurrent
  <2>1. OnlyTheLastClientIsListed
    BY DEF SharedIInv, ListedAtEachPoint, ListedAs, OnlyTheLastClientIsListed, Listed
  <2>2. StoppedRuleIsNotListed
    BY DEF SharedIInv, NobodyOpensAfterStop, StoppedRuleIsNotListed, Listed
  <2> QED BY <2>1, <2>2
<1> QED BY <1>1, SharedInvariance, PTL

\* The registry's two maps stay inverse to each other, also under this forwarder,
\* which closes the entries of a client it no longer answers.
THEOREM SharedMapsAgree == SharedSpec => []MapsAgree
<1>1. SharedIInv => MapsAgree
  BY DEF SharedIInv, RegistryInv
<1> QED BY <1>1, SharedInvariance, PTL

===============================================================================
