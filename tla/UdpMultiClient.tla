--------------------------- MODULE UdpMultiClient ---------------------------
(***************************************************************************)
(* A UDP forwarder in bidirectional-multi-client mode after its Start      *)
(* (service/sources/forwarders/udp.go), with its session registry.         *)
(*                                                                         *)
(* Processes: the listen loop, which handles one packet at a time; a read  *)
(* loop per session; the goroutines of idle timers that fired; Stop; and   *)
(* the pruning loops of this and other forwarders.  What runs under the    *)
(* forwarder's lock (f.mu) is one step, and so is every registry call and  *)
(* every close of a socket outside it.                                     *)
(*                                                                         *)
(* Time is not modelled: an armed timer may fire at any moment, Stop's two *)
(* seconds may be over at any moment.  Payloads, counters, activity events *)
(* and log lines are left out.                                             *)
(***************************************************************************)
EXTENDS UdpForwarder

CONSTANTS
  Sessions,      \* identities of udpSession objects, each with its own socket
  MaxGen,        \* bound: how often a session is refreshed
  MaxReadErrors, \* bound: how many read loops fail
  ClockMayJump   \* whether the wall clock may run ahead of the idle timers

ASSUME UdpAssumption ==
  /\ None \notin Sessions
  /\ MaxGen \in Nat
  /\ MaxReadErrors \in Nat
  /\ ClockMayJump \in BOOLEAN

VARIABLES
  sessions,  \* f.sessions
  session,   \* the udpSession objects, with the state of their conn
  armed,     \* idle timers that are set, <<session, captured gen>>
  fired,     \* expireSession goroutines not yet past the lock
  expiring,  \* how far expireSession is with a session it removed
  taken,     \* the sessions Stop removed and has yet to close
  deaf       \* the sessions whose sessionReadLoop ended on an error of its own

forwarderVars == <<phase, loop, sessions, session, armed, fired, expiring,
                   taken, deaf>>
vars == <<forwarderVars, registryVars>>

Unused == [client |-> None, gen |-> 0, id |-> None, conn |-> "none"]
Idle   == [at |-> "read", client |-> None, session |-> None]

TypeOK ==
  /\ RegistryTypeOK
  /\ phase \in Phases
  /\ loop \in [at: {"read", "packet", "forward", "ended"},
               client: Clients \cup {None}, session: Sessions \cup {None}]
  /\ sessions \in [Clients -> Sessions \cup {None}]
  /\ session \in [Sessions -> [client: Clients \cup {None}, gen: 0..MaxGen,
                               id: SessionIds \cup {None},
                               conn: {"none", "open", "closed"}]]
  /\ armed \subseteq Sessions \X (0..MaxGen)
  /\ fired \subseteq Sessions \X (0..MaxGen)
  /\ expiring \in [Sessions -> {"no", "unlist", "close"}]
  /\ taken \subseteq Sessions
  /\ deaf \subseteq Sessions

Init ==
  /\ RegistryInit
  /\ phase = "running"
  /\ loop = Idle
  /\ sessions = [c \in Clients |-> None]
  /\ session = [s \in Sessions |-> Unused]
  /\ armed = {}
  /\ fired = {}
  /\ expiring = [s \in Sessions |-> "no"]
  /\ taken = {}
  /\ deaf = {}

Mapped(s) == session[s].client # None /\ sessions[session[s].client] = s
Newest(s) == <<s, session[s].gen>>
IsOpen(s) == session[s].conn = "open"

CloseConn(s) == session' = [session EXCEPT ![s].conn = "closed"]

-----------------------------------------------------------------------------
(***************************************************************************)
(* The listen loop.                                                        *)
(***************************************************************************)

\* Bound: the packet can be served with the objects and generations left.
WithinBounds(c) ==
  IF sessions[c] = None
    THEN (\E s \in Sessions : session[s] = Unused) /\ drawn # SessionIds
    ELSE session[sessions[c]].gen < MaxGen

ReadPacket(c) ==
  /\ loop.at = "read" /\ phase \in {"running", "stopping"}
  /\ WithinBounds(c)
  /\ loop' = [at |-> "packet", client |-> c, session |-> None]
  /\ UNCHANGED <<phase, sessions, session, armed, fired, expiring, taken,
                 deaf, registryVars>>

\* ReadFromUDP fails: Stop has closed the listen socket, or it fails by itself.
LoopEnds ==
  /\ loop.at = "read"
  /\ loop' = [Idle EXCEPT !.at = "ended"]
  /\ UNCHANGED <<phase, sessions, session, armed, fired, expiring, taken,
                 deaf, registryVars>>

\* Mutant: the timer is reset but the generation stays, so a timer that had
\* fired before cannot be told from the new one.
MutantRefreshKeepsGeneration ==
  LET s == sessions[loop.client] IN
  /\ loop.at = "packet" /\ s # None
  /\ armed' = armed \cup {Newest(s)}
  /\ loop' = [loop EXCEPT !.at = "forward", !.session = s]
  /\ UNCHANGED <<phase, sessions, session, fired, expiring, taken, deaf,
                 registryVars>>

\* A known client: the old timer is stopped, unless it has fired already, and
\* one with the next generation takes its place.
RefreshSession ==
  LET s == sessions[loop.client] IN
  /\ loop.at = "packet" /\ s # None
  /\ session[s].gen < MaxGen
  /\ session' = [session EXCEPT ![s].gen = @ + 1]
  /\ armed' = (armed \ {Newest(s)}) \cup {<<s, session[s].gen + 1>>}
  /\ loop' = [loop EXCEPT !.at = "forward", !.session = s]
  /\ UNCHANGED <<phase, sessions, fired, expiring, taken, deaf,
                 registryVars>>

\* A new client: a target socket, a registry entry, a timer and a read loop.
\* Nothing here looks at f.running.
OpenSession(s, i) ==
  /\ loop.at = "packet" /\ sessions[loop.client] = None
  /\ session[s] = Unused
  /\ OpenOrTouchSession(loop.client, i)
  /\ session' = [session EXCEPT ![s] = [client |-> loop.client, gen |-> 0,
                                        id |-> i, conn |-> "open"]]
  /\ sessions' = [sessions EXCEPT ![loop.client] = s]
  /\ armed' = armed \cup {<<s, 0>>}
  /\ loop' = [loop EXCEPT !.at = "forward", !.session = s]
  /\ UNCHANGED <<phase, fired, expiring, taken, deaf>>

\* The target does not resolve or cannot be dialled: the packet is dropped.
DialFails ==
  /\ loop.at = "packet" /\ sessions[loop.client] = None
  /\ loop' = Idle
  /\ UNCHANGED <<phase, sessions, session, armed, fired, expiring, taken,
                 deaf, registryVars>>

\* The packet is counted and written to the session's socket.
ForwardPacket ==
  /\ loop.at = "forward"
  /\ RecordInbound(session[loop.session].id)
  /\ loop' = Idle
  /\ UNCHANGED <<phase, sessions, session, armed, fired, expiring, taken,
                 deaf>>

-----------------------------------------------------------------------------
(***************************************************************************)
(* Idle timers.                                                            *)
(***************************************************************************)

TimerFires(s, g) ==
  /\ <<s, g>> \in armed
  /\ armed' = armed \ {<<s, g>>}
  /\ fired' = fired \cup {<<s, g>>}
  /\ UNCHANGED <<phase, loop, sessions, session, expiring, taken, deaf,
                 registryVars>>

\* Mutant: only the identity of the session is compared.
MutantIgnoresGeneration(s, g) == sessions[session[s].client] = s

\* A timer is out of date when its session is gone or was refreshed since.
IsCurrent(s, g) ==
  sessions[session[s].client] = s /\ session[s].gen = g

ExpireSession(s, g) ==
  /\ <<s, g>> \in fired
  /\ fired' = fired \ {<<s, g>>}
  /\ IF IsCurrent(s, g)
       THEN /\ sessions' = [sessions EXCEPT ![session[s].client] = None]
            /\ expiring' = [expiring EXCEPT ![s] = "unlist"]
       ELSE UNCHANGED <<sessions, expiring>>
  /\ UNCHANGED <<phase, loop, session, armed, taken, deaf, registryVars>>

\* Mutant: the entry is left to the pruning loop.
MutantExpireForgetsEntry(s) ==
  /\ expiring[s] = "unlist"
  /\ expiring' = [expiring EXCEPT ![s] = "close"]
  /\ UNCHANGED <<phase, loop, sessions, session, armed, fired, taken, deaf,
                 registryVars>>

\* Mutant: the session is given up without closing its socket.
MutantExpireForgetsSocket(s) ==
  /\ expiring[s] = "close"
  /\ expiring' = [expiring EXCEPT ![s] = "no"]
  /\ UNCHANGED <<phase, loop, sessions, session, armed, fired, taken, deaf,
                 registryVars>>

\* f.mu is released: only now the registry entry is removed, ...
ExpireUnlists(s) ==
  /\ expiring[s] = "unlist"
  /\ CloseSession(session[s].id)
  /\ expiring' = [expiring EXCEPT ![s] = "close"]
  /\ UNCHANGED <<phase, loop, sessions, session, armed, fired, taken, deaf>>

\* ... and then the socket is closed.
ExpireCloses(s) ==
  /\ expiring[s] = "close"
  /\ CloseConn(s)
  /\ expiring' = [expiring EXCEPT ![s] = "no"]
  /\ UNCHANGED <<phase, loop, sessions, armed, fired, taken, deaf,
                 registryVars>>

-----------------------------------------------------------------------------
(***************************************************************************)
(* Stop, the read loops, and the registry's clock and pruning loops.       *)
(***************************************************************************)

\* Mutant: the sessions are closed but stay in the map.
MutantStopKeepsMap ==
  /\ phase = "running"
  /\ phase' = "stopping"
  /\ taken' = {s \in Sessions : Mapped(s)}
  /\ UNCHANGED <<loop, sessions, session, armed, fired, expiring, deaf,
                 registryVars>>

\* Mutant: the map is emptied before its sessions are collected.
MutantStopCollectsNothing ==
  /\ phase = "running"
  /\ phase' = "stopping"
  /\ sessions' = [c \in Clients |-> None]
  /\ UNCHANGED <<loop, session, armed, fired, expiring, taken, deaf,
                 registryVars>>

StopBegins ==
  /\ phase = "running"
  /\ phase' = "stopping"
  /\ taken' = {s \in Sessions : Mapped(s)}
  /\ sessions' = [c \in Clients |-> None]
  /\ UNCHANGED <<loop, session, armed, fired, expiring, deaf, registryVars>>

StopCloses(s) ==
  /\ phase = "stopping" /\ s \in taken
  /\ taken' = taken \ {s}
  /\ armed' = armed \ {Newest(s)}
  /\ CloseConn(s)
  /\ UNCHANGED <<phase, loop, sessions, fired, expiring, deaf, registryVars>>

StopClosesListener ==
  /\ phase = "stopping" /\ taken = {}
  /\ phase' = "waiting"
  /\ UNCHANGED <<loop, sessions, session, armed, fired, expiring, taken,
                 deaf, registryVars>>

\* The loops have ended, or two seconds are over: either way Stop goes on.
StopReturns ==
  /\ phase = "waiting"
  /\ phase' = "stopped"
  /\ CloseSessionsForRule
  /\ UNCHANGED <<loop, sessions, session, armed, fired, expiring, taken,
                 deaf>>

\* conn.Read fails although the socket is open, as it does after a target has
\* refused a datagram: the read loop ends and the session stays where it is.
\* (A read loop that ends because its socket is closed, or that finds the
\* forwarder stopped, changes nothing any other process looks at.)
ReaderFails(s) ==
  /\ IsOpen(s) /\ s \notin deaf
  /\ Cardinality(deaf) < MaxReadErrors
  /\ deaf' = deaf \cup {s}
  /\ UNCHANGED <<phase, loop, sessions, session, armed, fired, expiring, taken,
                 registryVars>>

\* An idle timer takes one minute and the registry's cutoff is five: an entry
\* ages while its session's timer is set only if the wall clock jumps ahead,
\* which lastSeenAt, without a monotonic reading, takes at face value.
EntryAges(i) ==
  /\ ClockMayJump \/ \A s \in Sessions : session[s].id = i => Newest(s) \notin armed
  /\ Age(i)
  /\ UNCHANGED forwarderVars

Prune ==
  /\ aged # {}
  /\ PruneExpired
  /\ UNCHANGED forwarderVars

-----------------------------------------------------------------------------

Next ==
  \/ \E c \in Clients : ReadPacket(c)
  \/ LoopEnds
  \/ RefreshSession
  \/ \E s \in Sessions, i \in SessionIds : OpenSession(s, i)
  \/ DialFails
  \/ ForwardPacket
  \/ \E s \in Sessions, g \in 0..MaxGen : TimerFires(s, g)
  \/ \E s \in Sessions, g \in 0..MaxGen : ExpireSession(s, g)
  \/ \E s \in Sessions : ExpireUnlists(s)
  \/ \E s \in Sessions : ExpireCloses(s)
  \/ StopBegins
  \/ \E s \in Sessions : StopCloses(s)
  \/ StopClosesListener
  \/ StopReturns
  \/ \E s \in Sessions : ReaderFails(s)
  \/ \E i \in SessionIds : EntryAges(i)
  \/ Prune

Spec == Init /\ [][Next]_vars

(***************************************************************************)
(* Goroutines that can run do run, timers that are set fire, and a closed  *)
(* listen socket ends the loop.  Nobody has to send packets or to call     *)
(* Stop, and the wall clock owes nothing.                                  *)
(***************************************************************************)
Fairness ==
  /\ WF_vars(phase \in {"waiting", "stopped"} /\ LoopEnds)
  /\ WF_vars(RefreshSession)
  /\ WF_vars(DialFails \/ \E s \in Sessions, i \in SessionIds : OpenSession(s, i))
  /\ WF_vars(ForwardPacket)
  /\ WF_vars(StopClosesListener)
  /\ WF_vars(StopReturns)
  /\ \A s \in Sessions :
       /\ WF_vars(StopCloses(s))
       /\ WF_vars(ExpireUnlists(s))
       /\ WF_vars(ExpireCloses(s))
       /\ \A g \in 0..MaxGen :
            WF_vars(TimerFires(s, g)) /\ WF_vars(ExpireSession(s, g))

FairSpec == Spec /\ Fairness

-----------------------------------------------------------------------------
(***************************************************************************)
(* What must hold.                                                         *)
(***************************************************************************)

\* A session found in f.sessions can be used: it is the client's own, its
\* socket is open, nobody is about to close it, and the timer of its current
\* generation is set or has just fired, so that an idle one is reclaimed.
MappedSessionsAreUsable ==
  \A c \in Clients : sessions[c] # None =>
    LET s == sessions[c] IN
    /\ session[s].client = c
    /\ IsOpen(s) /\ expiring[s] = "no" /\ s \notin taken
    /\ Newest(s) \in armed \cup fired

\* Every open target socket will be closed by somebody: its session is still
\* in the map (so its timer or Stop will take it), or was taken out by an
\* expiry or a Stop that has yet to close it.
EverySocketHasACloser ==
  \A s \in Sessions :
    IsOpen(s) => Mapped(s) \/ expiring[s] # "no" \/ s \in taken

\* The registry never lists a session that is gone: behind every entry is a
\* session in the map, one whose expiry has yet to remove the entry, or a Stop
\* that has yet to clear the rule's entries.
NoGhostEntries ==
  \A i \in SessionIds : Listed(i) =>
    \/ phase \in {"stopping", "waiting"}
    \/ \E s \in Sessions :
         session[s].id = i /\ (Mapped(s) \/ expiring[s] = "unlist")

\* While the forwarder runs, a session leaves the map only when the timer set
\* by its latest packet has fired.  A timer that fired earlier and lost the
\* race for the lock against a packet must not take the session with it.
RenewedSessionsStay ==
  [][\A c \in Clients :
       /\ phase = "running" /\ phase' = "running"
       /\ sessions[c] # None /\ sessions'[c] # sessions[c]
       => Newest(sessions[c]) \notin armed]_vars

\* The packet in hand is written to a closed socket only if Stop has begun or
\* the timer this very packet set has fired meanwhile.
PacketsLostOnlyToTimeouts ==
  loop.at = "forward" /\ ~IsOpen(loop.session) =>
    phase # "running" \/ Newest(loop.session) \notin armed

\* Expected to fail: while the forwarder runs, every session that is in the map
\* and whose idle timer has not fired is listed (docs/api-contract.md:407).
LiveSessionsAreListed ==
  phase = "running" =>
    \A s \in Sessions : Mapped(s) /\ Newest(s) \in armed => Listed(session[s].id)

\* Stop leaves nothing behind for good: once it has returned, every target socket
\* is closed in the end, also that of a session opened by a packet Stop overtook,
\* which goes with its idle timer, and no entry of the rule is in the registry.
StopCleansUp ==
  phase = "stopped" ~>
    [](/\ \A s \in Sessions : ~IsOpen(s)
       /\ \A i \in SessionIds : ~Listed(i))

=============================================================================
