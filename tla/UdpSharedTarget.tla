-------------------------- MODULE UdpSharedTarget --------------------------
(***************************************************************************)
(* A UDP forwarder whose clients share one target socket, after its Start: *)
(* the modes one-way and bidirectional-last-client                         *)
(* (service/sources/forwarders/udp.go), with the session registry.         *)
(*                                                                         *)
(* What runs under f.mu is one step, and so is every registry call.  Stop  *)
(* waits for both loops, or for two seconds: a write, a log line or the    *)
(* scheduler may hold up either loop for longer.                           *)
(***************************************************************************)
EXTENDS UdpForwarder

CONSTANT Modes  \* the modes a rule may have

ASSUME ModesAssumption == Modes \subseteq {"one-way", "bidirectional-last-client"}

VARIABLES
  mode,           \* the rule's UDP mode, which never changes
  reply,          \* targetReadLoop: where it is and whom it answers
  lastClient,     \* f.lastClient
  lastSessionID,  \* f.lastSessionID
  gaveUp          \* Stop went on after two seconds

sharedForwarderVars == <<phase, loop, reply, lastClient, lastSessionID, gaveUp>>
sharedVars == <<mode, sharedForwarderVars, registryVars>>

LastClientMode == mode = "bidirectional-last-client"
SharedIdle == [at |-> "read", client |-> None, id |-> None]

SharedTypeOK ==
  /\ RegistryTypeOK
  /\ mode \in Modes
  /\ phase \in Phases
  /\ loop \in [at: {"read", "packet", "displace", "open", "note", "ended"},
               client: Clients \cup {None}, id: SessionIds \cup {None}]
  /\ reply \in [at: {"read", "send", "ended"}, client: Clients \cup {None}]
  /\ lastClient \in Clients \cup {None}
  /\ lastSessionID \in SessionIds \cup {None}
  /\ gaveUp \in BOOLEAN

SharedInit ==
  /\ RegistryInit
  /\ mode \in Modes
  /\ phase = "running"
  /\ loop = SharedIdle
  /\ reply = [at |-> IF LastClientMode THEN "read" ELSE "ended", client |-> None]
  /\ lastClient = None
  /\ lastSessionID = None
  /\ gaveUp = FALSE

-----------------------------------------------------------------------------
(***************************************************************************)
(* The listen loop.                                                        *)
(***************************************************************************)

\* Bound: an id is left, in case the client's entry is pruned meanwhile.
SharedReadPacket(c) ==
  /\ loop.at = "read" /\ phase \in {"running", "stopping"}
  /\ drawn # SessionIds
  /\ loop' = [at |-> IF LastClientMode THEN "packet" ELSE "open",
              client |-> c, id |-> None]
  /\ UNCHANGED <<mode, gaveUp, phase, reply, lastClient, lastSessionID, registryVars>>

\* Mutant: a read error is taken for a passing one.
MutantLoopRetries ==
  /\ loop.at = "read"
  /\ UNCHANGED sharedVars

\* ReadFromUDP fails: Stop has closed the listen socket, or it fails by itself.
SharedLoopEnds ==
  /\ loop.at = "read"
  /\ loop' = [SharedIdle EXCEPT !.at = "ended"]
  /\ UNCHANGED <<mode, gaveUp, phase, reply, lastClient, lastSessionID, registryVars>>

\* Last-client mode: under one lock the client becomes the last one and the
\* previous client and entry are read.
BecomeLastClient ==
  /\ loop.at = "packet"
  /\ LET displaces == /\ lastClient \notin {None, loop.client}
                      /\ lastSessionID # None
     IN  loop' = [loop EXCEPT !.at = IF displaces THEN "displace" ELSE "open",
                              !.id = IF displaces THEN lastSessionID ELSE None]
  /\ lastClient' = loop.client
  /\ UNCHANGED <<mode, gaveUp, phase, reply, lastSessionID, registryVars>>

\* Mutant: the entry of the previous client is left to the pruning loop.
MutantDisplaceKeepsEntry ==
  /\ loop.at = "displace"
  /\ loop' = [loop EXCEPT !.at = "open", !.id = None]
  /\ UNCHANGED <<mode, gaveUp, phase, reply, lastClient, lastSessionID, registryVars>>

\* The entry of the previous, different client is closed.
DisplaceSession ==
  /\ loop.at = "displace"
  /\ CloseSession(loop.id)
  /\ loop' = [loop EXCEPT !.at = "open", !.id = None]
  /\ UNCHANGED <<mode, gaveUp, phase, reply, lastClient, lastSessionID>>

\* The client's entry is opened or touched and the packet counted on it.  In
\* one-way mode the packet is done with.
OpenEntry(i) ==
  /\ loop.at = "open"
  /\ OpenOrTouchSession(loop.client, i)
  /\ loop' = IF LastClientMode THEN [loop EXCEPT !.at = "note", !.id = i] ELSE SharedIdle
  /\ UNCHANGED <<mode, gaveUp, phase, reply, lastClient, lastSessionID>>

\* The id is noted under a second lock; then the packet is done with.
NoteSession ==
  /\ loop.at = "note"
  /\ lastSessionID' = loop.id
  /\ loop' = SharedIdle
  /\ UNCHANGED <<mode, gaveUp, phase, reply, lastClient, registryVars>>

-----------------------------------------------------------------------------
(***************************************************************************)
(* The read loop of the target socket, in last-client mode.                *)
(***************************************************************************)

\* A datagram of the target: the last client is read under the lock.  Without
\* one the datagram is dropped.
ReplyArrives ==
  /\ reply.at = "read" /\ phase \in {"running", "stopping"}
  /\ reply' = IF lastClient = None THEN reply
              ELSE [at |-> "send", client |-> lastClient]
  /\ UNCHANGED <<mode, gaveUp, phase, loop, lastClient, lastSessionID, registryVars>>

\* It is written to that client through the listen socket.
SendReply ==
  /\ reply.at = "send"
  /\ reply' = [at |-> "read", client |-> None]
  /\ UNCHANGED <<mode, gaveUp, phase, loop, lastClient, lastSessionID, registryVars>>

\* Read fails: the target socket is closed, or it fails by itself.
ReaderEnds ==
  /\ reply.at = "read"
  /\ reply' = [at |-> "ended", client |-> None]
  /\ UNCHANGED <<mode, gaveUp, phase, loop, lastClient, lastSessionID, registryVars>>

-----------------------------------------------------------------------------
(***************************************************************************)
(* Stop, and the registry's clock and pruning loops.                       *)
(***************************************************************************)

SharedStopBegins ==
  /\ phase = "running"
  /\ phase' = "stopping"
  /\ lastClient' = None
  /\ lastSessionID' = None
  /\ UNCHANGED <<mode, gaveUp, loop, reply, registryVars>>

StopClosesSockets ==
  /\ phase = "stopping"
  /\ phase' = "waiting"
  /\ UNCHANGED <<mode, gaveUp, loop, reply, lastClient, lastSessionID, registryVars>>

\* The rule's entries are closed whether both loops have ended or not.
SharedStopReturns ==
  /\ phase = "waiting"
  /\ \/ loop.at = "ended" /\ reply.at = "ended" /\ UNCHANGED gaveUp
     \/ gaveUp' = TRUE
  /\ phase' = "stopped"
  /\ CloseSessionsForRule
  /\ UNCHANGED <<mode, loop, reply, lastClient, lastSessionID>>

\* Five minutes without a packet of the client.  No single packet takes that
\* long to be handled.
SharedEntryAges(i) ==
  /\ i # loop.id
  /\ Age(i)
  /\ UNCHANGED <<mode, sharedForwarderVars>>

SharedPrune ==
  /\ aged # {}
  /\ PruneExpired
  /\ UNCHANGED <<mode, sharedForwarderVars>>

-----------------------------------------------------------------------------

SharedNext ==
  \/ \E c \in Clients : SharedReadPacket(c)
  \/ SharedLoopEnds
  \/ BecomeLastClient
  \/ DisplaceSession
  \/ \E i \in SessionIds : OpenEntry(i)
  \/ NoteSession
  \/ ReplyArrives
  \/ SendReply
  \/ ReaderEnds
  \/ SharedStopBegins
  \/ StopClosesSockets
  \/ SharedStopReturns
  \/ \E i \in SessionIds : SharedEntryAges(i)
  \/ SharedPrune

SharedSpec == SharedInit /\ [][SharedNext]_sharedVars

(***************************************************************************)
(* Both loops run on, and end when Stop has closed their sockets, also     *)
(* when it has not waited for them; a Stop that has begun goes on, with    *)
(* its timer.                                                              *)
(***************************************************************************)
SharedFairness ==
  /\ WF_sharedVars(phase \in {"waiting", "stopped"} /\ (SharedLoopEnds \/ ReaderEnds))
  /\ WF_sharedVars(\/ BecomeLastClient \/ DisplaceSession \/ NoteSession
             \/ \E i \in SessionIds : OpenEntry(i))
  /\ WF_sharedVars(SendReply)
  /\ WF_sharedVars(StopClosesSockets)
  /\ WF_sharedVars(SharedStopReturns)

SharedFairSpec == SharedSpec /\ SharedFairness

-----------------------------------------------------------------------------
(***************************************************************************)
(* What must hold.                                                         *)
(***************************************************************************)

\* In last-client mode, between two packets of a running forwarder, the
\* registry lists the last client's session and no other, under the id by which
\* replies are counted: replies go to nobody else.
OnlyTheLastClientIsListed ==
  LastClientMode /\ phase = "running" /\ loop.at = "read" =>
    \A i \in SessionIds :
      Listed(i) => entries[i] = lastClient /\ i = lastSessionID

\* A Stop that has waited for its loops leaves no entry behind, whatever packet
\* was in hand when it began; and one that went on after two seconds leaves one
\* entry at most, of that packet.
StoppedRuleIsNotListed ==
  phase = "stopped" => \A i, j \in SessionIds : Listed(i) /\ Listed(j) => gaveUp /\ i = j

\* What the registry lists of the rule is current, in both modes: the client that
\* replies go to and no other, and nothing once Stop has waited for its loops.
ListingIsCurrent == SharedTypeOK /\ OnlyTheLastClientIsListed /\ StoppedRuleIsNotListed

\* A Stop that has begun returns, and both loops end, before it or after it: a
\* loop that Stop did not wait for is not left running.
StopEnds ==
  phase = "stopping" ~> phase = "stopped" /\ loop.at = "ended" /\ reply.at = "ended"

=============================================================================
