---------------------------- MODULE TcpForwarder ----------------------------
(***************************************************************************)
(* One TCP rule of the Go service: the accept loop, a handler for every    *)
(* accepted connection with its two copy goroutines, Stop, and the         *)
(* registry of live connections as this rule sees it                       *)
(* (service/sources/forwarders/tcp.go, service/sources/connections).       *)
(* A step is what runs without another goroutine being able to notice, so  *)
(* the places between two locks, and between two system calls, are places  *)
(* where Stop gets in.                                                     *)
(***************************************************************************)
EXTENDS Sequences

CONSTANTS Conns      \* the connections clients make

ASSUME ConnsAssumption == "loop" \notin Conns

VARIABLES
    running,    \* f.running
    listener,   \* the listen socket: "none", "open" or "closed"
    loop,       \* the accept loop: "none", "accepting", "failed" or "ended"
    stop,       \* Stop: "no", "closing", "waiting", "dropping" or "done"
    closing,    \* the sockets of Stop's snapshot it has still to close
    timedOut,   \* Stop gave up after two seconds
    tracked,    \* f.conns
    wg,         \* the goroutines f.wg counts: "loop" and handlers
    pc,         \* the position of each connection's handler
    sock,       \* this side of its two sockets
    copying,    \* the directions whose copy goroutine still runs
    writing,    \* those of them that are in Write, the others are in Read
    failed,     \* the connections whose dial or copy really failed
    logged,     \* loggedError
    log,        \* the activity events of each connection
    entries     \* the connections the registry lists

vars == <<running, listener, loop, stop, closing, timedOut, tracked, wg, pc,
          sock, copying, writing, failed, logged, log, entries>>
server == <<running, listener, loop, stop, closing, timedOut>>

LoopProc == "loop"
Sides == {"client", "target"}
Sockets == Conns \X Sides

\* A direction is named after the socket its io.Copy reads from.
Positions == {"none", "accepted", "added", "registered", "dialing", "dialled",
              "copying", "draining", "closing", "unlisting", "reporting",
              "ended"}

TypeOK ==
    /\ running \in BOOLEAN
    /\ listener \in {"none", "open", "closed"}
    /\ loop \in {"none", "accepting", "failed", "ended"}
    /\ stop \in {"no", "closing", "waiting", "dropping", "done"}
    /\ closing \subseteq Sockets
    /\ timedOut \in BOOLEAN
    /\ tracked \subseteq Sockets
    /\ wg \subseteq Conns \union {LoopProc}
    /\ pc \in [Conns -> Positions]
    /\ sock \in [Sockets -> {"none", "open", "closed"}]
    /\ copying \subseteq {s \in Sockets : pc[s[1]] \in {"copying", "draining"}}
    /\ writing \subseteq copying
    /\ failed \subseteq Conns
    /\ logged \subseteq Conns
    /\ log \in [Conns -> Seq({"opened", "closed", "error"})]
    /\ entries \subseteq Conns

Init ==
    /\ running = FALSE
    /\ listener = "none"
    /\ loop = "none"
    /\ stop = "no"
    /\ closing = {}
    /\ timedOut = FALSE
    /\ tracked = {}
    /\ wg = {}
    /\ pc = [c \in Conns |-> "none"]
    /\ sock = [s \in Sockets |-> "none"]
    /\ copying = {}
    /\ writing = {}
    /\ failed = {}
    /\ logged = {}
    /\ log = [c \in Conns |-> <<>>]
    /\ entries = {}

Go(c, from, to) == pc[c] = from /\ pc' = [pc EXCEPT ![c] = to]

\* close() of a socket may be called on one that is closed already.
CloseSockets(S) == sock' = [s \in Sockets |-> IF s \in S THEN "closed" ELSE sock[s]]

\* Mutant: every error of a connection is reported.
ReportEvery(c) ==
    /\ logged' = logged \union {c}
    /\ log' = [log EXCEPT ![c] = Append(@, "error")]

\* The first error of a connection is reported, the ones after it are not.
Report(c) ==
    /\ logged' = logged \union {c}
    /\ log' = IF c \in logged THEN log
              ELSE [log EXCEPT ![c] = Append(@, "error")]

-----------------------------------------------------------------------------
(* Start, and the accept loop. *)

Start ==
    /\ listener = "none"
    /\ stop = "no"
    /\ listener' = "open"
    /\ running' = TRUE
    /\ loop' = "accepting"
    /\ wg' = {LoopProc}
    /\ UNCHANGED <<stop, closing, timedOut, tracked, pc, sock, copying, writing, failed,
                   logged, log, entries>>

\* Mutant: the handler adds itself to the wait group, once it runs.
AcceptUncounted(c) ==
    /\ loop = "accepting"
    /\ listener = "open"
    /\ Go(c, "none", "accepted")
    /\ sock' = [sock EXCEPT ![<<c, "client">>] = "open"]
    /\ UNCHANGED <<server, wg, tracked, copying, writing, failed, logged, log, entries>>

Accept(c) ==
    /\ loop = "accepting"
    /\ listener = "open"
    /\ Go(c, "none", "accepted")
    /\ sock' = [sock EXCEPT ![<<c, "client">>] = "open"]
    /\ wg' = wg \union {c}
    /\ UNCHANGED <<server, tracked, copying, writing, failed, logged, log, entries>>

\* Accept fails when the listener is closed, and may fail while it is open; any
\* error ends the loop.
LoopEnds ==
    /\ loop = "accepting"
    /\ loop' = IF listener = "closed" THEN "ended" ELSE "failed"
    /\ wg' = wg \ {LoopProc}
    /\ UNCHANGED <<running, listener, stop, closing, timedOut, tracked, pc,
                   sock, copying, writing, failed, logged, log, entries>>

-----------------------------------------------------------------------------
(* handleClient. *)

AddClient(c) ==
    /\ Go(c, "accepted", "added")
    /\ tracked' = tracked \union {<<c, "client">>}
    /\ UNCHANGED <<server, wg, sock, copying, writing, failed, logged, log, entries>>

OpenConnection(c) ==
    /\ Go(c, "added", "registered")
    /\ entries' = entries \union {c}
    /\ UNCHANGED <<server, wg, tracked, sock, copying, writing, failed, logged, log>>

EmitOpened(c) ==
    /\ Go(c, "registered", "dialing")
    /\ log' = [log EXCEPT ![c] = Append(@, "opened")]
    /\ UNCHANGED <<server, wg, tracked, sock, copying, writing, failed, logged, entries>>

DialFails(c) ==
    /\ Go(c, "dialing", "closing")
    /\ failed' = failed \union {c}
    /\ Report(c)
    /\ UNCHANGED <<server, wg, tracked, sock, copying, writing, entries>>

Dialled(c) ==
    /\ Go(c, "dialing", "dialled")
    /\ sock' = [sock EXCEPT ![<<c, "target">>] = "open"]
    /\ UNCHANGED <<server, wg, tracked, copying, writing, failed, logged, log, entries>>

AddTarget(c) ==
    /\ Go(c, "dialled", "copying")
    /\ tracked' = tracked \union {<<c, "target">>}
    /\ copying' = copying \union ({c} \X Sides)
    /\ UNCHANGED <<server, wg, sock, writing, failed, logged, log, entries>>

\* Mutant: both directions have to be done before the sockets are closed.
CloseBothLate(c) ==
    /\ {c} \X Sides \intersect copying = {}
    /\ Go(c, "copying", "draining")
    /\ CloseSockets({c} \X Sides)
    /\ UNCHANGED <<server, wg, tracked, copying, writing, failed, logged, log, entries>>

\* The first direction that is done closes both sockets.
CloseBoth(c) ==
    /\ ~ {c} \X Sides \subseteq copying
    /\ Go(c, "copying", "draining")
    /\ CloseSockets({c} \X Sides)
    /\ UNCHANGED <<server, wg, tracked, copying, writing, failed, logged, log, entries>>

\* The second one is awaited, then the deferred calls run.
Drained(c) ==
    /\ copying \intersect ({c} \X Sides) = {}
    /\ Go(c, "draining", "closing")
    /\ tracked' = tracked \ {<<c, "target">>}
    /\ CloseSockets({<<c, "target">>})
    /\ UNCHANGED <<server, wg, copying, writing, failed, logged, log, entries>>

RemoveClient(c) ==
    /\ Go(c, "closing", "unlisting")
    /\ tracked' = tracked \ {<<c, "client">>}
    /\ CloseSockets({<<c, "client">>})
    /\ UNCHANGED <<server, wg, copying, writing, failed, logged, log, entries>>

\* Mutant: the entry is left to Stop.
CloseConnectionForgotten(c) ==
    /\ Go(c, "unlisting", "reporting")
    /\ UNCHANGED <<server, wg, tracked, sock, copying, writing, failed, logged, log, entries>>

CloseConnection(c) ==
    /\ Go(c, "unlisting", "reporting")
    /\ entries' = entries \ {c}
    /\ UNCHANGED <<server, wg, tracked, sock, copying, writing, failed, logged, log>>

EmitClosed(c) ==
    /\ Go(c, "reporting", "ended")
    /\ log' = IF c \in logged THEN log ELSE [log EXCEPT ![c] = Append(@, "closed")]
    /\ wg' = wg \ {c}
    /\ UNCHANGED <<server, tracked, sock, copying, writing, failed, logged, entries>>

-----------------------------------------------------------------------------
(* copyAndClose.  io.Copy reads from one socket and writes to the other, by  *)
(* turns.  A Write blocks for as long as the peer of that socket does not    *)
(* read.  The copy ends with the stream, with a real error, or because this  *)
(* side has closed the socket it is reading from or writing to.              *)

Other(d) == IF d = "client" THEN "target" ELSE "client"

\* The socket a copy is blocked on.
BlockedOn(c, d) == IF <<c, d>> \in writing THEN <<c, Other(d)>> ELSE <<c, d>>

CopyWrites(c, d) ==
    /\ <<c, d>> \in copying \ writing
    /\ sock[<<c, d>>] = "open"
    /\ writing' = writing \union {<<c, d>>}
    /\ UNCHANGED <<server, tracked, wg, pc, sock, copying, failed, logged, log, entries>>

CopyWritten(c, d) ==
    /\ <<c, d>> \in writing
    /\ sock[<<c, Other(d)>>] = "open"
    /\ writing' = writing \ {<<c, d>>}
    /\ UNCHANGED <<server, tracked, wg, pc, sock, copying, failed, logged, log, entries>>

CopyDone(c, d) ==
    /\ <<c, d>> \in copying
    /\ copying' = copying \ {<<c, d>>}
    /\ writing' = writing \ {<<c, d>>}
    /\ UNCHANGED <<server, tracked, wg, pc, sock, entries>>

CopyEnds(c, d) ==
    /\ <<c, d>> \notin writing
    /\ CopyDone(c, d)
    /\ UNCHANGED <<failed, logged, log>>

CopyFails(c, d) ==
    /\ CopyDone(c, d)
    /\ failed' = failed \union {c}
    /\ IF running THEN Report(c) ELSE UNCHANGED <<logged, log>>

CopyClosed(c, d) ==
    /\ sock[BlockedOn(c, d)] = "closed"
    /\ CopyDone(c, d)
    /\ UNCHANGED <<failed, logged, log>>

CopyStep(c, d) ==
    \/ CopyWrites(c, d)
    \/ CopyWritten(c, d)
    \/ CopyEnds(c, d)
    \/ CopyFails(c, d)
    \/ CopyClosed(c, d)

-----------------------------------------------------------------------------
(* Stop. *)

BeginStop ==
    /\ stop = "no"
    /\ listener = "open"
    /\ stop' = "closing"
    /\ running' = FALSE
    /\ closing' = tracked
    /\ UNCHANGED <<listener, loop, timedOut, tracked, wg, pc, sock, copying, writing,
                   failed, logged, log, entries>>

CloseListener ==
    /\ stop = "closing"
    /\ listener' = "closed"
    /\ stop' = "waiting"
    /\ UNCHANGED <<running, loop, closing, timedOut, tracked, wg, pc, sock,
                   copying, writing, failed, logged, log, entries>>

CloseOne(s) ==
    /\ stop = "waiting"
    /\ s \in closing
    /\ closing' = closing \ {s}
    /\ CloseSockets({s})
    /\ UNCHANGED <<running, listener, loop, stop, timedOut, tracked, wg, pc,
                   copying, writing, failed, logged, log, entries>>

\* Stop waits for the group or for two seconds.
StopWaited ==
    /\ stop = "waiting"
    /\ closing = {}
    /\ \/ wg = {} /\ timedOut' = FALSE
       \/ timedOut' = TRUE
    /\ stop' = "dropping"
    /\ UNCHANGED <<running, listener, loop, closing, tracked, wg, pc, sock,
                   copying, writing, failed, logged, log, entries>>

CloseConnectionsForRule ==
    /\ stop = "dropping"
    /\ stop' = "done"
    /\ entries' = {}
    /\ UNCHANGED <<running, listener, loop, closing, timedOut, tracked, wg, pc,
                   sock, copying, writing, failed, logged, log>>

-----------------------------------------------------------------------------

HandlerStep(c) ==
    \/ AddClient(c)
    \/ OpenConnection(c)
    \/ EmitOpened(c)
    \/ DialFails(c)
    \/ Dialled(c)
    \/ AddTarget(c)
    \/ CloseBoth(c)
    \/ Drained(c)
    \/ RemoveClient(c)
    \/ CloseConnection(c)
    \/ EmitClosed(c)

StopStep ==
    \/ CloseListener
    \/ \E s \in Sockets : CloseOne(s)
    \/ StopWaited
    \/ CloseConnectionsForRule

Next ==
    \/ Start
    \/ LoopEnds
    \/ BeginStop
    \/ StopStep
    \/ \E c \in Conns :
        \/ Accept(c)
        \/ HandlerStep(c)
        \/ \E d \in Sides : CopyStep(c, d)

Spec == Init /\ [][Next]_vars

\* Goroutines that can go on do, a dial ends by itself, and a Read or a Write
\* returns once its own socket is closed.  Nobody has to connect, to send, to
\* read what is written to them, to hang up or to stop the rule.
Fairness ==
    /\ WF_vars(StopStep)
    /\ WF_vars(loop = "accepting" /\ listener = "closed" /\ LoopEnds)
    /\ \A c \in Conns : WF_vars(HandlerStep(c))
    /\ \A c \in Conns, d \in Sides : WF_vars(CopyClosed(c, d))

FairSpec == Spec /\ Fairness

-----------------------------------------------------------------------------
(* Properties. *)

\* A connection reports its end once: one "opened" event, then either one
\* "closed" or one "error", also when both copy goroutines fail.
Reported(c) ==
    IF pc[c] \in {"none", "accepted", "added", "registered"} THEN <<>>
    ELSE IF c \in logged THEN <<"opened", "error">>
    ELSE IF pc[c] = "ended" THEN <<"opened", "closed">>
    ELSE <<"opened">>

OneEndEvent == \A c \in Conns : log[c] = Reported(c)

\* What a handler closes in its teardown is never reported as an error of the
\* connection.
ErrorsHaveACause == logged \subseteq failed

\* What the activity log says of a connection is what happened to it: one end,
\* and an error only where a copy or the dial failed.
EventsAreTrue == OneEndEvent /\ ErrorsHaveACause

\* The registry lists no connection whose handler has returned, whatever Stop
\* did to the list meanwhile.
NoGhostEntries == \A c \in entries : pc[c] # "ended"

\* A socket that is open has a handler that will close it, and one the forwarder
\* tracks is a socket of such a handler.
SocketsHaveAHandler ==
    \A s \in Sockets :
        sock[s] = "open" \/ s \in tracked => pc[s[1]] \notin {"none", "ended"}

\* Whatever Stop and the copies do, for each registry entry and each socket there
\* is a handler that still runs and will remove or close it.
NothingOrphaned == NoGhostEntries /\ SocketsHaveAHandler

\* When Stop returns without having timed out nothing of the rule is left: no
\* handler, no open socket, no entry, and no accept loop.
CleanStopIsComplete ==
    stop = "done" /\ ~ timedOut =>
        /\ loop # "accepting"
        /\ entries = {}
        /\ \A c \in Conns : pc[c] \in {"none", "ended"}
        /\ \A s \in Sockets : sock[s] # "open"

\* A copy to a target that was dialled behind the snapshot of Stop, so that nobody
\* closes it, stays in its Write for as long as the target does not read.
HangsInWrite(c) == <<c, "client">> \in writing /\ sock[<<c, "target">>] = "open"

\* Stop returns, and in the end every connection whose client has been closed, by
\* Stop or otherwise, has ended too, or hangs in such a Write.
StopIsDoneWithAll ==
    stop = "closing" ~>
        /\ stop = "done"
        /\ \A c \in Conns :
            sock[<<c, "client">>] = "closed" => pc[c] = "ended" \/ HangsInWrite(c)
=============================================================================
