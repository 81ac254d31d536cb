------------------------ MODULE TcpForwarder_proofs ------------------------
(***************************************************************************)
(* Proofs about TcpForwarder, for any set of connections: the type         *)
(* invariant and the safety invariants its run checks.                     *)
(***************************************************************************)
EXTENDS TcpForwarder, Integers, SequenceTheorems, TLAPS

-----------------------------------------------------------------------------
(* The inductive invariant. *)

Live(c) == pc[c] \notin {"none", "ended"}

\* The wait group counts exactly the accept loop and the handlers that run.
GroupCounts ==
    /\ \A c \in Conns : c \in wg <=> Live(c)
    /\ LoopProc \in wg <=> loop = "accepting"

\* What a handler that is at a position holds open, tracks and lists.
HoldsAt(c) ==
    /\ sock[<<c, "client">>] = "open" \/ <<c, "client">> \in tracked =>
           pc[c] \notin {"none", "unlisting", "reporting", "ended"}
    /\ sock[<<c, "target">>] = "open" \/ <<c, "target">> \in tracked =>
           pc[c] \in {"dialled", "copying", "draining"}
    /\ c \in entries => pc[c] \notin {"none", "accepted", "added", "reporting", "ended"}

HandlersHold == \A c \in Conns : HoldsAt(c)

\* Before Start there is no loop and hence no handler.
HandlersNeedALoop ==
    listener = "none" => loop = "none" /\ \A c \in Conns : pc[c] = "none"

\* After a wait that ended in time there is nobody left, and the closed listener
\* brings nobody new.
NobodyAfterACleanWait ==
    stop \in {"dropping", "done"} /\ ~ timedOut => wg = {}

\* A connection is logged as failed only after its opened event.
LoggedIsOpened ==
    \A c \in logged :
        pc[c] \notin {"none", "accepted", "added", "registered", "dialing", "dialled"}

IInv ==
    /\ TypeOK
    /\ GroupCounts
    /\ HandlersNeedALoop
    /\ HandlersHold
    /\ NobodyAfterACleanWait
    /\ LoggedIsOpened
    /\ OneEndEvent
    /\ ErrorsHaveACause

LEMMA AppendToOne ==
  ASSUME NEW a, NEW b PROVE Append(<<a>>, b) = <<a, b>>
<1> DEFINE S == {a, b}
<1> DEFINE s == <<a>>
<1>1. s \in Seq(S) /\ b \in S /\ Len(s) = 1 /\ s[1] = a
  OBVIOUS
<1> HIDE DEF s, S
<1>2. /\ Append(s,b) \in Seq(S)
      /\ Len(Append(s,b)) = 2
      /\ Append(s,b)[1] = a
      /\ Append(s,b)[2] = b
  <2>1. Append(s, b) \in Seq(S) /\ Len(Append(s, b)) = Len(s) + 1
    BY <1>1, AppendProperties
  <2>2. Append(s, b)[Len(s) + 1] = b
    BY <1>1, AppendProperties
  <2>3. \A i \in 1..Len(s) : Append(s, b)[i] = s[i]
    BY <1>1, AppendProperties, ZenonT(60)
  <2> QED BY <1>1, <2>1, <2>2, <2>3
<1> DEFINE t == Append(s,b)
<1> HIDE DEF t
<1>3. t \in Seq(S) /\ Len(t) = 2 /\ t[1] = a /\ t[2] = b
  BY <1>2 DEF t
<1>4. t = [i \in 1..2 |-> t[i]]
  BY <1>3
<1>5. t = <<a, b>>
  BY <1>3, <1>4
<1> QED BY <1>5 DEF s, t

LEMMA EventSequences ==
  /\ Append(<<>>, "opened") = <<"opened">>
  /\ Append(<<"opened">>, "error") = <<"opened", "error">>
  /\ Append(<<"opened">>, "closed") = <<"opened", "closed">>
<1>1. Append(<<>>, "opened") = <<"opened">>
  OBVIOUS
<1> QED BY <1>1, AppendToOne

\* What a step of connection c leaves alone at another one.
SameHold(k) ==
    /\ pc'[k] = pc[k]
    /\ \A d \in Sides :
          /\ sock'[<<k, d>>] = "open" => sock[<<k, d>>] = "open"
          /\ <<k, d>> \in tracked' => <<k, d>> \in tracked
    /\ k \in entries' => k \in entries

LEMMA SameHoldIsEnough == ASSUME NEW k \in Conns, HoldsAt(k), SameHold(k) PROVE HoldsAt(k)'
  BY DEF HoldsAt, SameHold, Sides

SameLog(k) ==
    /\ pc'[k] = pc[k]
    /\ k \in logged' <=> k \in logged
    /\ log'[k] = log[k]
    /\ k \in failed => k \in failed'

\* The three facts about events, at one connection.
LogAt(c) ==
    /\ c \in logged =>
          pc[c] \notin {"none", "accepted", "added", "registered", "dialing", "dialled"}
    /\ log[c] = Reported(c)
    /\ c \in logged => c \in failed

LEMMA SameLogIsEnough == ASSUME NEW k \in Conns, LogAt(k), SameLog(k) PROVE LogAt(k)'
  BY DEF LogAt, SameLog, Reported

LEMMA InitIInv == Init => IInv
<1> SUFFICES ASSUME Init PROVE IInv
  OBVIOUS
<1> USE DEF Init
<1>1. TypeOK
  <2>1. log \in [Conns -> Seq({"opened", "closed", "error"})]
    OBVIOUS
  <2> QED BY <2>1 DEF TypeOK, Positions
<1>2. GroupCounts /\ HandlersNeedALoop /\ HandlersHold /\ NobodyAfterACleanWait
  BY DEF GroupCounts, HandlersNeedALoop, HandlersHold, HoldsAt, NobodyAfterACleanWait, Live, LoopProc, Sockets, Sides
<1>3. LoggedIsOpened /\ OneEndEvent /\ ErrorsHaveACause
  BY DEF LoggedIsOpened, OneEndEvent, Reported, ErrorsHaveACause
<1> QED BY <1>1, <1>2, <1>3 DEF IInv

(***************************************************************************)
(* Every step keeps the type.                                              *)
(***************************************************************************)

LEMMA TypeStep == TypeOK /\ [Next]_vars => TypeOK'
<1> SUFFICES ASSUME TypeOK, [Next]_vars PROVE TypeOK'
  OBVIOUS
<1> USE ConnsAssumption DEF TypeOK, Positions, Sockets, Sides, server, LoopProc
<1>1. CASE UNCHANGED vars
  BY <1>1 DEF vars
<1>2. CASE Start
  BY <1>2 DEF Start
<1>3. CASE LoopEnds
  BY <1>3 DEF LoopEnds
<1>4. CASE BeginStop
  BY <1>4 DEF BeginStop
<1>5. CASE StopStep
  <2>1. CASE CloseListener
    BY <2>1 DEF CloseListener
  <2>2. ASSUME NEW s \in Sockets, CloseOne(s) PROVE TypeOK'
    BY <2>2 DEF CloseOne, CloseSockets
  <2>3. CASE StopWaited
    BY <2>3 DEF StopWaited
  <2>4. CASE CloseConnectionsForRule
    BY <2>4 DEF CloseConnectionsForRule
  <2> QED BY <1>5, <2>1, <2>2, <2>3, <2>4 DEF StopStep
<1>6. ASSUME NEW c \in Conns, Accept(c) PROVE TypeOK'
  BY <1>6 DEF Accept, Go
<1>7. ASSUME NEW c \in Conns, HandlerStep(c) PROVE TypeOK'
  <2>1. CASE AddClient(c)
    BY <2>1 DEF AddClient, Go
  <2>2. CASE OpenConnection(c)
    BY <2>2 DEF OpenConnection, Go
  <2>3. CASE EmitOpened(c)
    <3>1. log' \in [Conns -> Seq({"opened", "closed", "error"})]
      BY <2>3 DEF EmitOpened
    <3>2. pc' \in [Conns -> Positions]
      BY <2>3 DEF EmitOpened, Go
    <3>3. copying' \subseteq {s \in Sockets : pc'[s[1]] \in {"copying", "draining"}}
      BY <2>3 DEF EmitOpened, Go
    <3>4. UNCHANGED <<running, listener, loop, stop, closing, timedOut, tracked,
                      wg, sock, copying, writing, failed, logged, entries>>
      BY <2>3 DEF EmitOpened
    <3> QED BY <3>1, <3>2, <3>3, <3>4
  <2>4. CASE DialFails(c)
    BY <2>4 DEF DialFails, Report, Go
  <2>5. CASE Dialled(c)
    BY <2>5 DEF Dialled, Go
  <2>6. CASE AddTarget(c)
    BY <2>6 DEF AddTarget, Go
  <2>7. CASE CloseBoth(c)
    BY <2>7 DEF CloseBoth, CloseSockets, Go
  <2>8. CASE Drained(c)
    BY <2>8 DEF Drained, CloseSockets, Go
  <2>9. CASE RemoveClient(c)
    BY <2>9 DEF RemoveClient, CloseSockets, Go
  <2>10. CASE CloseConnection(c)
    BY <2>10 DEF CloseConnection, Go
  <2>11. CASE EmitClosed(c)
    BY <2>11 DEF EmitClosed, Go
  <2> QED
    BY <1>7, <2>1, <2>2, <2>3, <2>4, <2>5, <2>6, <2>7, <2>8, <2>9, <2>10, <2>11
       DEF HandlerStep
<1>8. ASSUME NEW c \in Conns, NEW d \in Sides, CopyStep(c, d)
      PROVE  TypeOK'
  <2>1. CASE CopyEnds(c, d)
    BY <2>1 DEF CopyEnds, CopyDone
  <2>2. CASE CopyFails(c, d)
    <3>1. log' \in [Conns -> Seq({"opened", "closed", "error"})]
      <4>1. log' = log \/ log' = [log EXCEPT ![c] = Append(@, "error")]
        BY <2>2 DEF CopyFails, CopyDone, Report
      <4>2. log[c] \in Seq({"opened", "closed", "error"})
        OBVIOUS
      <4>3. Append(log[c], "error") \in Seq({"opened", "closed", "error"})
        BY <4>2
      <4>4. [log EXCEPT ![c] = Append(@, "error")]
              \in [Conns -> Seq({"opened", "closed", "error"})]
        BY <4>3
      <4> QED BY <4>1, <4>4
    <3>2. logged' \subseteq Conns /\ failed' \subseteq Conns
      BY <2>2 DEF CopyFails, CopyDone, Report
    <3>3. /\ copying' \subseteq copying /\ writing' \subseteq copying'
          /\ UNCHANGED <<running, listener, loop, stop, closing, timedOut,
                         tracked, wg, pc, sock, entries>>
      BY <2>2 DEF CopyFails, CopyDone
    <3> QED BY <3>1, <3>2, <3>3
  <2>3. CASE CopyClosed(c, d)
    BY <2>3 DEF CopyClosed, CopyDone
  <2>4. CASE CopyWrites(c, d)
    BY <2>4 DEF CopyWrites
  <2>5. CASE CopyWritten(c, d)
    BY <2>5 DEF CopyWritten
  <2> QED BY <1>8, <2>1, <2>2, <2>3, <2>4, <2>5 DEF CopyStep
<1> QED
  BY <1>1, <1>2, <1>3, <1>4, <1>5, <1>6, <1>7, <1>8 DEF Next

\* The type invariant of the forwarder holds in every behaviour.
THEOREM TcpTypeCorrect == Spec => []TypeOK
<1>1. Init => TypeOK
  BY InitIInv DEF IInv
<1> QED BY <1>1, TypeStep, PTL DEF Spec
(***************************************************************************)
(* The wait group: who is counted, and that a clean wait leaves nobody.     *)
(***************************************************************************)

LEMMA GroupStep == IInv /\ [Next]_vars => (GroupCounts /\ HandlersNeedALoop /\ NobodyAfterACleanWait)'
<1> SUFFICES ASSUME IInv, [Next]_vars PROVE (GroupCounts /\ HandlersNeedALoop /\ NobodyAfterACleanWait)'
  OBVIOUS
<1>0. TypeOK /\ TypeOK'
  BY TypeStep DEF IInv
<1> USE ConnsAssumption, <1>0 DEF TypeOK, IInv, GroupCounts, HandlersNeedALoop, NobodyAfterACleanWait, Live, Sockets, Sides, server, LoopProc
<1>1. CASE UNCHANGED vars
  BY <1>1 DEF vars
<1>2. CASE Start
  <2>1. wg' = {LoopProc} /\ loop' = "accepting" /\ pc' = pc /\ stop' = "no"
    BY <1>2 DEF Start
  <2>2. \A c \in Conns : pc[c] = "none"
    BY <1>2 DEF Start, HandlersNeedALoop
  <2>3. \A c \in Conns : c \notin wg'
    BY <2>1
  <2>4. listener' = "open"
    BY <1>2 DEF Start
  <2> QED BY <2>1, <2>2, <2>3, <2>4
<1>3. CASE LoopEnds
  BY <1>3 DEF LoopEnds
<1>4. CASE BeginStop
  BY <1>4 DEF BeginStop
<1>5. CASE StopStep
  <2>1. CASE CloseListener
    BY <2>1 DEF CloseListener
  <2>2. ASSUME NEW s \in Sockets, CloseOne(s) PROVE (GroupCounts /\ HandlersNeedALoop /\ NobodyAfterACleanWait)'
    BY <2>2 DEF CloseOne, CloseSockets
  <2>3. CASE StopWaited
    BY <2>3 DEF StopWaited
  <2>4. CASE CloseConnectionsForRule
    BY <2>4 DEF CloseConnectionsForRule
  <2> QED BY <1>5, <2>1, <2>2, <2>3, <2>4 DEF StopStep
<1>6. ASSUME NEW c \in Conns, Accept(c) PROVE (GroupCounts /\ HandlersNeedALoop /\ NobodyAfterACleanWait)'
  BY <1>6 DEF Accept, Go
<1>7. ASSUME NEW c \in Conns, HandlerStep(c) PROVE (GroupCounts /\ HandlersNeedALoop /\ NobodyAfterACleanWait)'
  <2>1. CASE AddClient(c)
    BY <2>1 DEF AddClient, Go
  <2>2. CASE OpenConnection(c)
    BY <2>2 DEF OpenConnection, Go
  <2>3. CASE EmitOpened(c)
    BY <2>3 DEF EmitOpened, Go
  <2>4. CASE DialFails(c)
    BY <2>4 DEF DialFails, Report, Go
  <2>5. CASE Dialled(c)
    BY <2>5 DEF Dialled, Go
  <2>6. CASE AddTarget(c)
    BY <2>6 DEF AddTarget, Go
  <2>7. CASE CloseBoth(c)
    BY <2>7 DEF CloseBoth, CloseSockets, Go
  <2>8. CASE Drained(c)
    BY <2>8 DEF Drained, CloseSockets, Go
  <2>9. CASE RemoveClient(c)
    BY <2>9 DEF RemoveClient, CloseSockets, Go
  <2>10. CASE CloseConnection(c)
    BY <2>10 DEF CloseConnection, Go
  <2>11. CASE EmitClosed(c)
    BY <2>11 DEF EmitClosed, Go
  <2> QED
    BY <1>7, <2>1, <2>2, <2>3, <2>4, <2>5, <2>6, <2>7, <2>8, <2>9, <2>10, <2>11
       DEF HandlerStep
<1>8. ASSUME NEW c \in Conns, NEW d \in Sides, CopyStep(c, d)
      PROVE  (GroupCounts /\ HandlersNeedALoop /\ NobodyAfterACleanWait)'
  <2>1. CASE CopyEnds(c, d)
    BY <2>1 DEF CopyEnds, CopyDone
  <2>2. CASE CopyFails(c, d)
    BY <2>2 DEF CopyFails, CopyDone, Report
  <2>3. CASE CopyClosed(c, d)
    BY <2>3 DEF CopyClosed, CopyDone
  <2>4. CASE CopyWrites(c, d)
    BY <2>4 DEF CopyWrites
  <2>5. CASE CopyWritten(c, d)
    BY <2>5 DEF CopyWritten
  <2> QED BY <1>8, <2>1, <2>2, <2>3, <2>4, <2>5 DEF CopyStep
<1> QED
  BY <1>1, <1>2, <1>3, <1>4, <1>5, <1>6, <1>7, <1>8 DEF Next

(***************************************************************************)
(* What a handler holds at each of its positions.                          *)
(***************************************************************************)

LEMMA HoldStep == IInv /\ [Next]_vars => HandlersHold'
<1> SUFFICES ASSUME IInv, [Next]_vars, NEW k \in Conns PROVE HoldsAt(k)'
  BY DEF HandlersHold
<1>0. TypeOK /\ TypeOK' /\ HoldsAt(k)
  BY TypeStep DEF IInv, HandlersHold
<1> USE <1>0 DEF TypeOK
<1>1. CASE UNCHANGED vars
  <2>1. SameHold(k)
    BY <1>1 DEF vars, SameHold
  <2> QED BY <2>1, SameHoldIsEnough
<1>2. CASE Start
  <2>1. SameHold(k)
    BY <1>2 DEF Start, SameHold
  <2> QED BY <2>1, SameHoldIsEnough
<1>3. CASE LoopEnds
  <2>1. SameHold(k)
    BY <1>3 DEF LoopEnds, SameHold
  <2> QED BY <2>1, SameHoldIsEnough
<1>4. CASE BeginStop
  <2>1. SameHold(k)
    BY <1>4 DEF BeginStop, SameHold
  <2> QED BY <2>1, SameHoldIsEnough
<1>5. CASE StopStep
  <2>1. SameHold(k)
    <3>1. CASE CloseListener
      BY <3>1 DEF CloseListener, SameHold
    <3>2. CASE StopWaited
      BY <3>2 DEF StopWaited, SameHold
    <3>3. CASE CloseConnectionsForRule
      BY <3>3 DEF CloseConnectionsForRule, SameHold
    <3>4. ASSUME NEW s \in Sockets, CloseOne(s) PROVE SameHold(k)
      BY <3>4 DEF CloseOne, CloseSockets, SameHold, Sockets
    <3> QED BY <1>5, <3>1, <3>2, <3>3, <3>4 DEF StopStep
  <2> QED BY <2>1, SameHoldIsEnough
<1>6. ASSUME NEW c \in Conns, Accept(c) PROVE HoldsAt(k)'
  <2>1. CASE k # c
    <3>1. SameHold(k)
      BY <1>6, <2>1 DEF Accept, Go, SameHold, Sockets, server, Sockets, Sides
    <3> QED BY <3>1, SameHoldIsEnough
  <2>2. CASE k = c
    <3>1. pc[c] = "none" /\ pc'[c] = "accepted"
      BY <1>6 DEF Accept, Go
    <3>2. /\ sock'[<<c, "target">>] = sock[<<c, "target">>]
           /\ tracked' = tracked
           /\ entries' = entries
      BY <1>6 DEF Accept, Sockets, server, Sockets, Sides
    <3> QED BY <2>2, <3>1, <3>2 DEF HoldsAt, Sides
  <2> QED BY <2>1, <2>2
<1>7. ASSUME NEW c \in Conns, HandlerStep(c) PROVE HoldsAt(k)'
  <2>1. CASE AddClient(c)
    <3>1. CASE k # c
      <4>1. SameHold(k)
        BY <2>1, <3>1 DEF AddClient, Go, SameHold, Sockets, server, Sockets, Sides
      <4> QED BY <4>1, SameHoldIsEnough
    <3>2. CASE k = c
      <4>1. pc[c] = "accepted" /\ pc'[c] = "added"
        BY <2>1 DEF AddClient, Go
      <4>2. /\ sock' = sock
             /\ tracked' = tracked \union {<<c, "client">>}
             /\ entries' = entries
        BY <2>1 DEF AddClient, Sockets, server, Sockets, Sides
      <4> QED BY <3>2, <4>1, <4>2 DEF HoldsAt, Sides
    <3> QED BY <3>1, <3>2
  <2>2. CASE OpenConnection(c)
    <3>1. CASE k # c
      <4>1. SameHold(k)
        BY <2>2, <3>1 DEF OpenConnection, Go, SameHold, Sockets, server, Sockets, Sides
      <4> QED BY <4>1, SameHoldIsEnough
    <3>2. CASE k = c
      <4>1. pc[c] = "added" /\ pc'[c] = "registered"
        BY <2>2 DEF OpenConnection, Go
      <4>2. /\ sock' = sock
             /\ tracked' = tracked
        BY <2>2 DEF OpenConnection, Sockets, server, Sockets, Sides
      <4> QED BY <3>2, <4>1, <4>2 DEF HoldsAt, Sides
    <3> QED BY <3>1, <3>2
  <2>3. CASE EmitOpened(c)
    <3>1. CASE k # c
      <4>1. SameHold(k)
        BY <2>3, <3>1 DEF EmitOpened, Go, SameHold, Sockets, server, Sockets, Sides
      <4> QED BY <4>1, SameHoldIsEnough
    <3>2. CASE k = c
      <4>1. pc[c] = "registered" /\ pc'[c] = "dialing"
        BY <2>3 DEF EmitOpened, Go
      <4>2. /\ sock' = sock
             /\ tracked' = tracked
             /\ entries' = entries
        BY <2>3 DEF EmitOpened, Sockets, server, Sockets, Sides
      <4> QED BY <3>2, <4>1, <4>2 DEF HoldsAt, Sides
    <3> QED BY <3>1, <3>2
  <2>4. CASE DialFails(c)
    <3>1. CASE k # c
      <4>1. SameHold(k)
        BY <2>4, <3>1 DEF DialFails, Report, Go, SameHold, Sockets, server, Sockets, Sides
      <4> QED BY <4>1, SameHoldIsEnough
    <3>2. CASE k = c
      <4>1. pc[c] = "dialing" /\ pc'[c] = "closing"
        BY <2>4 DEF DialFails, Go
      <4>2. /\ sock' = sock
             /\ tracked' = tracked
             /\ entries' = entries
        BY <2>4 DEF DialFails, Report, Sockets, server, Sockets, Sides
      <4> QED BY <3>2, <4>1, <4>2 DEF HoldsAt, Sides
    <3> QED BY <3>1, <3>2
  <2>5. CASE Dialled(c)
    <3>1. CASE k # c
      <4>1. SameHold(k)
        BY <2>5, <3>1 DEF Dialled, Go, SameHold, Sockets, server, Sockets, Sides
      <4> QED BY <4>1, SameHoldIsEnough
    <3>2. CASE k = c
      <4>1. pc[c] = "dialing" /\ pc'[c] = "dialled"
        BY <2>5 DEF Dialled, Go
      <4>2. /\ tracked' = tracked
             /\ entries' = entries
        BY <2>5 DEF Dialled, Sockets, server, Sockets, Sides
      <4> QED BY <3>2, <4>1, <4>2 DEF HoldsAt, Sides
    <3> QED BY <3>1, <3>2
  <2>6. CASE AddTarget(c)
    <3>1. CASE k # c
      <4>1. SameHold(k)
        BY <2>6, <3>1 DEF AddTarget, Go, SameHold, Sockets, server, Sockets, Sides
      <4> QED BY <4>1, SameHoldIsEnough
    <3>2. CASE k = c
      <4>1. pc[c] = "dialled" /\ pc'[c] = "copying"
        BY <2>6 DEF AddTarget, Go
      <4>2. /\ sock' = sock
             /\ tracked' = tracked \union {<<c, "target">>}
             /\ entries' = entries
        BY <2>6 DEF AddTarget, Sockets, server, Sockets, Sides
      <4> QED BY <3>2, <4>1, <4>2 DEF HoldsAt, Sides
    <3> QED BY <3>1, <3>2
  <2>7. CASE CloseBoth(c)
    <3>1. CASE k # c
      <4>1. SameHold(k)
        BY <2>7, <3>1 DEF CloseBoth, CloseSockets, Go, SameHold, Sockets, server, Sockets, Sides
      <4> QED BY <4>1, SameHoldIsEnough
    <3>2. CASE k = c
      <4>1. pc[c] = "copying" /\ pc'[c] = "draining"
        BY <2>7 DEF CloseBoth, Go
      <4>2. /\ sock'[<<c, "client">>] # "open"
             /\ sock'[<<c, "target">>] # "open"
             /\ tracked' = tracked
             /\ entries' = entries
        BY <2>7 DEF CloseBoth, CloseSockets, Sockets, server, Sockets, Sides
      <4> QED BY <3>2, <4>1, <4>2 DEF HoldsAt, Sides
    <3> QED BY <3>1, <3>2
  <2>8. CASE Drained(c)
    <3>1. CASE k # c
      <4>1. SameHold(k)
        BY <2>8, <3>1 DEF Drained, CloseSockets, Go, SameHold, Sockets, server, Sockets, Sides
      <4> QED BY <4>1, SameHoldIsEnough
    <3>2. CASE k = c
      <4>1. pc[c] = "draining" /\ pc'[c] = "closing"
        BY <2>8 DEF Drained, Go
      <4>2. /\ sock'[<<c, "target">>] # "open"
             /\ tracked' = tracked \ {<<c, "target">>}
             /\ entries' = entries
        BY <2>8 DEF Drained, CloseSockets, Sockets, server, Sockets, Sides
      <4> QED BY <3>2, <4>1, <4>2 DEF HoldsAt, Sides
    <3> QED BY <3>1, <3>2
  <2>9. CASE RemoveClient(c)
    <3>1. CASE k # c
      <4>1. SameHold(k)
        BY <2>9, <3>1 DEF RemoveClient, CloseSockets, Go, SameHold, Sockets, server, Sockets, Sides
      <4> QED BY <4>1, SameHoldIsEnough
    <3>2. CASE k = c
      <4>1. pc[c] = "closing" /\ pc'[c] = "unlisting"
        BY <2>9 DEF RemoveClient, Go
      <4>2. /\ sock'[<<c, "client">>] # "open"
             /\ sock'[<<c, "target">>] = sock[<<c, "target">>]
             /\ tracked' = tracked \ {<<c, "client">>}
             /\ entries' = entries
        BY <2>9 DEF RemoveClient, CloseSockets, Sockets, server, Sockets, Sides
      <4> QED BY <3>2, <4>1, <4>2 DEF HoldsAt, Sides
    <3> QED BY <3>1, <3>2
  <2>10. CASE CloseConnection(c)
    <3>1. CASE k # c
      <4>1. SameHold(k)
        BY <2>10, <3>1 DEF CloseConnection, Go, SameHold, Sockets, server, Sockets, Sides
      <4> QED BY <4>1, SameHoldIsEnough
    <3>2. CASE k = c
      <4>1. pc[c] = "unlisting" /\ pc'[c] = "reporting"
        BY <2>10 DEF CloseConnection, Go
      <4>2. /\ sock' = sock
             /\ tracked' = tracked
             /\ entries' = entries \ {c}
        BY <2>10 DEF CloseConnection, Sockets, server, Sockets, Sides
      <4> QED BY <3>2, <4>1, <4>2 DEF HoldsAt, Sides
    <3> QED BY <3>1, <3>2
  <2>11. CASE EmitClosed(c)
    <3>1. CASE k # c
      <4>1. SameHold(k)
        BY <2>11, <3>1 DEF EmitClosed, Go, SameHold, Sockets, server, Sockets, Sides
      <4> QED BY <4>1, SameHoldIsEnough
    <3>2. CASE k = c
      <4>1. pc[c] = "reporting" /\ pc'[c] = "ended"
        BY <2>11 DEF EmitClosed, Go
      <4>2. /\ sock' = sock
             /\ tracked' = tracked
             /\ entries' = entries
        BY <2>11 DEF EmitClosed, Sockets, server, Sockets, Sides
      <4> QED BY <3>2, <4>1, <4>2 DEF HoldsAt, Sides
    <3> QED BY <3>1, <3>2
  <2> QED
    BY <1>7, <2>1, <2>2, <2>3, <2>4, <2>5, <2>6, <2>7, <2>8, <2>9, <2>10, <2>11
       DEF HandlerStep
<1>8. ASSUME NEW c \in Conns, NEW d \in Sides, CopyStep(c, d)
      PROVE  HoldsAt(k)'
  <2>1. SameHold(k)
    BY <1>8 DEF CopyStep, CopyWrites, CopyWritten, CopyEnds, CopyFails, CopyClosed, CopyDone, SameHold
  <2> QED BY <2>1, SameHoldIsEnough
<1> QED
  BY <1>1, <1>2, <1>3, <1>4, <1>5, <1>6, <1>7, <1>8 DEF Next

(***************************************************************************)
(* The events of a connection.                                             *)
(***************************************************************************)

LEMMA LogStep == IInv /\ [Next]_vars => (LoggedIsOpened /\ OneEndEvent /\ ErrorsHaveACause)'
<1> SUFFICES ASSUME IInv, [Next]_vars
             PROVE  (LoggedIsOpened /\ OneEndEvent /\ ErrorsHaveACause)'
  OBVIOUS
<1>a. TypeOK /\ TypeOK'
  BY TypeStep DEF IInv
<1> SUFFICES ASSUME NEW k \in Conns PROVE LogAt(k)'
  BY <1>a DEF LogAt, LoggedIsOpened, OneEndEvent, ErrorsHaveACause, TypeOK
<1>0. TypeOK /\ TypeOK' /\ LogAt(k)
  BY <1>a DEF IInv, LogAt, LoggedIsOpened, OneEndEvent, ErrorsHaveACause
<1> USE <1>0 DEF TypeOK
<1>1. CASE UNCHANGED vars
  <2>1. SameLog(k)
    BY <1>1 DEF vars, SameLog
  <2> QED BY <2>1, SameLogIsEnough
<1>2. CASE Start
  <2>1. SameLog(k)
    BY <1>2 DEF Start, SameLog
  <2> QED BY <2>1, SameLogIsEnough
<1>3. CASE LoopEnds
  <2>1. SameLog(k)
    BY <1>3 DEF LoopEnds, SameLog
  <2> QED BY <2>1, SameLogIsEnough
<1>4. CASE BeginStop
  <2>1. SameLog(k)
    BY <1>4 DEF BeginStop, SameLog
  <2> QED BY <2>1, SameLogIsEnough
<1>5. CASE StopStep
  <2>1. SameLog(k)
    <3>1. CASE CloseListener
      BY <3>1 DEF CloseListener, SameLog
    <3>2. CASE StopWaited
      BY <3>2 DEF StopWaited, SameLog
    <3>3. CASE CloseConnectionsForRule
      BY <3>3 DEF CloseConnectionsForRule, SameLog
    <3>4. ASSUME NEW s \in Sockets, CloseOne(s) PROVE SameLog(k)
      BY <3>4 DEF CloseOne, CloseSockets, SameLog, Sockets
    <3> QED BY <1>5, <3>1, <3>2, <3>3, <3>4 DEF StopStep
  <2> QED BY <2>1, SameLogIsEnough
<1>6. ASSUME NEW c \in Conns, Accept(c) PROVE LogAt(k)'
  <2>1. CASE k # c
    <3>1. SameLog(k)
      BY <1>6, <2>1 DEF Accept, Go, SameLog, Sockets, server
    <3> QED BY <3>1, SameLogIsEnough
  <2>2. CASE k = c
    <3>1. pc[c] = "none" /\ pc'[c] = "accepted"
      BY <1>6 DEF Accept, Go
    <3>2. log' = log /\ logged' = logged /\ failed' = failed
      BY <1>6 DEF Accept
    <3> QED BY <2>2, <3>1, <3>2 DEF LogAt, Reported
  <2> QED BY <2>1, <2>2
<1>7. ASSUME NEW c \in Conns, HandlerStep(c) PROVE LogAt(k)'
  <2>1. CASE AddClient(c)
    <3>1. CASE k # c
      <4>1. SameLog(k)
        BY <2>1, <3>1 DEF AddClient, Go, SameLog, Sockets, server
      <4> QED BY <4>1, SameLogIsEnough
    <3>2. CASE k = c
      <4>1. pc[c] = "accepted" /\ pc'[c] = "added"
        BY <2>1 DEF AddClient, Go
      <4>2. log' = log /\ logged' = logged /\ failed' = failed
        BY <2>1 DEF AddClient
      <4> QED BY <3>2, <4>1, <4>2 DEF LogAt, Reported
    <3> QED BY <3>1, <3>2
  <2>2. CASE OpenConnection(c)
    <3>1. CASE k # c
      <4>1. SameLog(k)
        BY <2>2, <3>1 DEF OpenConnection, Go, SameLog, Sockets, server
      <4> QED BY <4>1, SameLogIsEnough
    <3>2. CASE k = c
      <4>1. pc[c] = "added" /\ pc'[c] = "registered"
        BY <2>2 DEF OpenConnection, Go
      <4>2. log' = log /\ logged' = logged /\ failed' = failed
        BY <2>2 DEF OpenConnection
      <4> QED BY <3>2, <4>1, <4>2 DEF LogAt, Reported
    <3> QED BY <3>1, <3>2
  <2>3. CASE EmitOpened(c)
    <3>1. CASE k # c
      <4>1. SameLog(k)
        BY <2>3, <3>1 DEF EmitOpened, Go, SameLog, Sockets, server
      <4> QED BY <4>1, SameLogIsEnough
    <3>2. CASE k = c
      <4>1. pc[c] = "registered" /\ pc'[c] = "dialing"
        BY <2>3 DEF EmitOpened, Go
      <4>2. log[c] = <<>> /\ c \notin logged
        BY <3>2, <4>1 DEF LogAt, Reported
      <4>3. log'[c] = <<"opened">> /\ logged' = logged
        BY <2>3, <4>2, EventSequences DEF EmitOpened
      <4> QED BY <3>2, <4>1, <4>2, <4>3 DEF LogAt, Reported
    <3> QED BY <3>1, <3>2
  <2>4. CASE DialFails(c)
    <3>1. CASE k # c
      <4>1. SameLog(k)
        BY <2>4, <3>1 DEF DialFails, Report, Go, SameLog, Sockets, server
      <4> QED BY <4>1, SameLogIsEnough
    <3>2. CASE k = c
      <4>1. pc[c] = "dialing" /\ pc'[c] = "closing"
        BY <2>4 DEF DialFails, Go
      <4>2. log[c] = <<"opened">> /\ c \notin logged
        BY <3>2, <4>1 DEF LogAt, Reported
      <4>3. log'[c] = <<"opened", "error">> /\ c \in logged' /\ c \in failed'
        BY <2>4, <4>2, EventSequences DEF DialFails, Report
      <4> QED BY <3>2, <4>1, <4>2, <4>3 DEF LogAt, Reported
    <3> QED BY <3>1, <3>2
  <2>5. CASE Dialled(c)
    <3>1. CASE k # c
      <4>1. SameLog(k)
        BY <2>5, <3>1 DEF Dialled, Go, SameLog, Sockets, server
      <4> QED BY <4>1, SameLogIsEnough
    <3>2. CASE k = c
      <4>1. pc[c] = "dialing" /\ pc'[c] = "dialled"
        BY <2>5 DEF Dialled, Go
      <4>2. log' = log /\ logged' = logged /\ failed' = failed
        BY <2>5 DEF Dialled
      <4> QED BY <3>2, <4>1, <4>2 DEF LogAt, Reported
    <3> QED BY <3>1, <3>2
  <2>6. CASE AddTarget(c)
    <3>1. CASE k # c
      <4>1. SameLog(k)
        BY <2>6, <3>1 DEF AddTarget, Go, SameLog, Sockets, server
      <4> QED BY <4>1, SameLogIsEnough
    <3>2. CASE k = c
      <4>1. pc[c] = "dialled" /\ pc'[c] = "copying"
        BY <2>6 DEF AddTarget, Go
      <4>2. log' = log /\ logged' = logged /\ failed' = failed
        BY <2>6 DEF AddTarget
      <4> QED BY <3>2, <4>1, <4>2 DEF LogAt, Reported
    <3> QED BY <3>1, <3>2
  <2>7. CASE CloseBoth(c)
    <3>1. CASE k # c
      <4>1. SameLog(k)
        BY <2>7, <3>1 DEF CloseBoth, CloseSockets, Go, SameLog, Sockets, server
      <4> QED BY <4>1, SameLogIsEnough
    <3>2. CASE k = c
      <4>1. pc[c] = "copying" /\ pc'[c] = "draining"
        BY <2>7 DEF CloseBoth, Go
      <4>2. log' = log /\ logged' = logged /\ failed' = failed
        BY <2>7 DEF CloseBoth
      <4> QED BY <3>2, <4>1, <4>2 DEF LogAt, Reported
    <3> QED BY <3>1, <3>2
  <2>8. CASE Drained(c)
    <3>1. CASE k # c
      <4>1. SameLog(k)
        BY <2>8, <3>1 DEF Drained, CloseSockets, Go, SameLog, Sockets, server
      <4> QED BY <4>1, SameLogIsEnough
    <3>2. CASE k = c
      <4>1. pc[c] = "draining" /\ pc'[c] = "closing"
        BY <2>8 DEF Drained, Go
      <4>2. log' = log /\ logged' = logged /\ failed' = failed
        BY <2>8 DEF Drained
      <4> QED BY <3>2, <4>1, <4>2 DEF LogAt, Reported
    <3> QED BY <3>1, <3>2
  <2>9. CASE RemoveClient(c)
    <3>1. CASE k # c
      <4>1. SameLog(k)
        BY <2>9, <3>1 DEF RemoveClient, CloseSockets, Go, SameLog, Sockets, server
      <4> QED BY <4>1, SameLogIsEnough
    <3>2. CASE k = c
      <4>1. pc[c] = "closing" /\ pc'[c] = "unlisting"
        BY <2>9 DEF RemoveClient, Go
      <4>2. log' = log /\ logged' = logged /\ failed' = failed
        BY <2>9 DEF RemoveClient
      <4> QED BY <3>2, <4>1, <4>2 DEF LogAt, Reported
    <3> QED BY <3>1, <3>2
  <2>10. CASE CloseConnection(c)
    <3>1. CASE k # c
      <4>1. SameLog(k)
        BY <2>10, <3>1 DEF CloseConnection, Go, SameLog, Sockets, server
      <4> QED BY <4>1, SameLogIsEnough
    <3>2. CASE k = c
      <4>1. pc[c] = "unlisting" /\ pc'[c] = "reporting"
        BY <2>10 DEF CloseConnection, Go
      <4>2. log' = log /\ logged' = logged /\ failed' = failed
        BY <2>10 DEF CloseConnection
      <4> QED BY <3>2, <4>1, <4>2 DEF LogAt, Reported
    <3> QED BY <3>1, <3>2
  <2>11. CASE EmitClosed(c)
    <3>1. CASE k # c
      <4>1. SameLog(k)
        BY <2>11, <3>1 DEF EmitClosed, Go, SameLog, Sockets, server
      <4> QED BY <4>1, SameLogIsEnough
    <3>2. CASE k = c
      <4>1. pc[c] = "reporting" /\ pc'[c] = "ended"
        BY <2>11 DEF EmitClosed, Go
      <4>2. log[c] = IF c \in logged THEN <<"opened", "error">> ELSE <<"opened">>
        BY <3>2, <4>1 DEF LogAt, Reported
      <4>3. log'[c] = (IF c \in logged THEN <<"opened", "error">> ELSE <<"opened", "closed">>) /\ logged' = logged /\ failed' = failed
        BY <2>11, <4>2, EventSequences DEF EmitClosed
      <4> QED BY <3>2, <4>1, <4>2, <4>3 DEF LogAt, Reported
    <3> QED BY <3>1, <3>2
  <2> QED
    BY <1>7, <2>1, <2>2, <2>3, <2>4, <2>5, <2>6, <2>7, <2>8, <2>9, <2>10, <2>11
       DEF HandlerStep
<1>8. ASSUME NEW c \in Conns, NEW d \in Sides, CopyStep(c, d)
      PROVE  LogAt(k)'
  <2>1. CASE CopyWrites(c, d) \/ CopyWritten(c, d) \/ CopyEnds(c, d) \/ CopyClosed(c, d)
    <3>1. SameLog(k)
      BY <2>1 DEF CopyWrites, CopyWritten, CopyEnds, CopyClosed, CopyDone, SameLog
    <3> QED BY <3>1, SameLogIsEnough
  <2>2. CASE CopyFails(c, d)
    <3>1. CASE k # c \/ ~ running \/ c \in logged
      <4>1. SameLog(k)
        BY <2>2, <3>1 DEF CopyFails, CopyDone, Report, SameLog
      <4> QED BY <4>1, SameLogIsEnough
    <3>2. CASE k = c /\ running /\ c \notin logged
      <4>1. /\ pc[c] \in {"copying", "draining"} /\ pc'[c] = pc[c]
            /\ c \in logged' /\ c \in failed'
        BY <2>2, <3>2 DEF CopyFails, CopyDone, Report
      <4>2. log[c] = <<"opened">>
        BY <3>2, <4>1 DEF LogAt, Reported
      <4>3. log'[c] = <<"opened", "error">>
        BY <2>2, <3>2, <4>2, EventSequences DEF CopyFails, Report
      <4> QED BY <3>2, <4>1, <4>3 DEF LogAt, Reported
    <3> QED BY <3>1, <3>2
  <2> QED BY <1>8, <2>1, <2>2 DEF CopyStep
<1> QED
  BY <1>1, <1>2, <1>3, <1>4, <1>5, <1>6, <1>7, <1>8 DEF Next

(***************************************************************************)
(* The theorems.                                                           *)
(***************************************************************************)

LEMMA Invariance == Spec => []IInv
<1>1. IInv /\ [Next]_vars => IInv'
  BY TypeStep, GroupStep, HoldStep, LogStep DEF IInv
<1> QED BY InitIInv, <1>1, PTL DEF Spec

\* Every accepted connection reports one opened event and one end, never both a
\* close and an error, and an error only for a real failure.
THEOREM TcpEventsAreTrue == Spec => []EventsAreTrue
<1>1. IInv => EventsAreTrue
  BY DEF IInv, EventsAreTrue
<1> QED BY Invariance, <1>1, PTL

\* The registry never lists a connection whose handler is gone, and every socket
\* that is open or tracked has a handler that will close it.
THEOREM TcpNothingOrphaned == Spec => []NothingOrphaned
<1>1. IInv => NothingOrphaned
  <2> SUFFICES ASSUME IInv PROVE NoGhostEntries /\ SocketsHaveAHandler
    BY DEF NothingOrphaned
  <2>1. NoGhostEntries
    BY DEF IInv, HandlersHold, HoldsAt, NoGhostEntries, TypeOK
  <2>2. ASSUME NEW s \in Sockets, sock[s] = "open" \/ s \in tracked
        PROVE  pc[s[1]] \notin {"none", "ended"}
    <3>1. PICK c \in Conns, d \in Sides : s = <<c, d>>
      BY DEF Sockets
    <3> QED BY <2>2, <3>1 DEF IInv, HandlersHold, HoldsAt, Sides
  <2> QED BY <2>1, <2>2 DEF SocketsHaveAHandler
<1> QED BY Invariance, <1>1, PTL

\* When Stop returns without having timed out, nothing of the rule is left.
THEOREM TcpCleanStopIsComplete == Spec => []CleanStopIsComplete
<1>1. IInv => CleanStopIsComplete
  <2> SUFFICES ASSUME IInv, stop = "done", ~ timedOut
               PROVE  /\ loop # "accepting"
                      /\ entries = {}
                      /\ \A c \in Conns : pc[c] \in {"none", "ended"}
                      /\ \A s \in Sockets : sock[s] # "open"
    BY DEF CleanStopIsComplete
  <2>1. wg = {}
    BY DEF IInv, NobodyAfterACleanWait
  <2>2. loop # "accepting" /\ \A c \in Conns : pc[c] \in {"none", "ended"}
    BY <2>1 DEF IInv, GroupCounts, Live
  <2>3. entries = {}
    BY <2>2 DEF IInv, HandlersHold, HoldsAt, TypeOK
  <2>4. ASSUME NEW s \in Sockets PROVE sock[s] # "open"
    <3>1. PICK c \in Conns, d \in Sides : s = <<c, d>>
      BY DEF Sockets
    <3> QED BY <2>2, <3>1 DEF IInv, HandlersHold, HoldsAt, Sides
  <2> QED BY <2>2, <2>3, <2>4
<1> QED BY Invariance, <1>1, PTL
=============================================================================
