------------------------ MODULE PipelineTimersProofs ------------------------
(***************************************************************************)
(* What the timers and immediates of Pipeline do: a heartbeat is alone, a   *)
(* closed client stays empty, no command is stuck in the buffer or dropped  *)
(* from it.  The inductive invariant of PipelineProofs gives the state of   *)
(* the socket.                                                              *)
(***************************************************************************)
EXTENDS PipelineProofs

\* The heartbeat ticks on an established connection, or one that the client
\* has dropped and whose close event, which cancels it, is to come.
Ticking == pingTimer => Established \/ closeEvent

TimersInv == Ticking /\ ClosedIsEmpty /\ NoStuckCommands

-----------------------------------------------------------------------------
(* Steps that matter to several parts                                       *)

\* Calls and answers that issue a command leave the connection as it is.
LEMMA SendKeeps ==
    ASSUME IInv, TimersInv, ~closed, NEW kind, SendCommand(kind),
           pongs' = pongs \/ pongs' = pongs \cup {Len(log) + 1},
           UNCHANGED <<closed, connected, infoReceived, stream, closeEvent, pingTimer>>
    PROVE  TimersInv'
<1>1. Len(log) + 1 # Handshake
  BY DEF IInv, TypeOK, LogOK, Handshake
<1>2. Established' = Established
  BY <1>1 DEF Established
<1>3. Ticking' /\ ClosedIsEmpty'
  BY <1>2 DEF TimersInv, Ticking, ClosedIsEmpty
<1>4. NoStuckCommands'
  <2>1. CASE outbound = {} /\ immediate'
    BY <2>1 DEF NoStuckCommands
  <2>2. CASE outbound # {} /\ UNCHANGED immediate
    BY <2>2, <1>2 DEF TimersInv, NoStuckCommands
  <2>3. CASE Flushed(outbound \cup {Len(log) + 1}) /\ UNCHANGED immediate
    BY <2>3, <1>2, FlushedShape DEF NoStuckCommands, Established
  <2>4. QED BY <2>1, <2>2, <2>3 DEF SendCommand
<1>5. QED BY <1>3, <1>4 DEF TimersInv

\* A buffer is flushed: nothing of it is left on an established connection,
\* and a closed client has none.
LEMMA FlushKeeps ==
    ASSUME TimersInv, Flushed(outbound),
           UNCHANGED <<closed, infoReceived, stream, closeEvent, pongs, pingTimer, log>>
    PROVE  TimersInv'
<1>1. Established' = Established
  BY DEF Established
<1>2. infoReceived => outbound' = {}
  BY FlushedShape
<1>3. closed => outbound' = {} /\ wire' = {}
  BY FlushedShape DEF TimersInv, ClosedIsEmpty
<1>4. ClosedIsEmpty'
  BY <1>3 DEF TimersInv, ClosedIsEmpty
<1>5. QED
  BY <1>1, <1>2, <1>4 DEF TimersInv, Ticking, NoStuckCommands, Established

\* The client drops its stream: only the close event may find a heartbeat.
LEMMA DropKeeps ==
    ASSUME TimersInv, DropStream
    PROVE  TimersInv'
<1>1. stream' = "none" /\ closeEvent' /\ closed' = closed
  BY DEF DropStream
<1>2. closed => outbound' = {} /\ wire' = {} /\ pongs' = {}
  BY DEF DropStream, LeaveSocket, KeptByCloseStream, TimersInv, ClosedIsEmpty
<1>3. QED
  BY <1>1, <1>2 DEF TimersInv, Ticking, ClosedIsEmpty, NoStuckCommands, Established

\* close() in any handler: what it leaves waits for the close event.
LEMMA ClosingKeeps ==
    ASSUME TimersInv, Closing, pongs' = {} \/ closeEvent', pingTimer' => closeEvent',
           \A q \in pongs' : ~(q # Handshake /\ log'[q] = "flush")
    PROVE  TimersInv'
<1>1. /\ stream' = "none" /\ closed' /\ outbound' = {} /\ wire' = {}
  BY DEF Closing, LeaveSocket
<1>2. QED
  BY <1>1 DEF Ticking, ClosedIsEmpty, NoStuckCommands, TimersInv

\* scheduleReconnect() with nothing ticking: no connection yet, or closed and
\* empty.
LEMMA ScheduleKeeps ==
    ASSUME NEW cbs, ~closed, ScheduleReconnect(cbs), LeaveSocket, ~pingTimer', ~closeEvent'
    PROVE  TimersInv'
<1>1. stream' \in {"none", "dialing"} /\ wire' = {}
  BY DEF ScheduleReconnect, LeaveSocket
<1>2. ~Established'
  BY <1>1 DEF Established
<1>3. closed' => /\ outbound' = {} /\ pongs' = {}
                 /\ stream' # "none" => ~infoReceived'
  BY DEF ScheduleReconnect
<1>4. QED
  BY <1>1, <1>2, <1>3 DEF TimersInv, Ticking, ClosedIsEmpty, NoStuckCommands

\* handlers.close() cancels the heartbeat.
LEMMA HandlersCloseKeeps ==
    ASSUME HandlersClose, ~closed => ~closeEvent'
    PROVE  TimersInv'
<1>1. ~pingTimer' /\ LeaveSocket
  BY DEF HandlersClose, CancelHeartbeat
<1>2. CASE closed
  <2>1. stream' = "none" /\ pongs' = {} /\ outbound' = {} /\ wire' = {}
    BY <1>1, <1>2 DEF HandlersClose, LeaveSocket
  <2>2. QED
    BY <1>1, <2>1 DEF TimersInv, Ticking, ClosedIsEmpty, NoStuckCommands, Established
<1>3. CASE ~closed
  BY <1>1, <1>3, ScheduleKeeps DEF HandlersClose
<1>4. QED BY <1>2, <1>3

\* The PONG of the handshake flushes the buffer and starts the heartbeat; any
\* other is read on a connection that is established already.
LEMMA ReceivePongKeeps ==
    ASSUME IInv, TimersInv, ReceivePong
    PROVE  TimersInv'
<1>1. stream = "open" /\ infoReceived
  BY DEF ReceivePong
<1>2. UNCHANGED <<closed, connected, infoReceived, stream, closeEvent, retry>>
  BY DEF ReceivePong
<1>3. ~closed'
  BY <1>2 DEF ReceivePong
<1>4. CASE pongs = {} /\ UNCHANGED <<pongs, immediate, outbound, wire, pingTimer, fired>>
  BY <1>2, <1>3, <1>4 DEF TimersInv, Ticking, ClosedIsEmpty, NoStuckCommands, Established
<1>5. CASE \E q \in pongs : IsFirst(q, pongs) /\ pongs' = pongs \ {q}
             /\ q = Handshake /\ HandshakeDone
  <2>1. Established' /\ outbound' = {}
    BY <1>1, <1>2, <1>5, FlushedShape DEF HandshakeDone, Established
  <2>2. QED
    BY <1>3, <2>1 DEF TimersInv, Ticking, ClosedIsEmpty, NoStuckCommands
<1>6. CASE \E q \in pongs : IsFirst(q, pongs) /\ pongs' = pongs \ {q}
             /\ q # Handshake /\ UNCHANGED <<immediate, outbound, wire, pingTimer>>
  <2>1. PICK q \in pongs : IsFirst(q, pongs) /\ q # Handshake
    BY <1>6
  <2>2. q \in 0..Len(log) /\ Len(log) \in Nat
    BY DEF IInv, TypeOK, QueuesOK, LogOK, Pings
  <2>3. Handshake \notin pongs
    BY <2>1, <2>2 DEF IsFirst, Handshake
  <2>4. Established /\ Established'
    BY <1>1, <1>2, <1>6, <2>3 DEF Established
  <2>5. QED
    BY <1>2, <1>3, <1>6, <2>4 DEF TimersInv, Ticking, ClosedIsEmpty, NoStuckCommands
<1>7. QED BY <1>4, <1>5, <1>6 DEF ReceivePong

-----------------------------------------------------------------------------
(* Every step keeps the invariant                                           *)

LEMMA TimersInit == Init => TimersInv
  BY DEF Init, TimersInv, Ticking, ClosedIsEmpty, NoStuckCommands

LEMMA TimersNext == IInv /\ TimersInv /\ [Next]_vars => TimersInv'
<1> SUFFICES ASSUME IInv, TimersInv, [Next]_vars PROVE TimersInv'
  OBVIOUS
<1>1. CASE Publish \/ Flush
  BY <1>1, SendKeeps DEF Publish, Flush
<1>2. CASE Heartbeat \/ ReceivePing
  BY <1>2, SendKeeps DEF Heartbeat, ReceivePing
<1>3. CASE FlushPending \/ Secured
  BY <1>3, FlushKeeps DEF FlushPending, Secured, history
<1>4. CASE StaleConnection \/ HandshakeTimeout \/ InfoMismatch \/ ReceiveErr
  BY <1>4, DropKeeps DEF StaleConnection, HandshakeTimeout, InfoMismatch, ReceiveErr
<1>5. CASE Close
  BY <1>5, ClosingKeeps DEF Close, CancelHeartbeat
<1>12. CASE HeartbeatClosing
  <2>1. log'[Len(log) + 1] = "heartbeat"
    BY <1>12 DEF HeartbeatClosing, IInv, TypeOK, LogOK
  <2>2. closeEvent'
    BY <1>12 DEF HeartbeatClosing, Closing
  <2>3. QED
    BY <1>12, <2>1, <2>2, ClosingKeeps DEF HeartbeatClosing
<1>13. CASE ReceiveInfoClosing
  <2>1. closeEvent'
    BY <1>13 DEF ReceiveInfoClosing, Closing
  <2>2. QED
    BY <1>13, <2>1, ClosingKeeps DEF ReceiveInfoClosing, CancelHeartbeat
<1>14. CASE HeartbeatWhenClosed
  <2>1. UNCHANGED <<closed, infoReceived, stream, closeEvent, outbound, pongs,
                    immediate, wire, log>> /\ ~pingTimer'
    BY <1>14 DEF HeartbeatWhenClosed, network, history
  <2>2. QED
    BY <2>1 DEF TimersInv, Ticking, ClosedIsEmpty, NoStuckCommands, Established
<1>6. CASE CloseEvent \/ SocketLost \/ DialFailed
  <2>1. ~closed => ~closeEvent'
    BY <1>6 DEF CloseEvent, SocketLost, DialFailed, IInv, OneRecoveryPath
  <2>2. QED
    BY <1>6, <2>1, HandlersCloseKeeps DEF CloseEvent, SocketLost, DialFailed
<1>7. CASE RetryTimer
  <2>1. CASE closed
    <3>1. UNCHANGED <<closed, stream, infoReceived, closeEvent, pongs, outbound, wire,
                      immediate, pingTimer, log>>
      BY <1>7, <2>1 DEF RetryTimer
    <3>2. QED
      BY <3>1 DEF TimersInv, Ticking, ClosedIsEmpty, NoStuckCommands, Established
  <2>2. CASE ~closed
    <3>1. stream = "none" /\ ~closeEvent
      BY <1>7, <2>2 DEF RetryTimer, IInv, OneRecoveryPath
    <3>2. ~pingTimer
      BY <3>1 DEF IInv, SocketInv, TimersInv, Ticking, Established
    <3>3. ~closeEvent' /\ ~pingTimer' /\ LeaveSocket
      BY <1>7, <2>2, <3>1, <3>2 DEF RetryTimer
    <3>4. ScheduleReconnect(pongs)
      BY <1>7, <2>2 DEF RetryTimer
    <3>5. QED BY <2>2, <3>3, <3>4, ScheduleKeeps
  <2>3. QED BY <2>1, <2>2
<1>8. CASE DialOk
  <2>1. ~infoReceived /\ ~Established /\ ~Established'
    BY <1>8 DEF DialOk, IInv, SocketInv, Established
  <2>2. UNCHANGED <<closed, infoReceived, closeEvent, outbound, pongs, pingTimer, wire, log>>
        /\ stream # "none"
    BY <1>8 DEF DialOk, history
  <2>3. QED
    BY <2>1, <2>2 DEF TimersInv, Ticking, ClosedIsEmpty, NoStuckCommands
<1>9. CASE ReceiveInfo
  <2>1. ~closed' /\ ~Established /\ ~Established'
    BY <1>9 DEF ReceiveInfo, Established
  <2>2. QED
    BY <1>9, <2>1 DEF ReceiveInfo, TimersInv, Ticking, ClosedIsEmpty, NoStuckCommands
<1>10. CASE ReceivePong
  BY <1>10, ReceivePongKeeps
<1>11. CASE Server \/ UNCHANGED vars
  <2>1. UNCHANGED <<client, log>> /\ (wire = {} => wire' = {})
    BY <1>11 DEF Server, ServerStep, ServerLate, ServerFails, vars, network, history
  <2>2. QED
    BY <2>1 DEF client, TimersInv, Ticking, ClosedIsEmpty, NoStuckCommands, Established
<1>15. QED
  BY <1>1, <1>2, <1>3, <1>4, <1>5, <1>6, <1>7, <1>8, <1>9, <1>10, <1>11, <1>12,
     <1>13, <1>14
     DEF Next, Application, Timers, Heartbeats, Inbound, Socket

LEMMA TimersInvariance == Spec => []TimersInv
<1>1. Spec => []IInv
  BY Invariance
<1>2. QED BY <1>1, TimersInit, TimersNext, PTL DEF Spec

-----------------------------------------------------------------------------
(* Theorems                                                                 *)

\* Nothing stays in outbound on an established connection without a flush due,
\* whenever it was buffered (sendCommand, stripPendingSubs, connectCB).
THEOREM NothingStuck == Spec => []NoStuckCommands
<1>1. TimersInv => NoStuckCommands
  BY DEF TimersInv
<1>2. QED BY <1>1, TimersInvariance, PTL

\* No step reopens a closed client or gives it a socket it does not have.
LEMMA ClosedStepStays == [Next]_vars => ClosedStays
<1> SUFFICES ASSUME closed, [Next]_vars
             PROVE  closed' /\ (stream = "none" => stream' = "none")
  BY DEF ClosedStays
<1>1. CASE UNCHANGED <<closed, stream>>
  BY <1>1
<1>2. CASE Publish \/ Flush \/ Heartbeat \/ ReceivePing \/ HeartbeatWhenClosed
  BY <1>1, <1>2 DEF Publish, Flush, Heartbeat, ReceivePing, HeartbeatWhenClosed
<1>3. CASE FlushPending \/ Secured \/ Server \/ UNCHANGED vars
  BY <1>1, <1>3 DEF FlushPending, Secured, Server, ServerStep, ServerLate, ServerFails,
     client, vars
<1>4. CASE ReceiveInfo \/ ReceivePong
  BY <1>1, <1>4 DEF ReceiveInfo, ReceivePong
<1>5. CASE Close \/ HeartbeatClosing \/ ReceiveInfoClosing
  BY <1>5 DEF Close, HeartbeatClosing, ReceiveInfoClosing, Closing
<1>6. CASE StaleConnection \/ HandshakeTimeout \/ InfoMismatch \/ ReceiveErr
  BY <1>6 DEF StaleConnection, HandshakeTimeout, InfoMismatch, ReceiveErr, DropStream
<1>7. CASE CloseEvent \/ SocketLost \/ DialFailed
  BY <1>7 DEF CloseEvent, SocketLost, DialFailed, HandlersClose
<1>8. CASE RetryTimer
  BY <1>1, <1>8 DEF RetryTimer
<1>9. CASE DialOk
  BY <1>9 DEF DialOk
<1>10. QED
  BY <1>2, <1>3, <1>4, <1>5, <1>6, <1>7, <1>8, <1>9
     DEF Next, Application, Timers, Heartbeats, Inbound, Socket

\* Wherever close() is called, also by a listener in the middle of a handler,
\* the client is closed for good: it writes nothing, no heartbeat or callback
\* outlives the close event of its last socket, and it opens no other (close,
\* handlers.close, scheduleReconnect, scheduleHeartbeat, processInbound).
THEOREM ClosedForGood == Spec => ClosedIsFinal
<1>1. TimersInv' /\ [Next]_vars => [ClosedIsEmpty' /\ ClosedStays]_vars
  BY ClosedStepStays DEF TimersInv
<1>2. QED BY <1>1, TimersInvariance, PTL DEF Spec, ClosedIsFinal

\* scheduleHeartbeat() never arms a second timer over one that ticks: there is
\* none while a connection is being established.
THEOREM HeartbeatAlone == Spec => []OneHeartbeat
<1>1. IInv /\ TimersInv => OneHeartbeat
  <2> SUFFICES ASSUME IInv, TimersInv, stream # "none", ~Established, pingTimer
               PROVE  FALSE
    BY DEF OneHeartbeat
  <2>1. closeEvent
    BY DEF TimersInv, Ticking
  <2>2. ~closed
    BY <2>1 DEF TimersInv, ClosedIsEmpty
  <2>3. QED BY <2>1, <2>2 DEF IInv, OneRecoveryPath
<1>2. QED BY <1>1, Invariance, TimersInvariance, PTL

\* While the connection stays open a PUB leaves outbound only for the wire
\* (flushPending, sendCommand, stripPendingSubs).
LEMMA OpenStepDropsNothing ==
    ASSUME IInv, [Next]_vars, stream = "open", stream' = "open"
    PROVE  Pubs(outbound) \subseteq outbound' \cup wire'
<1>0. Pubs(outbound) \subseteq outbound
  BY DEF Pubs
<1>1. CASE Publish \/ Flush \/ Heartbeat \/ ReceivePing
  <2>1. PICK kind : SendCommand(kind)
    BY <1>1 DEF Publish, Flush, Heartbeat, ReceivePing
  <2>2. outbound \subseteq outbound' \cup wire'
    BY <2>1, SendShape
  <2>3. QED BY <1>0, <2>2
<1>2. CASE FlushPending \/ Secured
  <2>1. outbound \subseteq outbound' \cup wire'
    BY <1>2, FlushedShape DEF FlushPending, Secured
  <2>2. QED BY <1>0, <2>1
<1>3. CASE ReceivePong
  <2>1. outbound \subseteq outbound' \cup wire'
    BY <1>3, FlushedShape DEF ReceivePong, HandshakeDone
  <2>2. QED BY <1>0, <2>1
<1>4. CASE UNCHANGED outbound
  BY <1>0, <1>4
<1>5. CASE Server \/ ReceiveInfo \/ HeartbeatWhenClosed \/ UNCHANGED vars
  BY <1>4, <1>5 DEF Server, ServerStep, ServerLate, ServerFails, ReceiveInfo,
     HeartbeatWhenClosed, client, vars
<1>6. CASE StaleConnection \/ HandshakeTimeout \/ InfoMismatch \/ ReceiveErr
  BY <1>6 DEF StaleConnection, HandshakeTimeout, InfoMismatch, ReceiveErr, DropStream
<1>11. CASE Close \/ HeartbeatClosing \/ ReceiveInfoClosing
  BY <1>11 DEF Close, HeartbeatClosing, ReceiveInfoClosing, Closing
<1>7. CASE DialOk \/ DialFailed
  BY <1>7 DEF DialOk, DialFailed
<1>8. CASE CloseEvent \/ SocketLost
  BY <1>8 DEF CloseEvent, SocketLost, HandlersClose, ScheduleReconnect
<1>9. CASE RetryTimer
  BY <1>4, <1>9 DEF RetryTimer, ScheduleReconnect
<1>10. QED
  BY <1>1, <1>2, <1>3, <1>5, <1>6, <1>7, <1>8, <1>9, <1>11
     DEF Next, Application, Timers, Heartbeats, Inbound, Socket

\* The buffer never loses a PUB while there is a connection to write it to.
THEOREM OpenDropsNothing == Spec => NothingDroppedWhileOpen
<1>1. IInv /\ [Next]_vars
        => [stream = "open" /\ stream' = "open"
              => Pubs(outbound) \subseteq outbound' \cup wire']_vars
  BY OpenStepDropsNothing
<1>2. QED BY <1>1, Invariance, PTL DEF Spec, NothingDroppedWhileOpen
=============================================================================
