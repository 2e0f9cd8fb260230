--------------------------- MODULE PipelineProofs ---------------------------
(* Theorems about Pipeline, for every value of its constants.               *)
EXTENDS Pipeline, TLAPS, FiniteSetTheorems

-----------------------------------------------------------------------------
(* Type correctness                                                         *)

\* What issuing a command does to the log and to the queues.
LEMMA SendLog ==
    ASSUME LogOK, NEW kind \in Kinds, SendCommand(kind)
    PROVE  /\ log' \in Seq(Kinds) /\ Len(log') = Len(log) + 1
           /\ Len(log') <= MaxCommands
           /\ log'[Len(log) + 1] = kind
           /\ \A n \in 1..Len(log) : log'[n] = log[n]
<1>1. /\ log \in Seq(Kinds) /\ log' = Append(log, kind)
      /\ Len(log) + 1 <= MaxCommands
  BY DEF SendCommand, LogOK
<1> QED
  BY <1>1

\* The new command goes to outbound, or with it to the wire.
LEMMA SendQueues ==
    ASSUME NEW kind \in Kinds, SendCommand(kind), FlagsOK
    PROVE  /\ immediate' \in BOOLEAN
           /\ outbound' \subseteq outbound \cup {Len(log) + 1}
           /\ wire' \subseteq wire \cup outbound \cup {Len(log) + 1}
BY DEF SendCommand, Flushed, Write, FlagsOK

\* A step that changes neither the log nor, but for taking elements out or
\* moving them, the queues.
LEMMA QueuesKept ==
    ASSUME QueuesOK, UNCHANGED log,
           outbound' \subseteq 1..Len(log), wire' \subseteq 0..Len(log),
           abandoned' \subseteq 1..Len(log), processed' \subseteq 1..Len(log),
           fired' \subseteq 1..Len(log),
           pongs' \subseteq Pings(0..Len(log)), replies' \subseteq Pings(0..Len(log))
    PROVE  QueuesOK'
BY DEF QueuesOK, Pings

\* A step that issues command Len(log) + 1.
LEMMA QueuesGrow ==
    ASSUME LogOK, QueuesOK, NEW kind \in Kinds, SendCommand(kind), FlagsOK,
           UNCHANGED <<replies, abandoned, processed, fired>>,
           \/ UNCHANGED pongs
           \/ /\ kind \in {"flush", "heartbeat"}
              /\ pongs' = pongs \cup {Len(log) + 1}
    PROVE  QueuesOK'
<1>1. /\ Len(log) \in Nat /\ Len(log') = Len(log) + 1
      /\ log'[Len(log) + 1] = kind
      /\ \A n \in 1..Len(log) : log'[n] = log[n]
  BY SendLog DEF LogOK
<1>2. Pings(0..Len(log)) \subseteq Pings(0..Len(log))'
  BY <1>1 DEF Pings, Handshake
<1>3. kind \in {"flush", "heartbeat"}
        => Len(log) + 1 \in Pings(0..Len(log))'
  BY <1>1 DEF Pings, Handshake
<1>4. pongs' \subseteq Pings(0..Len(log))' /\ replies' \subseteq Pings(0..Len(log))'
  BY <1>2, <1>3 DEF QueuesOK
<1>5. outbound' \subseteq 1..Len(log') /\ wire' \subseteq 0..Len(log')
  <2>1. /\ outbound' \subseteq outbound \cup {Len(log) + 1}
        /\ wire' \subseteq wire \cup outbound \cup {Len(log) + 1}
    BY SendQueues
  <2>2. outbound \subseteq 1..Len(log') /\ wire \subseteq 0..Len(log')
    BY <1>1 DEF QueuesOK
  <2>3. Len(log) + 1 \in 1..Len(log')
    BY <1>1
  <2> QED
    BY <2>1, <2>2, <2>3, <1>1
<1>6. /\ abandoned' \subseteq 1..Len(log') /\ processed' \subseteq 1..Len(log')
      /\ fired' \subseteq 1..Len(log')
  BY <1>1 DEF QueuesOK
<1> QED
  BY <1>4, <1>5, <1>6 DEF QueuesOK

\* scheduleReconnect() leaves closing, or arming its timer and preparing a
\* connection, within the types.
LEMMA ReconnectType ==
    ASSUME TypeOK, NEW cbs, cbs \subseteq pongs, ScheduleReconnect(cbs), UNCHANGED log
    PROVE  /\ closed' \in BOOLEAN /\ retry' \in BOOLEAN
           /\ infoReceived' \in BOOLEAN
           /\ stream' \in {"none", "dialing"}
           /\ outbound' \subseteq outbound
           /\ pongs' \subseteq pongs
           /\ base' \in {base, Len(log)}
<1>1. KeptCallbacks(cbs) \subseteq pongs
  BY DEF KeptCallbacks
<1>2. Pubs(outbound) \cup KeptPings(cbs) \subseteq outbound
  BY DEF KeptPings, Pubs, Pings
<1>3. CASE PrepareConnection(cbs) /\ UNCHANGED closed
           /\ stream' = "dialing" /\ retry' = FALSE
  BY <1>1, <1>2, <1>3 DEF PrepareConnection, TypeOK, FlagsOK
<1>4. CASE ~(PrepareConnection(cbs) /\ UNCHANGED closed
             /\ stream' = "dialing" /\ retry' = FALSE)
  BY <1>4 DEF ScheduleReconnect, TypeOK, FlagsOK
<1> QED
  BY <1>3, <1>4 DEF ScheduleReconnect, TypeOK, FlagsOK

\* handlers.close() leaves the flags and queues within their types.
LEMMA HandlersCloseType ==
    ASSUME TypeOK, HandlersClose
    PROVE  /\ closed' \in BOOLEAN /\ retry' \in BOOLEAN
           /\ infoReceived' \in BOOLEAN
           /\ stream' \in {"none", "dialing"}
           /\ outbound' \subseteq outbound
           /\ pongs' \subseteq pongs
           /\ base' \in {base, Len(log)}
<1>1. KeptByCloseStream \subseteq pongs
  BY DEF KeptByCloseStream
<1>2. CASE closed
  BY <1>2 DEF HandlersClose, TypeOK, FlagsOK
<1>3. CASE ~closed
  BY <1>1, <1>3, ReconnectType DEF HandlersClose
<1> QED
  BY <1>2, <1>3

\* pout and the faults stay within their bounds.
LEMMA CountersNext == TypeOK /\ [Next]_vars => CountersOK'
<1> SUFFICES ASSUME CountersOK, [Next]_vars PROVE CountersOK'
  BY DEF TypeOK
<1> USE BoundsAssumption DEF CountersOK
<1>1. ASSUME Fault PROVE faults' \in 0..MaxFaults
  BY <1>1 DEF Fault
<1>2. CASE Publish \/ Flush \/ Heartbeat \/ ReceivePing
  BY <1>2 DEF Publish, Flush, Heartbeat, ReceivePing
<1>3. CASE FlushPending \/ RetryTimer \/ HeartbeatWhenClosed \/ Secured
  BY <1>3 DEF FlushPending, RetryTimer, HeartbeatWhenClosed, Secured, history
<1>9. CASE Close \/ HeartbeatClosing \/ ReceiveInfoClosing
  BY <1>9 DEF Close, HeartbeatClosing, ReceiveInfoClosing, Closing
<1>4. CASE StaleConnection \/ HandshakeTimeout \/ InfoMismatch \/ ReceiveErr
  BY <1>1, <1>4 DEF StaleConnection, HandshakeTimeout, InfoMismatch, ReceiveErr,
      DropStream
<1>5. CASE CloseEvent \/ SocketLost \/ DialFailed
  BY <1>1, <1>5 DEF CloseEvent, SocketLost, DialFailed, HandlersClose
<1>6. CASE DialOk \/ ReceiveInfo \/ ReceivePong
  BY <1>6 DEF DialOk, ReceiveInfo, ReceivePong, history
<1>7. CASE Server
  BY <1>1, <1>7 DEF Server, ServerStep, ServerLate, ServerFails, client, history
<1>8. CASE UNCHANGED vars
  BY <1>8 DEF vars, client, network, history
<1> QED
  BY <1>2, <1>3, <1>4, <1>5, <1>6, <1>7, <1>8, <1>9
     DEF Next, Application, Timers, Heartbeats, Inbound, Socket

\* The flags stay flags.
LEMMA FlagsNext == TypeOK /\ [Next]_vars => FlagsOK'
<1> SUFFICES ASSUME TypeOK, FlagsOK, [Next]_vars PROVE FlagsOK'
  BY DEF TypeOK
<1> USE DEF FlagsOK
<1>1. CASE Publish \/ Flush \/ Heartbeat \/ ReceivePing
  <2>1. immediate' \in BOOLEAN
    BY <1>1, SendQueues DEF Publish, Flush, Heartbeat, ReceivePing, Kinds
  <2> QED
    BY <1>1, <2>1 DEF Publish, Flush, Heartbeat, ReceivePing
<1>2. CASE FlushPending
  BY <1>2 DEF FlushPending
<1>5. CASE HeartbeatWhenClosed
  BY <1>5 DEF HeartbeatWhenClosed, network
<1>6. CASE Secured
  BY <1>6 DEF Secured
<1>3. CASE Close \/ HeartbeatClosing \/ ReceiveInfoClosing
  BY <1>3 DEF Close, HeartbeatClosing, ReceiveInfoClosing, Closing, CancelHeartbeat,
      LeaveSocket, history
<1>4. CASE StaleConnection \/ HandshakeTimeout \/ InfoMismatch \/ ReceiveErr
  BY <1>4 DEF StaleConnection, HandshakeTimeout, InfoMismatch, ReceiveErr,
      DropStream, LeaveSocket, Fault
<1>7. CASE CloseEvent \/ SocketLost \/ DialFailed
  <2>1. closeEvent' \in BOOLEAN
    BY <1>7 DEF CloseEvent, SocketLost, DialFailed
  <2> QED
    BY HandlersCloseType, <1>7, <2>1
       DEF CloseEvent, SocketLost, DialFailed, HandlersClose, CancelHeartbeat, LeaveSocket
<1>8. CASE RetryTimer
  <2>1. CASE closed
    BY <1>8, <2>1 DEF RetryTimer
  <2>2. CASE ~closed
    BY <1>8, <2>2, ReconnectType DEF RetryTimer, LeaveSocket
  <2> QED
    BY <2>1, <2>2
<1>9. CASE DialOk
  BY <1>9 DEF DialOk, history
<1>10. CASE ReceiveInfo
  BY <1>10 DEF ReceiveInfo, history
<1>11. CASE ReceivePong
  BY <1>11 DEF ReceivePong, HandshakeDone
<1>12. CASE ServerStep \/ ServerLate
  BY <1>12 DEF ServerStep, ServerLate, client, history
<1>13. CASE ServerFails
  BY <1>13 DEF ServerFails, Fault, client
<1>14. CASE UNCHANGED vars
  BY <1>14 DEF vars, client, network, history
<1> QED
  BY <1>1, <1>2, <1>3, <1>4, <1>5, <1>6, <1>7, <1>8, <1>9, <1>10, <1>11, <1>12,
     <1>13, <1>14
     DEF Next, Application, Timers, Heartbeats, Inbound, Socket, Server

\* Commands are only added to the log, and base marks a place in it.
LEMMA LogNext == TypeOK /\ [Next]_vars => LogOK'
<1> SUFFICES ASSUME TypeOK, LogOK, [Next]_vars PROVE LogOK'
  BY DEF TypeOK
<1>1. ASSUME NEW kind \in Kinds, SendCommand(kind), UNCHANGED base
      PROVE  LogOK'
  BY <1>1, SendLog DEF LogOK
<1>2. CASE Publish \/ Flush \/ Heartbeat \/ ReceivePing
  BY <1>1, <1>2 DEF Publish, Flush, Heartbeat, ReceivePing, Kinds
<1>3. ASSUME UNCHANGED log, base' \in {base, Len(log)}
      PROVE  LogOK'
  BY <1>3 DEF LogOK
<1>4. CASE FlushPending \/ DialOk \/ ReceiveInfo \/ ReceivePong
           \/ HeartbeatWhenClosed \/ Secured
  BY <1>3, <1>4 DEF FlushPending, DialOk, ReceiveInfo, ReceivePong,
     HeartbeatWhenClosed, Secured, history
<1>10. CASE Close \/ ReceiveInfoClosing
  BY <1>3, <1>10 DEF Close, ReceiveInfoClosing, Closing
<1>11. CASE HeartbeatClosing
  <2>1. /\ log \in Seq(Kinds) /\ "heartbeat" \in Kinds /\ base \in 0..Len(log)
        /\ log' = Append(log, "heartbeat") /\ base' = base
        /\ Len(log) < MaxCommands
    BY <1>11 DEF HeartbeatClosing, Closing, LogOK, Kinds
  <2>2. log' \in Seq(Kinds) /\ Len(log') = Len(log) + 1 /\ Len(log) \in Nat
    BY <2>1
  <2> QED
    BY <2>1, <2>2, BoundsAssumption DEF LogOK
<1>5. CASE StaleConnection \/ HandshakeTimeout \/ InfoMismatch \/ ReceiveErr
  BY <1>3, <1>5 DEF StaleConnection, HandshakeTimeout, InfoMismatch, ReceiveErr,
      DropStream
<1>6. CASE CloseEvent \/ SocketLost \/ DialFailed
  <2>1. HandlersClose /\ UNCHANGED log
    BY <1>6 DEF CloseEvent, SocketLost, DialFailed, HandlersClose
  <2> QED
    BY <1>3, <2>1, HandlersCloseType
<1>7. CASE RetryTimer
  <2>1. CASE closed
    BY <1>3, <1>7, <2>1 DEF RetryTimer
  <2>2. CASE ~closed
    BY <1>3, <1>7, <2>2, ReconnectType DEF RetryTimer
  <2> QED
    BY <2>1, <2>2
<1>8. CASE Server
  BY <1>3, <1>8 DEF Server, ServerStep, ServerLate, ServerFails, history
<1>9. CASE UNCHANGED vars
  BY <1>3, <1>9 DEF vars, history
<1> QED
  BY <1>2, <1>4, <1>5, <1>6, <1>7, <1>8, <1>9, <1>10, <1>11
     DEF Next, Application, Timers, Heartbeats, Inbound, Socket

\* The queues hold numbers of commands that were issued.
LEMMA QueuesNext == TypeOK /\ [Next]_vars => QueuesOK'
<1> SUFFICES ASSUME TypeOK, FlagsOK, LogOK, QueuesOK, [Next]_vars PROVE QueuesOK'
  BY DEF TypeOK
<1>1. CASE Publish \/ ReceivePing
  BY <1>1, QueuesGrow DEF Publish, ReceivePing, Kinds
<1>2. CASE Flush \/ Heartbeat
  BY <1>2, QueuesGrow DEF Flush, Heartbeat, Kinds
<1> USE DEF QueuesOK
<1>0. /\ 1..Len(log) \subseteq 0..Len(log)
      /\ (0..Len(log)) \ {Handshake} \subseteq 1..Len(log)
  BY DEF LogOK, Handshake
<1>3. CASE FlushPending \/ Secured
  BY <1>0, <1>3, QueuesKept DEF FlushPending, Secured, Flushed, Write, history
<1>4. LeaveSocket => /\ wire' \subseteq 0..Len(log) /\ abandoned' \subseteq 1..Len(log)
                     /\ replies' \subseteq Pings(0..Len(log))
  <2>1. Pubs(wire) \subseteq 1..Len(log)
    BY <1>0 DEF Pubs
  <2> QED
    BY <2>1 DEF LeaveSocket
<1>5. CASE Close
  BY <1>4, <1>5, QueuesKept DEF Close, Closing
<1>18. CASE ReceiveInfoClosing
  <2>1. Handshake \in Pings(0..Len(log))
    BY DEF LogOK, Pings, Handshake
  <2> QED
    BY <1>4, <1>18, <2>1, QueuesKept DEF ReceiveInfoClosing, Closing
<1>19. CASE HeartbeatClosing
  <2>1. /\ Len(log) \in Nat /\ Len(log') = Len(log) + 1
        /\ log'[Len(log) + 1] = "heartbeat"
    BY <1>19 DEF HeartbeatClosing, LogOK
  <2>2. pongs' \subseteq Pings(0..Len(log))'
    BY <1>19, <2>1 DEF HeartbeatClosing, Pings
  <2>3. outbound' = {} /\ wire' = {} /\ replies' = {} /\ UNCHANGED <<processed, fired>>
    BY <1>19 DEF HeartbeatClosing, Closing, LeaveSocket
  <2>4. abandoned' \subseteq 1..Len(log)
    BY <1>4, <1>19 DEF HeartbeatClosing, Closing
  <2>5. 1..Len(log) \subseteq 1..Len(log')
    BY <2>1
  <2> QED
    BY <2>2, <2>3, <2>4, <2>5
<1>20. CASE HeartbeatWhenClosed
  BY <1>20, QueuesKept DEF HeartbeatWhenClosed, network, history
<1>6. CASE StaleConnection \/ HandshakeTimeout \/ InfoMismatch \/ ReceiveErr
  <2>1. DropStream
    BY <1>6 DEF StaleConnection, HandshakeTimeout, InfoMismatch, ReceiveErr
  <2> QED
    BY <1>4, <2>1, QueuesKept DEF DropStream, KeptByCloseStream
<1>7. CASE CloseEvent \/ SocketLost \/ DialFailed
  <2>1. HandlersClose
    BY <1>7 DEF CloseEvent, SocketLost, DialFailed
  <2> QED
    BY <1>4, <2>1, HandlersCloseType, QueuesKept DEF HandlersClose
<1>8. CASE RetryTimer
  <2>1. CASE closed
    BY <1>8, <2>1, QueuesKept DEF RetryTimer
  <2>2. CASE ~closed
    BY <1>4, <1>8, <2>2, ReconnectType, QueuesKept DEF RetryTimer
  <2> QED
    BY <2>1, <2>2
<1>9. CASE DialOk
  BY <1>9, QueuesKept DEF DialOk, history
<1>10. Handshake \in 0..Len(log) /\ Handshake \in Pings(0..Len(log))
  BY DEF LogOK, Pings, Handshake
<1>11. CASE ReceiveInfo
  BY <1>10, <1>11, QueuesKept DEF ReceiveInfo, history
<1>12. CASE ReceivePong
  <2>1. /\ outbound' \subseteq 1..Len(log) /\ wire' \subseteq 0..Len(log)
        /\ UNCHANGED <<abandoned, processed, log>>
    BY <1>0, <1>12 DEF ReceivePong, HandshakeDone, Flushed, Write
  <2>2. replies' \subseteq Pings(0..Len(log)) /\ pongs' \subseteq Pings(0..Len(log))
    BY <1>12 DEF ReceivePong
  <2>3. fired' \subseteq 1..Len(log)
    BY <1>0, <1>12 DEF ReceivePong, Pings
  <2> QED
    BY <2>1, <2>2, <2>3, QueuesKept
<1>13. ASSUME NEW n \in 0..Len(log), Processed(n) PROVE processed' \subseteq 1..Len(log)
  BY <1>13 DEF Processed, Handshake, LogOK
<1>14. CASE ServerStep
  <2>1. PICK n \in wire : /\ wire' = wire \ {n}
                          /\ replies' = replies \cup Pings({n})
                          /\ Processed(n)
    BY <1>14 DEF ServerStep
  <2>2. Pings({n}) \subseteq Pings(0..Len(log))
    BY <2>1 DEF Pings
  <2>3. UNCHANGED <<outbound, pongs, abandoned, fired, log>>
    BY <1>14 DEF ServerStep, client, history
  <2> QED
    BY <1>13, <2>1, <2>2, <2>3, QueuesKept
<1>15. CASE ServerLate
  <2>1. PICK n \in abandoned : abandoned' = abandoned \ {n} /\ Processed(n)
    BY <1>15 DEF ServerLate
  <2>2. abandoned' \subseteq 1..Len(log) /\ processed' \subseteq 1..Len(log)
    BY <1>0, <1>13, <2>1
  <2>3. UNCHANGED <<outbound, wire, pongs, replies, fired, log>>
    BY <1>15 DEF ServerLate, client, history
  <2> QED
    BY <2>2, <2>3, QueuesKept
<1>16. CASE ServerFails
  BY <1>16, QueuesKept DEF ServerFails, client
<1>17. CASE UNCHANGED vars
  BY <1>17, QueuesKept DEF vars, client, network, history
<1> QED
  BY <1>1, <1>2, <1>3, <1>5, <1>6, <1>7, <1>8, <1>9, <1>11, <1>12, <1>14,
     <1>15, <1>16, <1>17, <1>18, <1>19, <1>20
     DEF Next, Application, Timers, Heartbeats, Inbound, Socket, Server

\* The types hold where connect() resolves.
LEMMA TypeInit == Init => TypeOK
<1> SUFFICES ASSUME Init PROVE TypeOK
  OBVIOUS
<1> USE BoundsAssumption DEF Init
<1>1. FlagsOK
  BY DEF FlagsOK
<1>2. CountersOK
  BY DEF CountersOK
<1>3. LogOK
  BY DEF LogOK
<1>4. QueuesOK
  BY DEF QueuesOK
<1> QED
  BY <1>1, <1>2, <1>3, <1>4 DEF TypeOK

\* Every step keeps them.
LEMMA TypeNext == TypeOK /\ [Next]_vars => TypeOK'
BY FlagsNext, CountersNext, LogNext, QueuesNext DEF TypeOK

\* Every variable keeps its type (TypeOK): the queues hold only commands that
\* were issued, callbacks and answers only those of PINGs.
THEOREM TypeCorrect == Spec => []TypeOK
BY TypeInit, TypeNext, PTL DEF Spec

-----------------------------------------------------------------------------
(* The shape of the steps                                                   *)

\* A buffer that is flushed stays in outbound, reaches the wire, or is lost
\* for want of a stream.
LEMMA FlushedShape ==
    ASSUME NEW buffer, Flushed(buffer)
    PROVE  \/ ~infoReceived /\ outbound' = buffer /\ wire' = wire
           \/ /\ infoReceived /\ stream = "open"
              /\ outbound' = {} /\ wire' = wire \cup buffer
           \/ /\ infoReceived /\ stream # "open"
              /\ outbound' = {} /\ wire' = wire
BY DEF Flushed, Write

\* What sendCommand() leaves in outbound and on the wire.
LEMMA SendShape ==
    ASSUME NEW kind, SendCommand(kind)
    PROVE  \/ outbound' = outbound \cup {Len(log) + 1} /\ wire' = wire
           \/ /\ infoReceived /\ stream = "open" /\ outbound' = {}
              /\ wire' = wire \cup (outbound \cup {Len(log) + 1})
           \/ /\ infoReceived /\ stream # "open"
              /\ outbound' = {} /\ wire' = wire
<1> DEFINE n == Len(log) + 1
<1>1. CASE outbound = {} /\ outbound' = {n} /\ UNCHANGED wire
  BY <1>1
<1>2. CASE outbound' = outbound \cup {n} /\ UNCHANGED wire
  BY <1>2
<1>3. CASE Flushed(outbound \cup {n})
  BY <1>3, FlushedShape
<1> QED
  BY <1>1, <1>2, <1>3 DEF SendCommand

-----------------------------------------------------------------------------
(* The socket                                                               *)

\* No step leaves the client without, or with two, ways back to a server.
LEMMA RecoveryNext == TypeOK /\ OneRecoveryPath /\ [Next]_vars => OneRecoveryPath'
<1> SUFFICES ASSUME TypeOK, OneRecoveryPath, [Next]_vars PROVE OneRecoveryPath'
  OBVIOUS
<1> USE DEF OneRecoveryPath
<1>1. CASE UNCHANGED <<closed, stream, closeEvent, retry>>
  BY <1>1
<1>2. CASE Publish \/ Flush \/ Heartbeat \/ ReceivePing \/ ReceiveInfo \/ ReceivePong
  BY <1>1, <1>2 DEF Publish, Flush, Heartbeat, ReceivePing, ReceiveInfo, ReceivePong
<1>3. CASE FlushPending \/ HeartbeatWhenClosed \/ Secured \/ Server \/ UNCHANGED vars
  BY <1>1, <1>3 DEF FlushPending, HeartbeatWhenClosed, Secured, Server, ServerStep, ServerLate, ServerFails,
      client, vars
<1>4. CASE Close \/ HeartbeatClosing \/ ReceiveInfoClosing
  BY <1>4 DEF Close, HeartbeatClosing, ReceiveInfoClosing, Closing
<1>5. CASE StaleConnection \/ HandshakeTimeout \/ InfoMismatch \/ ReceiveErr
  BY <1>5 DEF StaleConnection, HandshakeTimeout, InfoMismatch, ReceiveErr, DropStream
<1>6. ASSUME NEW cbs, ScheduleReconnect(cbs), ~closeEvent'
      PROVE  OneRecoveryPath'
  BY <1>6 DEF ScheduleReconnect
<1>7. CASE CloseEvent \/ SocketLost \/ DialFailed
  <2>1. HandlersClose
    BY <1>7 DEF CloseEvent, SocketLost, DialFailed
  <2>2. CASE closed
    BY <2>1, <2>2 DEF HandlersClose
  <2>3. CASE ~closed
    <3>1. ScheduleReconnect(KeptByCloseStream)
      BY <2>1, <2>3 DEF HandlersClose
    <3>2. ~closeEvent'
      BY <1>7, <2>3 DEF CloseEvent, SocketLost, DialFailed
    <3> QED
      BY <1>6, <3>1, <3>2
  <2> QED
    BY <2>2, <2>3
<1>8. CASE RetryTimer
  <2>1. CASE closed
    BY <1>8, <2>1 DEF RetryTimer
  <2>2. CASE ~closed
    BY <1>6, <1>8, <2>2 DEF RetryTimer
  <2> QED
    BY <2>1, <2>2
<1>9. CASE DialOk
  BY <1>9 DEF DialOk
<1> QED
  BY <1>2, <1>3, <1>4, <1>5, <1>7, <1>8, <1>9
     DEF Next, Application, Timers, Heartbeats, Inbound, Socket

\* Every step keeps what the socket says of the flags and of the bytes on it.
LEMMA SocketNext ==
    TypeOK /\ OneRecoveryPath /\ SocketInv /\ [Next]_vars => SocketInv'
<1> SUFFICES ASSUME TypeOK, OneRecoveryPath, SocketInv, [Next]_vars
             PROVE  SocketInv'
  OBVIOUS
<1>1. ASSUME NEW kind, SendCommand(kind),
             pongs' \subseteq pongs \cup {Len(log) + 1},
             UNCHANGED <<closed, connected, stream, infoReceived, peer, replies>>
      PROVE  SocketInv'
  <2>1. Handshake # Len(log) + 1
    BY DEF TypeOK, LogOK, Handshake
  <2>2. wire' = wire \/ (infoReceived /\ stream = "open")
    BY <1>1, SendShape
  <2> QED
    BY <1>1, <2>1, <2>2 DEF SocketInv
<1>2. CASE Publish \/ Flush \/ Heartbeat \/ ReceivePing
  BY <1>1, <1>2 DEF Publish, Flush, Heartbeat, ReceivePing
<1>3. CASE FlushPending
  BY <1>3, FlushedShape DEF FlushPending, SocketInv
<1>14. CASE Secured
  BY <1>14, FlushedShape DEF Secured, SocketInv
<1>15. CASE HeartbeatWhenClosed
  BY <1>15 DEF HeartbeatWhenClosed, network, SocketInv
<1>4. CASE Close \/ HeartbeatClosing \/ ReceiveInfoClosing
  BY <1>4 DEF Close, HeartbeatClosing, ReceiveInfoClosing, Closing, LeaveSocket, SocketInv
<1>5. CASE StaleConnection \/ HandshakeTimeout \/ InfoMismatch \/ ReceiveErr
  <2>1. DropStream
    BY <1>5 DEF StaleConnection, HandshakeTimeout, InfoMismatch, ReceiveErr
  <2> QED
    BY <2>1 DEF DropStream, LeaveSocket, KeptByCloseStream, SocketInv
<1>6. ASSUME NEW cbs, Handshake \notin cbs, ~connected', LeaveSocket,
             ScheduleReconnect(cbs)
      PROVE  SocketInv'
  <2>1. Handshake \notin pongs'
    BY <1>6 DEF ScheduleReconnect, PrepareConnection, KeptCallbacks
  <2>2. stream' = "none" \/ (stream' = "dialing" /\ ~infoReceived')
    BY <1>6 DEF ScheduleReconnect, PrepareConnection
  <2> QED
    BY <1>6, <2>1, <2>2 DEF LeaveSocket, SocketInv
<1>7. CASE CloseEvent \/ SocketLost \/ DialFailed
  <2>1. HandlersClose
    BY <1>7 DEF CloseEvent, SocketLost, DialFailed
  <2>2. Handshake \notin KeptByCloseStream
    BY DEF KeptByCloseStream, SocketInv
  <2>3. CASE closed
    BY <2>1, <2>3 DEF HandlersClose, LeaveSocket, SocketInv
  <2>4. CASE ~closed
    BY <1>6, <2>1, <2>2, <2>4 DEF HandlersClose
  <2> QED
    BY <2>3, <2>4
<1>8. CASE RetryTimer
  <2>1. CASE closed
    BY <1>8, <2>1 DEF RetryTimer, SocketInv
  <2>2. CASE ~closed
    <3>1. stream = "none"
      BY <1>8, <2>2 DEF RetryTimer, OneRecoveryPath
    <3>2. Handshake \notin pongs /\ ~connected' /\ LeaveSocket /\ ScheduleReconnect(pongs)
      BY <1>8, <2>2, <3>1 DEF RetryTimer, SocketInv
    <3> QED
      BY <1>6, <3>2
  <2> QED
    BY <2>1, <2>2
<1>9. CASE DialOk
  BY <1>9 DEF DialOk, SocketInv
<1>10. CASE ReceiveInfo
  BY <1>10 DEF ReceiveInfo, SocketInv
<1>11. CASE ReceivePong
  BY <1>11, FlushedShape DEF ReceivePong, HandshakeDone, SocketInv
<1>12. CASE Server
  <2>1. /\ UNCHANGED <<closed, connected, stream, infoReceived, pongs>>
        /\ peer' = "tls" => peer = "tls"
    BY <1>12 DEF Server, ServerStep, ServerLate, ServerFails, client
  <2>2. wire = {} /\ replies = {} => wire' = {} /\ replies' = {}
    BY <1>12 DEF Server, ServerStep, ServerLate, ServerFails
  <2> QED
    BY <2>1, <2>2 DEF SocketInv
<1>13. CASE UNCHANGED vars
  BY <1>13 DEF vars, client, network, SocketInv
<1> QED
  BY <1>2, <1>3, <1>4, <1>5, <1>7, <1>8, <1>9, <1>10, <1>11, <1>12, <1>13, <1>14, <1>15
     DEF Next, Application, Timers, Heartbeats, Inbound, Socket

-----------------------------------------------------------------------------
(* The order of the queues                                                  *)

\* Every step keeps the commands in order from outbound to the PONGs.
LEMMA OrderNext ==
    TypeOK /\ OneRecoveryPath /\ SocketInv /\ QueueOrder /\ [Next]_vars => QueueOrder'
<1> SUFFICES ASSUME TypeOK, OneRecoveryPath, SocketInv, QueueOrder, [Next]_vars
             PROVE  QueueOrder'
  OBVIOUS
<1> USE DEF QueueOrder, NoOvertaking
<1>0. /\ Len(log) \in Nat
      /\ \A m \in outbound : 0 < m /\ m < Len(log) + 1
      /\ \A m \in wire : m < Len(log) + 1
      /\ \A m \in replies : m < Len(log) + 1
  BY DEF TypeOK, LogOK, QueuesOK, Pings
<1>1. ASSUME NEW kind, SendCommand(kind), UNCHANGED replies
      PROVE  QueueOrder'
  BY <1>0, <1>1, SendShape
<1>2. CASE Publish \/ Flush \/ Heartbeat \/ ReceivePing
  BY <1>1, <1>2 DEF Publish, Flush, Heartbeat, ReceivePing
<1>3. CASE FlushPending \/ Secured
  BY <1>3, FlushedShape DEF FlushPending, Secured
<1>4. CASE wire' = {} /\ replies' = {}
  BY <1>4
<1>5. CASE StaleConnection \/ HandshakeTimeout \/ InfoMismatch \/ ReceiveErr
  BY <1>4, <1>5 DEF StaleConnection, HandshakeTimeout, InfoMismatch,
     ReceiveErr, DropStream, LeaveSocket
<1>12. CASE Close \/ HeartbeatClosing \/ ReceiveInfoClosing
  BY <1>4, <1>12 DEF Close, HeartbeatClosing, ReceiveInfoClosing, Closing, LeaveSocket
<1>6. CASE CloseEvent \/ SocketLost \/ DialFailed
  BY <1>4, <1>6 DEF CloseEvent, SocketLost, DialFailed, HandlersClose, LeaveSocket
<1>7. CASE RetryTimer
  <2>1. CASE closed
    BY <1>7, <2>1 DEF RetryTimer
  <2>2. CASE ~closed
    BY <1>4, <1>7, <2>2 DEF RetryTimer, LeaveSocket
  <2> QED
    BY <2>1, <2>2
<1>8. CASE DialOk \/ HeartbeatWhenClosed \/ ServerLate \/ ServerFails \/ UNCHANGED vars
  BY <1>8 DEF DialOk, HeartbeatWhenClosed, ServerLate, ServerFails, client, network, vars
<1>9. CASE ReceiveInfo
  <2>1. wire' = {0} /\ replies' = {} /\ outbound' = outbound
    BY <1>9 DEF ReceiveInfo, SocketInv, Handshake
  <2> QED
    BY <1>0, <2>1
<1>10. CASE ReceivePong
  <2>1. replies' \subseteq replies
    BY <1>10 DEF ReceivePong
  <2>2. \/ UNCHANGED <<outbound, wire>>
        \/ Flushed(outbound)
    BY <1>10 DEF ReceivePong, HandshakeDone
  <2> QED
    BY <2>1, <2>2, FlushedShape
<1>11. CASE ServerStep
  <2>1. PICK n \in wire : /\ IsFirst(n, wire)
                          /\ wire' = wire \ {n}
                          /\ replies' = replies \cup Pings({n})
    BY <1>11 DEF ServerStep
  <2>2. outbound' = outbound /\ Pings({n}) \subseteq {n}
    BY <1>11 DEF ServerStep, client, Pings
  <2>3. \A m \in wire : n <= m /\ m \in Int
    BY <2>1 DEF IsFirst, TypeOK, QueuesOK, LogOK
  <2>4. \A m \in wire' : n < m
    BY <2>1, <2>3
  <2> QED
    BY <2>1, <2>2, <2>4
<1> QED
  BY <1>2, <1>3, <1>5, <1>6, <1>7, <1>8, <1>9, <1>10, <1>11, <1>12
     DEF Next, Application, Timers, Heartbeats, Inbound, Socket, Server

-----------------------------------------------------------------------------
(* Counting                                                                 *)

\* Two elements of a finite set of naturals with as many elements below are
\* the same element.
LEMMA RankInjective ==
    ASSUME NEW S, S \subseteq Nat, IsFiniteSet(S), NEW p \in S, NEW q \in S,
           Rank(p, S) = Rank(q, S)
    PROVE  p = q
<1>1. ASSUME NEW a \in S, NEW b \in S, a < b, Rank(a, S) = Rank(b, S)
      PROVE  FALSE
  <2> DEFINE A == {m \in S : m <= a}
             B == {m \in S : m <= b}
  <2>0. \A m \in S : m <= a => m <= b
    BY <1>1
  <2>1. A \in SUBSET B /\ B \in SUBSET S
    BY <2>0
  <2>2. IsFiniteSet(B)
    BY <2>1, FS_Subset
  <2>3. Cardinality(B) = Cardinality(A)
    BY <1>1 DEF Rank
  <2>4. A = B
    BY <2>1, <2>2, <2>3, FS_Subset
  <2>5. b \in B /\ b \notin A
    BY <1>1
  <2> QED
    BY <2>4, <2>5
<1>2. p \in Nat /\ q \in Nat
  OBVIOUS
<1>3. ~(p < q) /\ ~(q < p)
  BY <1>1
<1> QED
  BY <1>2, <1>3

\* prepareConnection() keeps as many PINGs as callbacks.
LEMMA KeptEqually ==
    ASSUME IsFiniteSet(outbound), outbound \subseteq Nat,
           NEW cbs, cbs \subseteq Nat, IsFiniteSet(cbs)
    PROVE  /\ IsFiniteSet(KeptPings(cbs)) /\ IsFiniteSet(KeptCallbacks(cbs))
           /\ Cardinality(KeptPings(cbs)) = Cardinality(KeptCallbacks(cbs))
<1> DEFINE P == Pings(outbound)
           K == KeptPings(cbs)
           C == KeptCallbacks(cbs)
           f == [p \in K |-> CHOOSE q \in C : Paired(p, q, cbs)]
<1>1. /\ P \in SUBSET outbound /\ P \subseteq Nat
      /\ K \in SUBSET P /\ C \in SUBSET cbs
  BY DEF Pings, KeptPings, KeptCallbacks
<1>2. IsFiniteSet(P)
  BY <1>1, FS_Subset
<1>3. IsFiniteSet(K) /\ IsFiniteSet(C)
  BY <1>1, <1>2, FS_Subset
<1>4. \A p \in K : \E q \in C : Paired(p, q, cbs)
  BY DEF KeptPings, KeptCallbacks
<1>5. \A q \in C : \E p \in K : Paired(p, q, cbs)
  BY DEF KeptPings, KeptCallbacks
<1>6. \A p \in K : f[p] \in C /\ Paired(p, f[p], cbs)
  BY <1>4
<1>7. \A p, r \in K : f[p] = f[r] => p = r
  <2> SUFFICES ASSUME NEW p \in K, NEW r \in K, f[p] = f[r] PROVE p = r
    OBVIOUS
  <2>1. Rank(p, P) = Rank(r, P)
    BY <1>6 DEF Paired
  <2> QED
    BY <1>1, <1>2, <2>1, RankInjective
<1>8. \A q \in C : \E p \in K : f[p] = q
  <2> SUFFICES ASSUME NEW q \in C PROVE \E p \in K : f[p] = q
    OBVIOUS
  <2>1. PICK p \in K : Paired(p, q, cbs)
    BY <1>5
  <2>2. f[p] \in C /\ Rank(f[p], cbs) = Rank(q, cbs)
    BY <1>6, <2>1 DEF Paired
  <2>3. f[p] \in cbs /\ q \in cbs
    BY <1>1, <2>2
  <2> HIDE DEF f
  <2>4. f[p] = q
    BY <2>2, <2>3, RankInjective
  <2> QED
    BY <2>4
<1>9. f \in Bijection(K, C)
  <2>1. f \in [K -> C]
    BY <1>6
  <2> HIDE DEF f, K, C
  <2> QED
    BY <1>7, <1>8, <2>1 DEF Bijection, Injection, Surjection, IsInjective
<1>10. ExistsBijection(K, C)
  BY <1>9 DEF ExistsBijection
<1> HIDE DEF K, C
<1>11. Cardinality(C) = Cardinality(K)
  BY <1>3, <1>10, FS_Bijection
<1> QED
  BY <1>3, <1>11 DEF K, C

\* The queues are finite sets of numbers.
LEMMA FiniteQueues ==
    ASSUME TypeOK
    PROVE  /\ Len(log) \in Nat
           /\ pongs \subseteq 0..Len(log) /\ IsFiniteSet(pongs)
           /\ outbound \subseteq 1..Len(log) /\ IsFiniteSet(outbound)
           /\ Outstanding \subseteq 0..Len(log) /\ IsFiniteSet(Outstanding)
<1>1. Len(log) \in Nat /\ outbound \subseteq 1..Len(log)
  BY DEF TypeOK, LogOK, QueuesOK
<1>2. /\ pongs \subseteq 0..Len(log) /\ Outstanding \subseteq 0..Len(log)
      /\ outbound \subseteq 0..Len(log)
  <2>1. wire \subseteq 0..Len(log) /\ outbound \subseteq 0..Len(log)
    BY <1>1 DEF TypeOK, QueuesOK
  <2>2. pongs \subseteq 0..Len(log) /\ replies \subseteq 0..Len(log)
    BY DEF TypeOK, QueuesOK, Pings
  <2> QED
    BY <2>1, <2>2 DEF Outstanding, Pings
<1>3. IsFiniteSet(0..Len(log))
  BY <1>1, FS_Interval
<1> QED
  BY <1>1, <1>2, <1>3, FS_Subset

-----------------------------------------------------------------------------
(* PINGs and callbacks                                                      *)

\* A command is counted on both sides, or on neither.
LEMMA SendAccount ==
    ASSUME TypeOK, SocketInv, PingAccounting, OwnPings,
           NEW kind \in Kinds, SendCommand(kind),
           UNCHANGED <<stream, replies, base>>,
           \/ kind \in {"pub", "pong"} /\ UNCHANGED pongs
           \/ kind \in {"flush", "heartbeat"} /\ pongs' = pongs \cup {Len(log) + 1}
    PROVE  PingAccounting' /\ OwnPings'
<1> SUFFICES ASSUME stream # "none" PROVE PingAccounting' /\ OwnPings'
  BY DEF PingAccounting, OwnPings
<1> DEFINE n == Len(log) + 1
<1>1. /\ Len(log) \in Nat /\ Len(log') = n /\ log'[n] = kind
      /\ \A m \in 1..Len(log) : log'[m] = log[m]
  BY SendLog DEF TypeOK, LogOK
<1>2. outbound' \cup wire' = outbound \cup wire \cup {n}
  <2>1. stream = "open" \/ ~infoReceived
    BY DEF TypeOK, FlagsOK, SocketInv
  <2> QED
    BY <2>1, SendShape
<1>3. /\ outbound \subseteq 1..Len(log) /\ wire \subseteq 0..Len(log)
      /\ Handshake = 0 /\ \A m \in 0..Len(log) : m = 0 \/ m \in 1..Len(log)
  <2>1. \A m \in 0..Len(log) : m = 0 \/ m \in 1..Len(log)
    BY <1>1
  <2> QED
    BY <2>1 DEF TypeOK, QueuesOK, Handshake
<1>4. ASSUME NEW m \in outbound \cup wire
      PROVE  (m = Handshake \/ log'[m] \in {"flush", "heartbeat"})
               <=> (m = Handshake \/ log[m] \in {"flush", "heartbeat"})
  BY <1>1, <1>3
<1>5. ASSUME NEW m
      PROVE  m \in Outstanding' <=> \/ m \in Outstanding
                                    \/ m = n /\ kind \in {"flush", "heartbeat"}
  <2>1. m \in Outstanding' <=>
          \/ m \in replies
          \/ /\ m \in outbound' \cup wire'
             /\ m = Handshake \/ log'[m] \in {"flush", "heartbeat"}
    BY DEF Outstanding, Pings
  <2>2. m \in Outstanding <=>
          \/ m \in replies
          \/ /\ m \in outbound \cup wire
             /\ m = Handshake \/ log[m] \in {"flush", "heartbeat"}
    BY DEF Outstanding, Pings
  <2> QED
    <3>1. CASE m = n
      <4>1. n # Handshake /\ m \notin outbound \cup wire /\ m \in outbound' \cup wire'
        BY <1>1, <1>2, <1>3, <3>1
      <4>2. m \notin Outstanding
        BY <1>1, <3>1, FiniteQueues
      <4> QED
        BY <1>1, <2>1, <2>2, <3>1, <4>1, <4>2
    <3>2. CASE m # n
      BY <1>2, <1>4, <2>1, <2>2, <3>2
    <3> QED
      BY <3>1, <3>2
<1>6. n \notin Outstanding /\ n \notin pongs
  BY <1>1, FiniteQueues
<1>7. base \in Int /\ base' = base /\ base+1..Len(log') = base+1..Len(log) \cup {n}
  BY <1>1 DEF TypeOK, LogOK
<1>8. CASE kind \in {"pub", "pong"} /\ UNCHANGED pongs
  <2>1. Outstanding' = Outstanding
    BY <1>5, <1>8
  <2> QED
    BY <1>6, <1>7, <1>8, <2>1 DEF PingAccounting, OwnPings
<1>9. CASE kind \in {"flush", "heartbeat"} /\ pongs' = pongs \cup {n}
  <2>1. Outstanding' = Outstanding \cup {n}
    BY <1>5, <1>9
  <2>2. /\ Cardinality(Outstanding') = Cardinality(Outstanding) + 1
        /\ Cardinality(pongs') = Cardinality(pongs) + 1
    BY <1>6, <1>9, <2>1, FiniteQueues, FS_AddElement
  <2>3. PingAccounting'
    BY <2>2 DEF PingAccounting
  <2>4. OwnPings'
    BY <1>7, <1>9, <2>1 DEF OwnPings
  <2> QED
    BY <2>3, <2>4
<1> QED
  BY <1>8, <1>9

\* prepareConnection() leaves equally many, and none of the new connection.
LEMMA PrepareAccount ==
    ASSUME TypeOK, NEW cbs, cbs \subseteq pongs, ScheduleReconnect(cbs),
           LeaveSocket, UNCHANGED log
    PROVE  PingAccounting' /\ OwnPings'
<1> SUFFICES ASSUME stream' # "none" PROVE PingAccounting' /\ OwnPings'
  BY DEF PingAccounting, OwnPings
<1>7. CASE closed' /\ outbound' = {} /\ pongs' = {} /\ base' = Len(log)
  <2>1. Outstanding' = {}
    BY <1>7 DEF LeaveSocket, Outstanding, Pings
  <2>2. base'+1..Len(log') = {}
    BY <1>7 DEF TypeOK, LogOK
  <2> QED
    BY <1>7, <2>1, <2>2 DEF PingAccounting, OwnPings
<1> SUFFICES ASSUME PrepareConnection(cbs) PROVE PingAccounting' /\ OwnPings'
  BY <1>7 DEF ScheduleReconnect
<1>1. PrepareConnection(cbs)
  OBVIOUS
<1>2. Outstanding' = KeptPings(cbs)
  <2>1. wire' = {} /\ replies' = {} /\ log' = log
        /\ outbound' = Pubs(outbound) \cup KeptPings(cbs)
    BY <1>1 DEF LeaveSocket, PrepareConnection
  <2>2. KeptPings(cbs) \subseteq Pings(outbound)
    BY DEF KeptPings
  <2>3. Handshake \notin Pubs(outbound)
    BY DEF Pubs
  <2>4. Outstanding' = {m \in outbound' : m = Handshake \/ log[m] \in {"flush", "heartbeat"}}
    BY <2>1 DEF Outstanding, Pings
  <2> QED
    BY <2>1, <2>2, <2>3, <2>4 DEF Pings, Pubs
<1>3. pongs' = KeptCallbacks(cbs) /\ base' = Len(log')
  BY <1>1 DEF PrepareConnection
<1>4. outbound \subseteq Nat /\ cbs \subseteq Nat /\ IsFiniteSet(outbound) /\ IsFiniteSet(cbs)
  <2>1. cbs \in SUBSET pongs
    OBVIOUS
  <2> QED
    BY <2>1, FiniteQueues, FS_Subset
<1>5. Cardinality(Outstanding') = Cardinality(pongs')
  BY <1>2, <1>3, <1>4, KeptEqually
<1>6. base'+1..Len(log') = {}
  BY <1>3 DEF TypeOK, LogOK
<1> QED
  BY <1>5, <1>6 DEF PingAccounting, OwnPings

\* The PONG that is read and the callback it is given to: both of this
\* connection, and then the same command, or both from before it.
LEMMA Heads ==
    ASSUME TypeOK, QueueOrder, PingAccounting, OwnPings, stream # "none",
           NEW p, IsFirst(p, replies), NEW q, IsFirst(q, pongs)
    PROVE  /\ q > base => p = q
           /\ q <= base => p <= base
<1>1. /\ p \in Outstanding /\ q \in pongs
      /\ p \in 0..Len(log) /\ q \in 0..Len(log) /\ Len(log) \in Nat /\ base \in Nat
  <2>1. p \in Outstanding /\ q \in pongs
    BY DEF IsFirst, Outstanding
  <2>2. base \in Nat
    BY DEF TypeOK, LogOK
  <2> QED
    BY <2>1, <2>2, FiniteQueues
<1>2. \A m \in Outstanding : p <= m
  <2> SUFFICES ASSUME NEW m \in Outstanding PROVE p <= m
    OBVIOUS
  <2>1. m \in 0..Len(log)
    BY FiniteQueues
  <2>2. CASE m \in replies
    BY <2>2 DEF IsFirst
  <2>3. CASE m \in wire \cup outbound
    <3>1. p < m
      BY <2>3 DEF QueueOrder, IsFirst
    <3> QED
      BY <1>1, <2>1, <3>1
  <2> QED
    BY <2>2, <2>3 DEF Outstanding, Pings
<1>3. \A m \in pongs : q <= m
  BY DEF IsFirst
<1>4. IsFiniteSet(Outstanding) /\ IsFiniteSet(pongs)
      /\ Cardinality(Outstanding) = Cardinality(pongs)
  BY FiniteQueues DEF PingAccounting
<1>5. \A m \in base+1..Len(log) : m \in Outstanding <=> m \in pongs
  BY DEF OwnPings
<1>6. CASE q > base
  <2>1. \A m \in pongs : m \in base+1..Len(log)
    BY <1>1, <1>3, <1>6, FiniteQueues
  <2>2. pongs \in SUBSET Outstanding
    BY <1>5, <2>1
  <2>3. Outstanding = pongs
    BY <1>4, <2>2, FS_Subset
  <2>4. p <= q /\ q <= p
    BY <1>1, <1>2, <1>3, <2>3
  <2> QED
    BY <1>1, <1>6, <2>4
<1>7. CASE q <= base /\ p > base
  <2>1. \A m \in Outstanding : m \in base+1..Len(log)
    BY <1>1, <1>2, <1>7, FiniteQueues
  <2>2. Outstanding \in SUBSET pongs
    BY <1>5, <2>1
  <2>3. Outstanding = pongs
    BY <1>4, <2>2, FS_Subset
  <2>4. p <= q
    BY <1>1, <1>2, <2>3
  <2> QED
    BY <1>1, <1>7, <2>4
<1> QED
  BY <1>1, <1>6, <1>7

\* The invariants a step may rely on.
Before == TypeOK /\ OneRecoveryPath /\ SocketInv /\ QueueOrder
            /\ PingAccounting /\ OwnPings

\* Every step keeps PINGs and callbacks equally many, and those of this
\* connection the same commands.
LEMMA AccountNext == Before /\ [Next]_vars => PingAccounting' /\ OwnPings'
<1> SUFFICES ASSUME TypeOK, OneRecoveryPath, SocketInv, QueueOrder,
                    PingAccounting, OwnPings, [Next]_vars
             PROVE  PingAccounting' /\ OwnPings'
  BY DEF Before
<1>1. CASE Publish \/ ReceivePing
  BY <1>1, SendAccount DEF Publish, ReceivePing, Kinds
<1>2. CASE Flush \/ Heartbeat
  BY <1>2, SendAccount DEF Flush, Heartbeat, Kinds
<1>3. ASSUME UNCHANGED <<stream, pongs, log, base>>,
             stream # "none" => Outstanding' = Outstanding
      PROVE  PingAccounting' /\ OwnPings'
  BY <1>3 DEF PingAccounting, OwnPings
<1>4. ASSUME stream # "none", Flushed(outbound)
      PROVE  outbound' \cup wire' = outbound \cup wire
  <2>1. stream = "open" \/ ~infoReceived
    BY <1>4 DEF TypeOK, FlagsOK, SocketInv
  <2> QED
    BY <1>4, <2>1, FlushedShape
<1>5. ASSUME outbound' \cup wire' = outbound \cup wire, UNCHANGED <<log, replies>>
      PROVE  Outstanding' = Outstanding
  <2>1. Outstanding = replies \cup Pings(outbound \cup wire)
    BY DEF Outstanding, Pings
  <2>2. Outstanding' = replies \cup Pings(outbound \cup wire)
    BY <1>5 DEF Outstanding, Pings
  <2> QED
    BY <2>1, <2>2
<1>6. CASE FlushPending \/ Secured
  <2>1. UNCHANGED <<stream, pongs, log, base, replies>> /\ Flushed(outbound)
    BY <1>6 DEF FlushPending, Secured, history
  <2>2. stream # "none" => Outstanding' = Outstanding
    BY <1>4, <1>5, <2>1
  <2> QED
    BY <1>3, <2>1, <2>2
<1>7. CASE stream' = "none"
  BY <1>7 DEF PingAccounting, OwnPings
<1>8. CASE Close \/ StaleConnection \/ HandshakeTimeout \/ InfoMismatch \/ ReceiveErr
  BY <1>7, <1>8 DEF Close, Closing, StaleConnection, HandshakeTimeout, InfoMismatch,
     ReceiveErr, DropStream
<1>16. CASE HeartbeatClosing \/ ReceiveInfoClosing
  BY <1>7, <1>16 DEF HeartbeatClosing, ReceiveInfoClosing, Closing
<1>9. CASE CloseEvent \/ SocketLost \/ DialFailed
  <2>1. HandlersClose
    BY <1>9 DEF CloseEvent, SocketLost, DialFailed
  <2>2. CASE closed
    BY <1>7, <2>1, <2>2 DEF HandlersClose
  <2>3. CASE ~closed
    BY <2>1, <2>3, PrepareAccount DEF HandlersClose, KeptByCloseStream
  <2> QED
    BY <2>2, <2>3
<1>10. CASE RetryTimer
  <2>1. CASE closed
    <3>1. UNCHANGED <<stream, pongs, outbound, wire, replies, log, base>>
      BY <1>10, <2>1 DEF RetryTimer
    <3> QED
      BY <1>3, <3>1 DEF Outstanding, Pings
  <2>2. CASE ~closed
    BY <1>10, <2>2, PrepareAccount DEF RetryTimer
  <2> QED
    BY <2>1, <2>2
<1>11. CASE DialOk
  <2>1. stream = "dialing" /\ UNCHANGED <<pongs, outbound, wire, replies, log, base>>
    BY <1>11 DEF DialOk, history
  <2> QED
    BY <2>1 DEF PingAccounting, OwnPings, Outstanding, Pings
<1>12. CASE ReceiveInfo
  <2>1. /\ UNCHANGED <<stream, outbound, replies, log, base>>
        /\ wire' = wire \cup {Handshake} /\ pongs' = pongs \cup {Handshake}
        /\ wire = {} /\ replies = {} /\ stream = "open" /\ Handshake \notin pongs
    BY <1>12 DEF ReceiveInfo, SocketInv, history
  <2>2. Outstanding' = Outstanding \cup {Handshake}
    BY <2>1 DEF Outstanding, Pings
  <2>3. Handshake \notin Outstanding
    BY <2>1, FiniteQueues DEF Outstanding, Pings, Handshake
  <2>4. /\ Cardinality(Outstanding') = Cardinality(Outstanding) + 1
        /\ Cardinality(pongs') = Cardinality(pongs) + 1
    BY <2>1, <2>2, <2>3, FiniteQueues, FS_AddElement
  <2>5. PingAccounting'
    BY <2>1, <2>4 DEF PingAccounting
  <2>6. Handshake \notin base+1..Len(log)
    BY DEF Handshake, TypeOK, LogOK
  <2>7. OwnPings'
    BY <2>1, <2>2, <2>6 DEF OwnPings
  <2> QED
    BY <2>5, <2>7
<1>13. CASE ReceivePong
  <2>1. PICK p \in replies : IsFirst(p, replies) /\ replies' = replies \ {p}
    BY <1>13 DEF ReceivePong
  <2>2. /\ stream = "open" /\ infoReceived /\ UNCHANGED <<stream, log, base>>
        /\ outbound' \cup wire' = outbound \cup wire
    BY <1>4, <1>13 DEF ReceivePong, HandshakeDone
  <2>3. p \in Outstanding /\ p \notin outbound \cup wire
    <3>1. p \in Int /\ \A m \in outbound \cup wire : p < m
      BY <2>1, FiniteQueues DEF QueueOrder, Outstanding
    <3> QED
      BY <2>1, <3>1 DEF Outstanding
  <2>4. Outstanding' = Outstanding \ {p}
    <3>1. Outstanding' = replies' \cup Pings(outbound \cup wire)
      BY <2>2 DEF Outstanding, Pings
    <3>2. Outstanding = replies \cup Pings(outbound \cup wire)
      BY DEF Outstanding, Pings
    <3>3. Pings(outbound \cup wire) \subseteq outbound \cup wire
      BY DEF Pings
    <3> QED
      BY <2>1, <2>3, <3>1, <3>2, <3>3
  <2>5. pongs # {}
    BY <2>2, <2>3, FiniteQueues, FS_EmptySet DEF PingAccounting
  <2>6. PICK q \in pongs : IsFirst(q, pongs) /\ pongs' = pongs \ {q}
    BY <1>13, <2>5 DEF ReceivePong
  <2>7. PingAccounting'
    <3>1. /\ Cardinality(Outstanding') = Cardinality(Outstanding) - 1
          /\ Cardinality(pongs') = Cardinality(pongs) - 1
      BY <2>3, <2>4, <2>6, FiniteQueues, FS_RemoveElement
    <3> QED
      BY <2>2, <3>1 DEF PingAccounting
  <2>8. OwnPings'
    <3>1. /\ q > base => p = q
          /\ q <= base => p <= base
      BY <2>1, <2>2, <2>6, Heads
    <3>2. p \in Int /\ q \in Int /\ base \in Int
      BY <2>3, <2>6, FiniteQueues DEF TypeOK, LogOK
    <3>3. \A m \in base+1..Len(log) : m = p <=> m = q
      BY <3>1, <3>2
    <3> QED
      BY <2>2, <2>4, <2>6, <3>3 DEF OwnPings
  <2> QED
    BY <2>7, <2>8
<1>14. CASE ServerStep
  <2>1. PICK n \in wire : wire' = wire \ {n} /\ replies' = replies \cup Pings({n})
    BY <1>14 DEF ServerStep
  <2>2. UNCHANGED <<stream, pongs, outbound, log, base>>
    BY <1>14 DEF ServerStep, client, history
  <2>3. Outstanding' = Outstanding
    BY <2>1, <2>2 DEF Outstanding, Pings
  <2> QED
    BY <1>3, <2>2, <2>3
<1>15. CASE HeartbeatWhenClosed \/ ServerLate \/ ServerFails \/ UNCHANGED vars
  <2>1. UNCHANGED <<stream, pongs, outbound, wire, replies, log, base>>
    BY <1>15 DEF HeartbeatWhenClosed, ServerLate, ServerFails, vars, client, network, history
  <2> QED
    BY <1>3, <2>1 DEF Outstanding, Pings
<1> QED
  BY <1>1, <1>2, <1>6, <1>8, <1>9, <1>10, <1>11, <1>12, <1>13, <1>14, <1>15, <1>16
     DEF Next, Application, Timers, Heartbeats, Inbound, Socket, Server

-----------------------------------------------------------------------------
(* PUBs                                                                     *)

\* Where a PUB can be.
LEMMA OwnPubsNext == Before /\ OwnPubs /\ [Next]_vars => OwnPubs'
<1> SUFFICES ASSUME TypeOK, OneRecoveryPath, SocketInv, OwnPubs, [Next]_vars
             PROVE  OwnPubs'
  BY DEF Before
<1>1. ASSUME stream # "none", NEW buffer, Flushed(buffer)
      PROVE  outbound' \cup wire' = buffer \cup wire
  <2>1. stream = "open" \/ ~infoReceived
    BY <1>1 DEF TypeOK, FlagsOK, SocketInv
  <2> QED
    BY <1>1, <2>1, FlushedShape
<1>2. ASSUME NEW kind \in Kinds, SendCommand(kind), UNCHANGED <<stream, base, processed>>
      PROVE  OwnPubs'
  <2> SUFFICES ASSUME stream # "none" PROVE OwnPubs'
    BY <1>2 DEF OwnPubs
  <2>1. stream = "open" \/ ~infoReceived
    BY DEF TypeOK, FlagsOK, SocketInv
  <2>2. outbound' \cup wire' = outbound \cup wire \cup {Len(log) + 1}
    BY <1>2, <2>1, SendShape
  <2>3. /\ Len(log) \in Nat /\ Len(log') = Len(log) + 1 /\ base \in Nat
        /\ \A m \in 1..Len(log) : log'[m] = log[m]
    BY <1>2, SendLog DEF TypeOK, LogOK
  <2> QED
    BY <1>2, <2>2, <2>3 DEF OwnPubs
<1>3. CASE Publish \/ Flush \/ Heartbeat \/ ReceivePing
  BY <1>2, <1>3 DEF Publish, Flush, Heartbeat, ReceivePing, Kinds
<1>4. ASSUME UNCHANGED <<stream, base, log>>,
             stream # "none" => outbound \cup wire \cup processed
                                  \subseteq outbound' \cup wire' \cup processed'
      PROVE  OwnPubs'
  BY <1>4 DEF OwnPubs
<1>5. CASE FlushPending \/ Secured
  BY <1>1, <1>4, <1>5 DEF FlushPending, Secured, history
<1>6. CASE stream' = "none"
  BY <1>6 DEF OwnPubs
<1>7. CASE Close \/ StaleConnection \/ HandshakeTimeout \/ InfoMismatch \/ ReceiveErr
  BY <1>6, <1>7 DEF Close, Closing, StaleConnection, HandshakeTimeout, InfoMismatch,
     ReceiveErr, DropStream
<1>16. CASE HeartbeatClosing \/ ReceiveInfoClosing
  BY <1>6, <1>16 DEF HeartbeatClosing, ReceiveInfoClosing, Closing
<1>8. ASSUME NEW cbs, ScheduleReconnect(cbs), UNCHANGED log
      PROVE  OwnPubs'
  <2>1. CASE stream' # "none"
    <3>1. base' = Len(log') /\ Len(log') \in Nat
      BY <1>8, <2>1 DEF ScheduleReconnect, PrepareConnection, TypeOK, LogOK
    <3> QED
      BY <3>1 DEF OwnPubs
  <2> QED
    BY <1>6, <2>1
<1>9. CASE CloseEvent \/ SocketLost \/ DialFailed
  <2>1. HandlersClose
    BY <1>9 DEF CloseEvent, SocketLost, DialFailed
  <2> QED
    BY <1>6, <1>8, <2>1 DEF HandlersClose
<1>10. CASE RetryTimer
  <2>1. CASE closed
    BY <1>4, <1>10, <2>1 DEF RetryTimer
  <2>2. CASE ~closed
    BY <1>8, <1>10, <2>2 DEF RetryTimer
  <2> QED
    BY <2>1, <2>2
<1>11. CASE DialOk
  BY <1>11 DEF DialOk, OwnPubs, history
<1>12. CASE ReceiveInfo
  BY <1>4, <1>12 DEF ReceiveInfo, history
<1>13. CASE ReceivePong
  <2>1. UNCHANGED <<stream, base, log, processed>> /\ stream # "none"
    BY <1>13 DEF ReceivePong
  <2>2. outbound' \cup wire' = outbound \cup wire
    BY <1>1, <1>13, <2>1 DEF ReceivePong, HandshakeDone
  <2> QED
    BY <1>4, <2>1, <2>2
<1>14. CASE ServerStep
  <2>1. PICK n \in wire : wire' = wire \ {n} /\ Processed(n)
    BY <1>14 DEF ServerStep
  <2>2. UNCHANGED <<stream, outbound, log, base>>
    BY <1>14 DEF ServerStep, client, history
  <2>3. ASSUME NEW m \in base+1..Len(log), log[m] = "pub",
               m \in processed \cup wire \cup outbound
        PROVE  m \in processed' \cup wire' \cup outbound'
    <3>1. m # Handshake
      BY DEF TypeOK, LogOK, Handshake
    <3> QED
      BY <2>1, <2>2, <2>3, <3>1 DEF Processed
  <2> QED
    BY <2>2, <2>3 DEF OwnPubs
<1>15. CASE HeartbeatWhenClosed \/ ServerLate \/ ServerFails \/ UNCHANGED vars
  BY <1>4, <1>15 DEF HeartbeatWhenClosed, ServerLate, ServerFails, Processed, vars, client, network, history
<1> QED
  BY <1>3, <1>5, <1>7, <1>9, <1>10, <1>11, <1>12, <1>13, <1>14, <1>15, <1>16
     DEF Next, Application, Timers, Heartbeats, Inbound, Socket, Server

\* No step gets a PUB to two places.
LEMMA AtMostOnceNext == Before /\ AtMostOnce /\ [Next]_vars => AtMostOnce'
<1> SUFFICES ASSUME TypeOK, OneRecoveryPath, SocketInv, QueueOrder, AtMostOnce, [Next]_vars
             PROVE  AtMostOnce'
  BY DEF Before
<1>1. ASSUME NEW kind \in Kinds, SendCommand(kind), UNCHANGED <<abandoned, processed>>
      PROVE  AtMostOnce'
  <2> DEFINE n == Len(log) + 1
  <2>1. /\ n \notin processed /\ n \notin abandoned /\ n \notin outbound /\ n \notin wire
        /\ n # Handshake
    BY DEF TypeOK, LogOK, QueuesOK, Handshake
  <2>2. /\ outbound' \cup wire' \subseteq outbound \cup wire \cup {n}
        /\ outbound' \cap wire' = {}
    BY <1>1, <2>1, SendShape DEF AtMostOnce
  <2>3. \A m \in (outbound \cup wire) \ {Handshake} : log'[m] = log[m]
    <3>1. \A m \in (0..Len(log)) \ {Handshake} : m \in 1..Len(log)
      BY DEF TypeOK, LogOK, Handshake
    <3>2. /\ \A m \in wire : m \in 0..Len(log)
          /\ \A m \in outbound \ {Handshake} : m \in 1..Len(log)
      BY DEF TypeOK, QueuesOK
    <3> QED
      BY <1>1, <3>1, <3>2, SendLog DEF TypeOK
  <2>4. Pubs(outbound)' \cup Pubs(wire)' \subseteq Pubs(outbound) \cup Pubs(wire) \cup {n}
    BY <2>2, <2>3 DEF Pubs
  <2> QED
    BY <1>1, <2>1, <2>2, <2>4 DEF AtMostOnce
<1>2. CASE Publish \/ Flush \/ Heartbeat \/ ReceivePing
  BY <1>1, <1>2 DEF Publish, Flush, Heartbeat, ReceivePing, Kinds
<1>3. ASSUME UNCHANGED <<log, processed, abandoned>>,
             outbound' \cup wire' \subseteq outbound \cup wire,
             outbound' \cap wire' = {}
      PROVE  AtMostOnce'
  BY <1>3 DEF AtMostOnce, Pubs
<1>4. Flushed(outbound) => /\ outbound' \cup wire' \subseteq outbound \cup wire
                           /\ outbound' \cap wire' = {}
  BY FlushedShape DEF AtMostOnce
<1>5. CASE FlushPending \/ Secured
  BY <1>3, <1>4, <1>5 DEF FlushPending, Secured, history
<1>6. ASSUME LeaveSocket, outbound' \subseteq outbound, UNCHANGED <<log, processed>>
      PROVE  AtMostOnce'
  BY <1>6 DEF LeaveSocket, AtMostOnce, Pubs
<1>7. CASE StaleConnection \/ HandshakeTimeout \/ InfoMismatch \/ ReceiveErr
  BY <1>6, <1>7 DEF StaleConnection, HandshakeTimeout, InfoMismatch,
     ReceiveErr, DropStream
<1>15. CASE Close \/ HeartbeatClosing \/ ReceiveInfoClosing
  <2>1. /\ LeaveSocket /\ outbound' = {} /\ wire' = {} /\ UNCHANGED processed
    BY <1>15 DEF Close, HeartbeatClosing, ReceiveInfoClosing, Closing, LeaveSocket
  <2>2. Pubs(outbound)' = {} /\ Pubs(wire)' = {}
    BY <2>1 DEF Pubs
  <2> QED
    BY <2>1, <2>2 DEF LeaveSocket, AtMostOnce
<1>8. CASE CloseEvent \/ SocketLost \/ DialFailed
  <2>1. HandlersClose
    BY <1>8 DEF CloseEvent, SocketLost, DialFailed
  <2> QED
    BY <1>6, <2>1, HandlersCloseType DEF HandlersClose
<1>9. CASE RetryTimer
  <2>1. CASE closed
    BY <1>3, <1>9, <2>1 DEF RetryTimer, AtMostOnce
  <2>2. CASE ~closed
    BY <1>6, <1>9, <2>2, ReconnectType DEF RetryTimer
  <2> QED
    BY <2>1, <2>2
<1>10. CASE DialOk \/ HeartbeatWhenClosed \/ ServerFails \/ UNCHANGED vars
  BY <1>3, <1>10 DEF DialOk, HeartbeatWhenClosed, ServerFails, vars, client, network, history, AtMostOnce
<1>11. CASE ReceiveInfo
  <2>1. Handshake \notin outbound
    BY DEF TypeOK, LogOK, QueuesOK, Handshake
  <2> QED
    BY <1>11, <2>1 DEF ReceiveInfo, AtMostOnce, Pubs, history
<1>12. CASE ReceivePong
  BY <1>3, <1>4, <1>12 DEF ReceivePong, HandshakeDone, AtMostOnce
<1>13. CASE ServerStep
  <2>1. PICK n \in wire : wire' = wire \ {n} /\ Processed(n)
    BY <1>13 DEF ServerStep
  <2>2. UNCHANGED <<outbound, abandoned, log>>
    BY <1>13 DEF ServerStep, client, history
  <2> QED
    BY <2>1, <2>2 DEF AtMostOnce, Processed, Pubs
<1>14. CASE ServerLate
  <2>1. PICK n \in abandoned : abandoned' = abandoned \ {n} /\ Processed(n)
    BY <1>14 DEF ServerLate
  <2>2. UNCHANGED <<outbound, wire, log>>
    BY <1>14 DEF ServerLate, client, history
  <2> QED
    BY <2>1, <2>2 DEF AtMostOnce, Processed, Pubs
<1> QED
  BY <1>2, <1>5, <1>7, <1>8, <1>9, <1>10, <1>11, <1>12, <1>13, <1>14, <1>15
     DEF Next, Application, Timers, Heartbeats, Inbound, Socket, Server

\* A callback is called only before all the callbacks still waiting.
LEMMA FiredNext == Before /\ FiredFirst /\ [Next]_vars => FiredFirst'
<1> SUFFICES ASSUME TypeOK, OneRecoveryPath, FiredFirst, [Next]_vars
             PROVE  FiredFirst'
  BY DEF Before
<1>1. ASSUME pongs' \subseteq pongs \cup {Len(log) + 1}, UNCHANGED fired
      PROVE  FiredFirst'
  <2>1. \A f \in fired : f < Len(log) + 1
    BY DEF TypeOK, LogOK, QueuesOK
  <2> QED
    BY <1>1, <2>1 DEF FiredFirst
<1>2. CASE Publish \/ Flush \/ Heartbeat \/ ReceivePing \/ FlushPending \/ Secured
  BY <1>1, <1>2 DEF Publish, Flush, Heartbeat, ReceivePing, FlushPending, Secured, history
<1>9. CASE Close \/ HeartbeatClosing \/ HeartbeatWhenClosed
  BY <1>1, <1>9 DEF Close, HeartbeatClosing, HeartbeatWhenClosed, Closing, history
<1>10. CASE ReceiveInfoClosing
  BY <1>10 DEF ReceiveInfoClosing, Closing, FiredFirst
<1>3. CASE StaleConnection \/ HandshakeTimeout \/ InfoMismatch \/ ReceiveErr
  BY <1>1, <1>3 DEF StaleConnection, HandshakeTimeout, InfoMismatch,
     ReceiveErr, DropStream, KeptByCloseStream
<1>4. CASE CloseEvent \/ SocketLost \/ DialFailed
  <2>1. HandlersClose
    BY <1>4 DEF CloseEvent, SocketLost, DialFailed
  <2> QED
    BY <1>1, <2>1, HandlersCloseType DEF HandlersClose
<1>5. CASE RetryTimer
  <2>1. CASE closed
    BY <1>1, <1>5, <2>1 DEF RetryTimer
  <2>2. CASE ~closed
    BY <1>1, <1>5, <2>2, ReconnectType DEF RetryTimer
  <2> QED
    BY <2>1, <2>2
<1>6. CASE DialOk \/ Server \/ UNCHANGED vars
  BY <1>1, <1>6 DEF DialOk, Server, ServerStep, ServerLate, ServerFails,
     vars, client, history
<1>7. CASE ReceiveInfo
  BY <1>7 DEF ReceiveInfo, FiredFirst, history
<1>8. CASE ReceivePong
  <2>1. CASE UNCHANGED <<pongs, fired>>
    BY <1>1, <2>1
  <2>2. CASE ~UNCHANGED <<pongs, fired>>
    <3>1. PICK q \in pongs : /\ IsFirst(q, pongs) /\ pongs' = pongs \ {q}
                             /\ \/ fired' = fired
                                \/ q # Handshake /\ fired' = fired \cup {q}
      BY <1>8, <2>2 DEF ReceivePong
    <3>2. \A m \in pongs : m \in Int
      BY FiniteQueues
    <3>3. \A m \in pongs' : q < m
      BY <3>1, <3>2 DEF IsFirst
    <3> QED
      BY <3>1, <3>3 DEF FiredFirst
  <2> QED
    BY <2>1, <2>2
<1> QED
  BY <1>2, <1>3, <1>4, <1>5, <1>6, <1>7, <1>8, <1>9, <1>10
     DEF Next, Application, Timers, Heartbeats, Inbound, Socket

-----------------------------------------------------------------------------
(* Theorems                                                                 *)

\* The inductive invariant holds where connect() resolves.
LEMMA IInvInit == Init => IInv
<1> SUFFICES ASSUME Init PROVE IInv
  OBVIOUS
<1>1. TypeOK /\ OneRecoveryPath
  BY TypeInit DEF Init, OneRecoveryPath
<1>2. SocketInv /\ QueueOrder /\ AtMostOnce /\ FiredFirst
  BY DEF Init, SocketInv, QueueOrder, NoOvertaking, AtMostOnce, Pubs, FiredFirst
<1>3. PingAccounting
  BY DEF Init, PingAccounting, Outstanding, Pings
<1>4. base+1..Len(log) = {}
  BY DEF Init
<1>5. OwnPings /\ OwnPubs
  BY <1>4 DEF OwnPings, OwnPubs
<1> QED
  BY <1>1, <1>2, <1>3, <1>5 DEF IInv

\* The inductive invariant is inductive: the lemmas above, one per conjunct.
LEMMA IInvNext == IInv /\ [Next]_vars => IInv'
BY TypeNext, RecoveryNext, SocketNext, OrderNext, AccountNext, OwnPubsNext,
   AtMostOnceNext, FiredNext DEF IInv, Before

\* The inductive invariant of Pipeline holds for every value of the constants.
THEOREM Invariance == Spec => []IInv
BY IInvInit, IInvNext, PTL DEF Spec

\* A live connection never has more or fewer callbacks than PINGs to be
\* answered, over any number of failures (PingAccounting).
THEOREM PongsMatchPings == Spec => []PingAccounting
<1>1. IInv => PingAccounting
  BY DEF IInv
<1> QED
  BY <1>1, Invariance, PTL

\* A client that is not closed never loses its way back to a server, and
\* never has two (OneRecoveryPath).
THEOREM NeverStranded == Spec => []OneRecoveryPath
<1>1. IInv => OneRecoveryPath
  BY DEF IInv
<1> QED
  BY <1>1, Invariance, PTL

\* No PUB is written twice, and none is written before an older command that
\* is still buffered (AtMostOnce, NoOvertaking).
THEOREM WrittenOnceInOrder == Spec => []OnceInOrder
<1>1. IInv => OnceInOrder
  BY DEF IInv, QueueOrder, OnceInOrder
<1> QED
  BY <1>1, Invariance, PTL

\* When the callback of a flush of this connection is called, every PUB
\* issued on the connection before it has been processed.
LEMMA CalledBehindBarrier ==
    ASSUME IInv, stream # "none", NEW p, IsFirst(p, replies),
           NEW q \in pongs, IsFirst(q, pongs)
    PROVE  q > base => \A m \in base+1..q-1 : log[m] = "pub" => m \in processed
<1> SUFFICES ASSUME q > base, NEW m \in base+1..q-1, log[m] = "pub"
             PROVE  m \in processed
  OBVIOUS
<1> USE DEF IInv
<1>1. q = p /\ p \in replies
  BY Heads DEF IsFirst
<1>2. q \in 0..Len(log) /\ base \in Nat /\ Len(log) \in Nat
  BY FiniteQueues DEF TypeOK, LogOK
<1>3. m \in base+1..Len(log) /\ m < q
  BY <1>2
<1>4. m \notin wire \cup outbound
  BY <1>1, <1>2, <1>3 DEF QueueOrder
<1> QED
  BY <1>3, <1>4 DEF OwnPubs

\* The client begins where Delivery begins.
LEMMA RefinesInit == Init => Contract!Init
BY DEF Init, Contract!Init

\* A step of the client is a step of Delivery or leaves it alone: commands are
\* issued, prepareConnection() begins an epoch, the server delivers, and the
\* PONG of a flush calls its callback.
LEMMA RefinesNext == IInv /\ [Next]_vars => [Contract!Next]_(Contract!vars)
<1> SUFFICES ASSUME IInv, TypeOK, [Next]_vars
             PROVE  Contract!Next \/ UNCHANGED <<log, base, processed, fired>>
  BY DEF IInv, Contract!vars
<1>1. ASSUME NEW kind \in Kinds, SendCommand(kind), UNCHANGED <<base, processed, fired>>
      PROVE  Contract!Next
  BY <1>1 DEF Contract!Next, Contract!Issue, SendCommand, Kinds
<1>2. CASE Publish \/ Flush \/ Heartbeat \/ ReceivePing
  BY <1>1, <1>2 DEF Publish, Flush, Heartbeat, ReceivePing, Kinds
<1>3. CASE FlushPending \/ DialOk \/ Secured \/ HeartbeatWhenClosed \/ ReceiveInfo
           \/ ServerFails \/ UNCHANGED vars
  BY <1>3 DEF FlushPending, DialOk, Secured, HeartbeatWhenClosed, ReceiveInfo,
     ServerFails, vars, client, network, history
<1>11. CASE Close \/ ReceiveInfoClosing
  BY <1>11 DEF Close, ReceiveInfoClosing, Closing
<1>12. CASE HeartbeatClosing
  BY <1>12 DEF HeartbeatClosing, Closing, Contract!Next, Contract!Issue
<1>4. CASE StaleConnection \/ HandshakeTimeout \/ InfoMismatch \/ ReceiveErr
  BY <1>4 DEF StaleConnection, HandshakeTimeout, InfoMismatch, ReceiveErr, DropStream
<1>5. ASSUME base' \in {base, Len(log)}, UNCHANGED <<log, processed, fired>>
      PROVE  Contract!Next \/ UNCHANGED <<log, base, processed, fired>>
  BY <1>5 DEF Contract!Next, Contract!NewEpoch
<1>6. CASE CloseEvent \/ SocketLost \/ DialFailed
  <2>1. HandlersClose
    BY <1>6 DEF CloseEvent, SocketLost, DialFailed
  <2> QED
    BY <1>5, <2>1, HandlersCloseType DEF HandlersClose
<1>7. CASE RetryTimer
  <2>1. CASE closed
    BY <1>7, <2>1 DEF RetryTimer
  <2>2. CASE ~closed
    BY <1>5, <1>7, <2>2, ReconnectType DEF RetryTimer
  <2> QED
    BY <2>1, <2>2
<1>8. CASE ReceivePong
  <2>1. UNCHANGED <<log, base, processed>> /\ stream = "open"
    BY <1>8 DEF ReceivePong
  <2>2. PICK p \in replies : IsFirst(p, replies)
    BY <1>8 DEF ReceivePong
  <2>3. CASE UNCHANGED fired
    BY <2>1, <2>3
  <2>4. CASE ~UNCHANGED fired
    <3>1. PICK q \in pongs : /\ IsFirst(q, pongs) /\ q # Handshake
                             /\ log[q] = "flush" /\ fired' = fired \cup {q}
      BY <1>8, <2>4 DEF ReceivePong
    <3>2. q \in 1..Len(log)
      BY <3>1, FiniteQueues DEF Handshake
    <3>3. \A g \in fired : g < q
      BY <3>1 DEF IInv, FiredFirst
    <3>4. q > base => \A m \in base+1..q-1 : log[m] = "pub" => m \in processed
      BY <2>1, <2>2, <3>1, CalledBehindBarrier
    <3>5. Contract!Call
      BY <2>1, <3>1, <3>2, <3>3, <3>4 DEF Contract!Call, Contract!Barrier
    <3> QED
      BY <3>5 DEF Contract!Next
  <2> QED
    BY <2>3, <2>4
<1>9. ASSUME NEW n, n \in wire \/ n \in abandoned, Processed(n),
             UNCHANGED <<log, base, fired>>
      PROVE  Contract!Next \/ UNCHANGED <<log, base, processed, fired>>
  <2>1. CASE n # Handshake /\ log[n] = "pub"
    <3>1. n \in 1..Len(log)
      <4>1. n \in 0..Len(log) \/ n \in 1..Len(log)
        BY <1>9 DEF TypeOK, QueuesOK
      <4> QED
        BY <2>1, <4>1 DEF Handshake, TypeOK, LogOK
    <3>2. n \notin processed
      BY <1>9, <2>1 DEF IInv, AtMostOnce, Pubs
    <3>3. Contract!Deliver
      BY <1>9, <2>1, <3>1, <3>2 DEF Contract!Deliver, Processed
    <3> QED
      BY <3>3 DEF Contract!Next
  <2>2. CASE ~(n # Handshake /\ log[n] = "pub")
    BY <1>9, <2>2 DEF Processed
  <2> QED
    BY <2>1, <2>2
<1>10. CASE ServerStep \/ ServerLate
  BY <1>9, <1>10 DEF ServerStep, ServerLate, client, history
<1> QED
  BY <1>2, <1>3, <1>4, <1>6, <1>7, <1>8, <1>10, <1>11, <1>12
     DEF Next, Application, Timers, Heartbeats, Inbound, Socket, Server

\* The pipeline implements Delivery: at most one processing per PUB, one call
\* per flush, in order, and a flush is a barrier on its own connection.
THEOREM PipelineImplementsDelivery == Spec => ImplementsDelivery
BY RefinesInit, RefinesNext, Invariance, PTL
   DEF Spec, ImplementsDelivery, Contract!Spec
=============================================================================
