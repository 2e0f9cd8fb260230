------------------------------ MODULE Pipeline ------------------------------
(***************************************************************************)
(* The command pipeline of ProtocolHandler: what happens to every PUB, to   *)
(* every flush() and to every heartbeat between the call and the server,    *)
(* over a connection that fails and is re-established.                      *)
(*                                                                          *)
(* A command is named by its number: command n is the n-th the client has   *)
(* issued and log[n] is its kind.  Commands are buffered, written, answered *)
(* and re-sent oldest first, so the FIFO structures of the code             *)
(* (this.outbound, the socket, this.pongs) are sets of numbers whose head   *)
(* is their minimum.  A flush or heartbeat n puts PING n in outbound and    *)
(* callback n in pongs.  Number 0 is the PING of the connect handshake and  *)
(* its callback, which pongs.unshift() places before all others.            *)
(*                                                                          *)
(* The client starts where Client.connect() resolves: the TCP connection is *)
(* open and the server's INFO has not been read.                            *)
(***************************************************************************)
EXTENDS Integers, Sequences, FiniteSets

CONSTANTS
    MaxCommands,    \* bound: commands issued in a behaviour
    MaxFaults,      \* bound: failures the environment injects
    MaxPingOut,     \* options.maxPingOut
    MayGiveUp       \* FALSE: reconnect is on, maxReconnectAttempts is -1

ASSUME BoundsAssumption ==
    /\ MaxCommands \in Nat
    /\ MaxFaults \in Nat
    /\ MaxPingOut \in Nat
    /\ MayGiveUp \in BOOLEAN

VARIABLES
    closed,         \* this.closed
    connected,      \* this.connected
    wasConnected,   \* this.wasConnected
    infoReceived,   \* this.infoReceived
    stream,         \* transport.stream: null, connecting, connected
    closeEvent,     \* the 'close' event of a destroyed socket is due
    retry,          \* the setTimeout of scheduleReconnect() is armed
    outbound,       \* this.outbound: commands not yet written
    pongs,          \* this.pongs: callbacks waiting for a PONG
    immediate,      \* a setImmediate(flushPending) is due
    pout,           \* this.pout: heartbeats since the last PONG
    pingTimer       \* this.pingTimer is armed

client == <<closed, connected, wasConnected, infoReceived, stream, closeEvent,
            retry, outbound, pongs, immediate, pout, pingTimer>>

VARIABLES
    peer,           \* the server's end: "up", "tls" (the TLS handshake runs),
                    \* "err" (-ERR sent), "gone"
    wire,           \* commands written and not yet read by the server
    replies,        \* PINGs whose PONG is on its way to the client
    abandoned,      \* PUBs left on a socket the client has destroyed
    processed       \* PUBs the server has processed

network == <<peer, wire, replies, abandoned, processed>>

VARIABLES
    log,            \* the kinds of the commands issued so far
    base,           \* Len(log) when the current connection was prepared
    fired,          \* flushes whose callback has been called
    faults          \* failures injected so far

history == <<log, base, fired, faults>>
vars == <<client, network, history>>

-----------------------------------------------------------------------------
Kinds == {"pub", "flush", "heartbeat", "pong"}
Numbers == 1..MaxCommands
Handshake == 0

Pubs(S) == {n \in S \ {Handshake} : log[n] = "pub"}
Pings(S) == {n \in S : n = Handshake \/ log[n] \in {"flush", "heartbeat"}}
IsFirst(n, S) == n \in S /\ \A m \in S : n <= m
Rank(n, S) == Cardinality({m \in S : m <= n})

\* PINGs of the current connection that have not been matched by a PONG.
Outstanding == replies \cup Pings(wire) \cup Pings(outbound)

\* The PONG of the handshake has been read: the connection is established.
Established == stream = "open" /\ infoReceived /\ Handshake \notin pongs

FlagsOK ==
    /\ closed \in BOOLEAN /\ connected \in BOOLEAN /\ wasConnected \in BOOLEAN
    /\ infoReceived \in BOOLEAN
    /\ stream \in {"none", "dialing", "open"}
    /\ closeEvent \in BOOLEAN /\ retry \in BOOLEAN
    /\ immediate \in BOOLEAN /\ pingTimer \in BOOLEAN
    /\ peer \in {"up", "tls", "err", "gone"}

CountersOK == pout \in 0..MaxPingOut /\ faults \in 0..MaxFaults

LogOK ==
    /\ log \in Seq(Kinds) /\ Len(log) <= MaxCommands
    /\ base \in 0..Len(log)

QueuesOK ==
    /\ outbound \subseteq 1..Len(log)
    /\ wire \subseteq 0..Len(log)
    /\ abandoned \subseteq 1..Len(log)
    /\ processed \subseteq 1..Len(log)
    /\ fired \subseteq 1..Len(log)
    /\ pongs \subseteq Pings(0..Len(log))
    /\ replies \subseteq Pings(0..Len(log))

TypeOK == FlagsOK /\ CountersOK /\ LogOK /\ QueuesOK

Init ==
    /\ closed = FALSE /\ connected = TRUE /\ wasConnected = FALSE
    /\ infoReceived = FALSE
    /\ stream = "open" /\ closeEvent = FALSE /\ retry = FALSE
    /\ outbound = {} /\ pongs = {} /\ immediate = FALSE
    /\ pout = 0 /\ pingTimer = FALSE
    /\ peer = "up" /\ wire = {} /\ replies = {}
    /\ abandoned = {} /\ processed = {}
    /\ log = <<>> /\ base = 0 /\ fired = {} /\ faults = 0

Fault == faults < MaxFaults /\ faults' = faults + 1

-----------------------------------------------------------------------------
(* Writing                                                                  *)

\* transport.write(): without a stream the bytes are dropped.
Write(cmds) == wire' = IF stream = "open" THEN wire \cup cmds ELSE wire

\* flushPending() on a buffer: nothing is written before INFO.
Flushed(buffer) ==
    IF infoReceived THEN outbound' = {} /\ Write(buffer)
                    ELSE outbound' = buffer /\ UNCHANGED wire

\* Faulty: with INFO read, a command is written past the buffer.
SendCommandUnbuffered(kind) ==
    LET n == Len(log) + 1 IN
    /\ n <= MaxCommands
    /\ log' = Append(log, kind)
    /\ UNCHANGED immediate
    /\ IF infoReceived THEN Write({n}) /\ UNCHANGED outbound
                       ELSE outbound' = outbound \cup {n} /\ UNCHANGED wire

\* sendCommand() of a command of this kind.  The first command of a buffer
\* schedules the flush; a later one flushes at once when the buffer has
\* grown past FLUSH_THRESHOLD bytes, which depends on payload sizes.
SendCommand(kind) ==
    LET n == Len(log) + 1 IN
    /\ n <= MaxCommands
    /\ log' = Append(log, kind)
    /\ \/ /\ outbound = {}
          /\ outbound' = {n} /\ immediate' = TRUE /\ UNCHANGED wire
       \/ /\ outbound # {}
          /\ outbound' = outbound \cup {n} /\ UNCHANGED <<immediate, wire>>
       \/ /\ outbound # {}
          /\ Flushed(outbound \cup {n}) /\ UNCHANGED immediate

\* The setImmediate callback.
FlushPending ==
    /\ immediate
    /\ immediate' = FALSE
    /\ Flushed(outbound)
    /\ UNCHANGED <<closed, connected, wasConnected, infoReceived, stream,
                   closeEvent, retry, pongs, pout, pingTimer>>
    /\ UNCHANGED <<peer, replies, abandoned, processed, history>>

-----------------------------------------------------------------------------
(* Calls of the application.  A closed client rejects them.                 *)

Publish ==
    /\ ~closed
    /\ SendCommand("pub")
    /\ UNCHANGED <<closed, connected, wasConnected, infoReceived, stream,
                   closeEvent, retry, pongs, pout, pingTimer>>
    /\ UNCHANGED <<peer, replies, abandoned, processed, base, fired, faults>>

Flush ==
    /\ ~closed
    /\ pongs' = pongs \cup {Len(log) + 1}
    /\ SendCommand("flush")
    /\ UNCHANGED <<closed, connected, wasConnected, infoReceived, stream,
                   closeEvent, retry, pout, pingTimer>>
    /\ UNCHANGED <<peer, replies, abandoned, processed, base, fired, faults>>

-----------------------------------------------------------------------------
(* The heartbeat timer, and a PING sent by the server                       *)

\* Faulty: one PING more than maxPingOut.
HeartbeatOnceMore ==
    /\ pingTimer /\ stream = "open" /\ ~closed
    /\ pout <= MaxPingOut
    /\ pout' = pout + 1
    /\ pongs' = pongs \cup {Len(log) + 1}
    /\ SendCommand("heartbeat")
    /\ UNCHANGED <<closed, connected, wasConnected, infoReceived, stream,
                   closeEvent, retry, pingTimer>>
    /\ UNCHANGED <<peer, replies, abandoned, processed, base, fired, faults>>

\* While the socket is not connected the timer is only re-armed.
Heartbeat ==
    /\ pingTimer /\ stream = "open" /\ ~closed
    /\ pout < MaxPingOut
    /\ pout' = pout + 1
    /\ pongs' = pongs \cup {Len(log) + 1}
    /\ SendCommand("heartbeat")
    /\ UNCHANGED <<closed, connected, wasConnected, infoReceived, stream,
                   closeEvent, retry, pingTimer>>
    /\ UNCHANGED <<peer, replies, abandoned, processed, base, fired, faults>>

\* processInbound() of a closed client reads nothing.
ReceivePing ==
    /\ stream = "open" /\ infoReceived /\ peer = "up" /\ ~closed
    /\ SendCommand("pong")
    /\ UNCHANGED <<closed, connected, wasConnected, infoReceived, stream,
                   closeEvent, retry, pongs, pout, pingTimer>>
    /\ UNCHANGED <<peer, replies, abandoned, processed, base, fired, faults>>

-----------------------------------------------------------------------------
(* Losing the connection                                                    *)

\* transport.destroy() as the network sees it.  What was written to a live
\* peer may still be read there.
LeaveSocket ==
    /\ abandoned' = IF peer = "up" THEN abandoned \cup Pubs(wire) ELSE abandoned
    /\ wire' = {} /\ replies' = {} /\ peer' = "gone"

\* The callbacks that closeStream() leaves.
KeptByCloseStream == IF connected \/ closed THEN {} ELSE pongs

\* cancelHeartbeat(), and a faulty one.
HeartbeatNotCancelled == UNCHANGED pingTimer
CancelHeartbeat == pingTimer' = FALSE

\* The paths on which the client itself drops a stream.  The 'close' event
\* of the destroyed socket is delivered later.
DropStream ==
    /\ stream' = "none" /\ closeEvent' = TRUE
    /\ LeaveSocket
    /\ connected' = FALSE
    /\ pout' = IF connected \/ closed THEN 0 ELSE pout
    /\ pongs' = KeptByCloseStream
    /\ UNCHANGED <<closed, wasConnected, infoReceived, retry, outbound, immediate>>
    /\ UNCHANGED <<processed, log, base, fired>>

\* processErr() on a -ERR other than a permissions violation.
ReceiveErr ==
    /\ stream = "open" /\ peer = "err" /\ infoReceived /\ replies = {} /\ ~closed
    /\ DropStream
    /\ UNCHANGED <<pingTimer, faults>>

\* processErr() on the heartbeat that finds too many PINGs unanswered.  The
\* timer is not re-armed.
StaleConnection ==
    /\ pingTimer /\ stream = "open" /\ ~closed
    /\ pout >= MaxPingOut
    /\ DropStream
    /\ pingTimer' = FALSE
    /\ UNCHANGED faults

\* checkTLSMismatch(), checkNoEchoMismatch() or checkNonceSigner() fails.
InfoMismatch ==
    /\ stream = "open" /\ ~infoReceived /\ ~closed
    /\ Fault
    /\ DropStream
    /\ UNCHANGED pingTimer

\* The timer of startHandshakeTimeout() fires.  It can be the timer of an
\* earlier attempt, which nothing clears, so any instant is possible.
HandshakeTimeout ==
    /\ stream # "none"
    /\ Fault
    /\ DropStream
    /\ UNCHANGED pingTimer

\* What close() does in whatever handler it is called.  The 'close' event of
\* the socket it destroys is to come.
Closing ==
    /\ closed' = TRUE
    /\ stream' = "none" /\ closeEvent' = (closeEvent \/ stream # "none")
    /\ LeaveSocket
    /\ connected' = FALSE /\ outbound' = {}
    /\ UNCHANGED <<wasConnected, retry, immediate, processed, base, fired, faults>>

\* Client.close(), which an application may call again.
Close ==
    /\ Closing
    /\ CancelHeartbeat
    /\ pout' = 0 /\ pongs' = {}
    /\ UNCHANGED <<infoReceived, log>>

\* A 'pingcount' listener calls close() between the heartbeat's check of
\* closed and its PING.  sendCommand() returns early, but the entry of the
\* PING is pushed, under a number of its own, and the timer is armed again.
HeartbeatClosing ==
    /\ pingTimer /\ stream = "open" /\ ~closed
    /\ MaxPingOut > 0 /\ Len(log) < MaxCommands
    /\ Closing
    /\ pingTimer' = TRUE
    /\ pout' = 1 /\ pongs' = {Len(log) + 1}
    /\ log' = Append(log, "heartbeat")
    /\ UNCHANGED infoReceived

\* The timer of a closed client is not re-armed.
HeartbeatWhenClosed ==
    /\ pingTimer /\ closed
    /\ pingTimer' = FALSE
    /\ UNCHANGED <<closed, connected, wasConnected, infoReceived, stream,
                   closeEvent, retry, outbound, pongs, immediate, pout>>
    /\ UNCHANGED <<network, history>>

-----------------------------------------------------------------------------
(* Reconnecting                                                             *)

\* An entry of pongs that is a function: not the undefined of a heartbeat.
HasCallback(q) == q = Handshake \/ log[q] = "flush"

\* The loop of prepareConnection() pairs the i-th PING it finds in outbound
\* with the i-th entry of pongs.
Paired(p, q, cbs) == Rank(p, Pings(outbound)) = Rank(q, cbs)
KeptPingsUnpaired(cbs) == Pings(outbound)        \* faulty
KeptPings(cbs) ==
    {p \in Pings(outbound) : \E q \in cbs : HasCallback(q) /\ Paired(p, q, cbs)}
KeptCallbacksUnpaired(cbs) == {q \in cbs : HasCallback(q)}        \* faulty
KeptCallbacks(cbs) ==
    {q \in cbs : HasCallback(q) /\ \E p \in Pings(outbound) : Paired(p, q, cbs)}

PrepareConnection(cbs) ==
    /\ outbound' = Pubs(outbound) \cup KeptPings(cbs)
    /\ pongs' = KeptCallbacks(cbs)
    /\ infoReceived' = FALSE
    /\ base' = Len(log)

\* Faulty: it returns without a timer when no server may be dialed yet.
ScheduleReconnectOnce(cbs) ==
    \/ /\ stream' = "dialing" /\ retry' = FALSE
       /\ PrepareConnection(cbs)
       /\ UNCHANGED closed
    \/ /\ stream' = "none" /\ retry' = FALSE
       /\ pongs' = cbs
       /\ UNCHANGED <<closed, infoReceived, outbound, base>>

\* scheduleReconnect() of a client that is not closed, with these callbacks
\* in pongs: close, dial a server, or wait until a server may be dialed.  A
\* 'reconnecting' listener may call close() just before the dial, which goes
\* on nevertheless.
ScheduleReconnect(cbs) ==
    \/ /\ MayGiveUp
       /\ closed' = TRUE /\ stream' = "none" /\ retry' = FALSE
       /\ pongs' = {} /\ outbound' = {}
       /\ UNCHANGED <<infoReceived, base>>
    \/ /\ stream' = "dialing" /\ retry' = FALSE
       /\ PrepareConnection(cbs)
       /\ UNCHANGED closed
    \/ /\ wasConnected
       /\ closed' = TRUE /\ stream' = "dialing" /\ retry' = FALSE
       /\ pongs' = {} /\ outbound' = {}
       /\ infoReceived' = FALSE /\ base' = Len(log)
    \/ /\ stream' = "none" /\ retry' = TRUE
       /\ pongs' = cbs
       /\ UNCHANGED <<closed, infoReceived, outbound, base>>

\* handlers.close().
HandlersClose ==
    /\ CancelHeartbeat
    /\ LeaveSocket
    /\ connected' = FALSE
    /\ \/ /\ closed
          /\ stream' = "none" /\ pongs' = {} /\ outbound' = {}
          /\ UNCHANGED <<closed, infoReceived, retry, base>>
       \/ /\ ~closed
          /\ ScheduleReconnect(KeptByCloseStream)
    /\ pout' = IF connected \/ closed' THEN 0 ELSE pout
    /\ UNCHANGED <<wasConnected, immediate, processed, log, fired>>

\* 'close' of a socket the client has destroyed.
CloseEvent ==
    /\ closeEvent
    /\ closeEvent' = FALSE
    /\ HandlersClose
    /\ UNCHANGED faults

\* 'close' of a connected socket whose peer has closed.
SocketLost ==
    /\ stream = "open" /\ peer \in {"err", "gone"}
    /\ HandlersClose
    /\ UNCHANGED <<closeEvent, faults>>

\* 'error' then 'close' of a socket that could not connect.
DialFailed ==
    /\ stream = "dialing"
    /\ Fault
    /\ HandlersClose
    /\ UNCHANGED closeEvent

\* The timer of scheduleReconnect().  A timer that is armed again because no
\* server may be dialed yet is a stuttering step.
RetryTimer ==
    /\ retry
    /\ \/ /\ closed
          /\ retry' = FALSE
          /\ UNCHANGED <<closed, stream, infoReceived, pongs, outbound, base,
                         closeEvent, pout, peer, wire, replies, abandoned>>
       \/ /\ ~closed
          /\ ScheduleReconnect(pongs)
          /\ pout' = IF closed' THEN 0 ELSE pout
          /\ ~retry'
          /\ LeaveSocket
          /\ closeEvent' = (closeEvent \/ stream # "none")
    /\ UNCHANGED <<connected, wasConnected, immediate, pingTimer>>
    /\ UNCHANGED <<processed, log, fired, faults>>

\* The callback of net.createConnection().
DialOk ==
    /\ stream = "dialing"
    /\ stream' = "open" /\ connected' = TRUE
    /\ peer' = "up"
    /\ UNCHANGED <<closed, wasConnected, infoReceived, closeEvent, retry,
                   outbound, pongs, immediate, pout, pingTimer>>
    /\ UNCHANGED <<wire, replies, abandoned, processed, history>>

\* The first INFO: CONNECT and PING are written at once, past outbound, and
\* the flushPending() that follows still finds infoReceived false.  If the
\* server wants TLS, the TLS handshake begins before they reach it.
ReceiveInfo ==
    /\ stream = "open" /\ ~infoReceived /\ ~closed
    /\ \/ UNCHANGED peer
       \/ peer = "up" /\ peer' = "tls"
    /\ wire' = wire \cup {Handshake}
    /\ pongs' = pongs \cup {Handshake}
    /\ infoReceived' = TRUE
    /\ UNCHANGED <<closed, connected, wasConnected, stream, closeEvent, retry,
                   outbound, immediate, pout, pingTimer>>
    /\ UNCHANGED <<replies, abandoned, processed, history>>

\* A 'serversChanged' listener calls close() while the first INFO is handled.
\* There is no stream to write to any more, but the callback of the handshake
\* is put in pongs.
ReceiveInfoClosing ==
    /\ stream = "open" /\ ~infoReceived /\ ~closed
    /\ Closing
    /\ CancelHeartbeat
    /\ pout' = 0 /\ pongs' = {Handshake}
    /\ infoReceived' = TRUE
    /\ UNCHANGED log

\* The callback of transport.upgrade(): the connection is secure.
Secured ==
    /\ peer = "tls"
    /\ peer' = "up"
    /\ Flushed(outbound)
    /\ UNCHANGED <<closed, connected, wasConnected, infoReceived, stream,
                   closeEvent, retry, pongs, immediate, pout, pingTimer>>
    /\ UNCHANGED <<replies, abandoned, processed, history>>

\* Faulty: what is in outbound is not flushed; or not even requeued.
HandshakeDoneUnflushed ==
    pingTimer' = TRUE /\ UNCHANGED <<immediate, outbound, wire>>
HandshakeDoneStripped ==
    pingTimer' = TRUE /\ outbound' = {} /\ UNCHANGED <<immediate, wire>>

\* The handshake's callback: outbound is requeued command by command, the
\* heartbeat armed and the buffer flushed.
HandshakeDone ==
    /\ immediate' = (immediate \/ outbound # {})
    /\ pingTimer' = TRUE
    /\ Flushed(outbound)

\* A PONG is read: its PING is p, the oldest entry of pongs is shifted off and
\* called.
ReceivePong ==
    /\ stream = "open" /\ infoReceived /\ ~closed
    /\ \E p \in replies :
        /\ IsFirst(p, replies)
        /\ replies' = replies \ {p}
    /\ pout' = 0
    /\ \/ /\ pongs = {}
          /\ UNCHANGED <<wasConnected, pongs, immediate, outbound, wire,
                         pingTimer, fired>>
       \/ \E q \in pongs :
            /\ IsFirst(q, pongs)
            /\ pongs' = pongs \ {q}
            /\ \/ /\ q = Handshake
                  /\ HandshakeDone
                  /\ wasConnected' = TRUE
                  /\ UNCHANGED fired
               \/ /\ q # Handshake
                  /\ fired' = IF log[q] = "flush" THEN fired \cup {q} ELSE fired
                  /\ UNCHANGED <<wasConnected, immediate, outbound, wire, pingTimer>>
    /\ UNCHANGED <<closed, connected, infoReceived, stream, closeEvent, retry>>
    /\ UNCHANGED <<peer, abandoned, processed, log, base, faults>>

-----------------------------------------------------------------------------
(* The server                                                               *)

Processed(n) == processed' = IF n # Handshake /\ log[n] = "pub"
                             THEN processed \cup {n} ELSE processed

\* The server reads the next command and answers a PING.
ServerStep ==
    /\ peer = "up"
    /\ \E n \in wire :
        /\ IsFirst(n, wire)
        /\ wire' = wire \ {n}
        /\ replies' = replies \cup Pings({n})
        /\ Processed(n)
    /\ UNCHANGED <<client, peer, abandoned, history>>

\* The server reads what the client left on a socket it destroyed.
ServerLate ==
    /\ \E n \in abandoned :
        /\ abandoned' = abandoned \ {n}
        /\ Processed(n)
    /\ UNCHANGED <<client, peer, wire, replies, history>>

\* The server reports an error, or its end of the connection is gone.
ServerFails ==
    /\ stream = "open"
    /\ Fault
    /\ \/ peer = "up" /\ peer' \in {"err", "gone"}
       \/ peer = "tls" /\ peer' = "gone"
    /\ UNCHANGED <<client, wire, replies, abandoned, processed, log, base, fired>>

-----------------------------------------------------------------------------
Server == ServerStep \/ ServerLate \/ ServerFails
Application == Publish \/ Flush \/ Close
Heartbeats ==
    Heartbeat \/ HeartbeatClosing \/ HeartbeatWhenClosed \/ StaleConnection
Timers == FlushPending \/ Heartbeats \/ HandshakeTimeout \/ RetryTimer
Inbound ==
    \/ ReceiveInfo \/ ReceiveInfoClosing \/ InfoMismatch
    \/ ReceivePong \/ ReceivePing \/ ReceiveErr
Socket == DialOk \/ Secured \/ DialFailed \/ SocketLost \/ CloseEvent

Next == Application \/ Timers \/ Inbound \/ Socket \/ Server

Spec == Init /\ [][Next]_vars

\* What the event loop, the network and a working server get round to:
\* immediates and timers that are due run, socket events are delivered, a
\* dial succeeds or fails, a server that is up reads and answers.  Faults
\* stop, because MaxFaults bounds them.
Fairness ==
    /\ WF_vars(FlushPending)
    /\ WF_vars(RetryTimer)
    /\ WF_vars(CloseEvent)
    /\ WF_vars(SocketLost)
    /\ WF_vars(DialOk)
    /\ WF_vars(Secured)
    /\ WF_vars(ReceiveInfo)
    /\ WF_vars(ReceivePong)
    /\ WF_vars(ServerStep)

FairSpec == Spec /\ Fairness

-----------------------------------------------------------------------------
(* Safety                                                                   *)

\* On a live connection every entry of pongs waits for exactly one PONG: as
\* many PINGs are unmatched as there are callbacks.  One PING too few or too
\* many, and every later flush is called back for somebody else's PING.
\* (flush, the heartbeat, prepareConnection and closeStream each touch the
\* two queues separately.)
PingAccounting ==
    stream # "none" => Cardinality(Outstanding) = Cardinality(pongs)

\* On an established connection nothing stays in outbound without a flush
\* on its way: sendCommand() schedules one only for the first command of a
\* buffer, and commands can be buffered long before the connection is.
NoStuckCommands == Established /\ outbound # {} => immediate

\* The heartbeat never runs before the handshake is over: scheduleHeartbeat()
\* would arm a second timer over the one that is still ticking.
OneHeartbeat == stream # "none" /\ ~Established => ~pingTimer

\* A PUB is in one place: it is never sent again after it has been written,
\* so the server processes it at most once.
AtMostOnce ==
    /\ processed \cap (Pubs(outbound) \cup Pubs(wire) \cup abandoned) = {}
    /\ abandoned \cap (Pubs(outbound) \cup Pubs(wire)) = {}
    /\ outbound \cap wire = {}

\* Commands reach the socket in the order they were issued, those kept over
\* a reconnect included.
NoOvertaking == \A w \in wire, o \in outbound : w < o

\* Over any number of reconnects a PUB is written once, and nothing overtakes
\* what was issued before it (sendCommand, flushPending, prepareConnection,
\* stripPendingSubs).
OnceInOrder == AtMostOnce /\ NoOvertaking

-----------------------------------------------------------------------------
(* The inductive invariant                                                  *)

\* A client that is not closed has exactly one way forward: a socket, the
\* 'close' event of the last one, or the retry timer.  None would strand it;
\* two would dial twice.  (close handler, scheduleReconnect, closeStream.)
OneRecoveryPath ==
    ~closed =>
        /\ stream # "none" \/ closeEvent \/ retry
        /\ stream # "none" => ~closeEvent /\ ~retry
        /\ ~(closeEvent /\ retry)

\* What the state of the socket says of the flags and of the bytes on it.
SocketInv ==
    /\ connected <=> stream = "open"
    /\ stream # "open" => wire = {} /\ replies = {}
    /\ stream # "none" /\ ~infoReceived => wire = {} /\ replies = {}
    /\ stream = "dialing" => ~infoReceived
    /\ Handshake \in pongs /\ ~closed => stream = "open" /\ infoReceived
    /\ peer = "tls" => stream = "open" /\ infoReceived

\* From the PONGs on their way back to outbound, commands are in order.
QueueOrder ==
    /\ \A r \in replies, m \in wire \cup outbound : r < m
    /\ NoOvertaking

\* The PINGs and callbacks of this connection are the same commands: only
\* what was carried over a reconnect is matched by position.
OwnPings ==
    stream # "none" =>
        \A n \in base+1..Len(log) : n \in Outstanding <=> n \in pongs

\* No PUB of this connection is lost while the connection lasts.
OwnPubs ==
    stream # "none" =>
        \A n \in base+1..Len(log) :
            log[n] = "pub" => n \in processed \cup wire \cup outbound

\* Callbacks still waiting are younger than those called.
FiredFirst == \A f \in fired, q \in pongs \ {Handshake} : f < q

IInv ==
    /\ TypeOK
    /\ OneRecoveryPath
    /\ SocketInv
    /\ QueueOrder
    /\ PingAccounting
    /\ OwnPings
    /\ OwnPubs
    /\ AtMostOnce
    /\ FiredFirst

-----------------------------------------------------------------------------
(* What a step may do                                                       *)

\* The pipeline implements Delivery: the server processes a PUB at most once,
\* flushes are called back once and in order, and a flush on the connection
\* it was issued on is a barrier: when its callback is called, the server has
\* processed every PUB issued before it on that connection.
Contract == INSTANCE Delivery WITH
    issued <- log, epoch <- base, delivered <- processed, called <- fired
ImplementsDelivery == Contract!Spec

\* A PUB is taken out of outbound only to be written, or because there is no
\* connection to write it to.
NothingDroppedWhileOpen ==
    [][stream = "open" /\ stream' = "open"
          => Pubs(outbound) \subseteq outbound' \cup wire']_vars

\* What close() leaves behind when it is called inside the handlers of the
\* heartbeat and of INFO is for the 'close' event of the destroyed socket to
\* clear, and no callback of a flush is among it.
ClosedIsEmpty ==
    closed => /\ outbound = {} /\ wire = {}
              /\ pongs # {} \/ pingTimer => closeEvent
              /\ \A q \in pongs : ~(q # Handshake /\ log[q] = "flush")
              /\ stream # "none" => ~closeEvent /\ ~infoReceived

\* A closed client never opens a socket: the one it may have was being dialed
\* when a 'reconnecting' listener closed the client.
ClosedStays == closed => closed' /\ (stream = "none" => stream' = "none")

\* Wherever close() is called, in a listener in the middle of a handler too
\* ('reconnecting', 'pingcount', 'serversChanged'), and whatever timer or event
\* of the client's earlier life still fires: nothing is written any more, no
\* flush is called back, no heartbeat or callback outlives the last 'close'
\* event, and no socket is opened.
ClosedIsFinal == [][ClosedIsEmpty' /\ ClosedStays]_vars

-----------------------------------------------------------------------------
(* Liveness, under FairSpec                                                 *)

\* Once the failures stop the client is connected again, or closed.
Recovers == <>[](closed \/ Established)

\* No callback waits for ever: it is called, or its entry is given up.
PongsSettle == \A n \in Numbers : n \in pongs ~> n \notin pongs

\* No command stays in outbound for ever.
OutboundDrains == \A n \in Numbers : n \in outbound ~> n \notin outbound
=============================================================================
