----------------------------- MODULE Lifecycle -----------------------------
(***************************************************************************)
(* Finding, keeping and giving up a connection: the loop of                 *)
(* ProtocolHandler.connect(), the server pool of Servers, the socket and    *)
(* dial timer of TCPTransport, the handlers the socket calls, the handshake *)
(* timer and scheduleReconnect().                                           *)
(*                                                                          *)
(* A server is named by its url.  Time is abstracted: a server is rested    *)
(* when lastConnect is 0 or its reconnect delay has passed, and an armed    *)
(* timer may fire at any moment.  The state of the socket includes how far  *)
(* the handshake on it has come:                                            *)
(*    none, dialing, tcp (connected), info (INFO read), ready (PONG read)   *)
(***************************************************************************)
EXTENDS Integers, Sequences, FiniteSets, Queues

CONSTANTS
    Configured,     \* options.servers
    Discovered,     \* servers that only gossip names
    Settings,       \* the options, and the servers and gossip that they meet
    MaxCount,       \* bound: the reconnects counter of a server saturates here
    MaxTimers,      \* bound: leftover timers of one kind
    MaxFaults       \* bound: failures of servers that are up

Names == Configured \cup Discovered

OptionRecords == [waitOnFirstConnect : BOOLEAN, reconnect : BOOLEAN,
                  maxReconnectAttempts : Nat \cup {-1}, timeout : BOOLEAN]

\* stable: servers that never fail; gossip: the connect_urls an INFO may carry.
EnvironmentRecords == [stable : SUBSET Configured, gossip : SUBSET SUBSET Names]

ASSUME LifecycleAssumption ==
    /\ IsFiniteSet(Configured) /\ IsFiniteSet(Discovered)
    /\ Configured # {} /\ Configured \cap Discovered = {}
    /\ Settings \subseteq [options : OptionRecords, environment : EnvironmentRecords]
    /\ MaxCount \in Nat /\ MaxTimers \in Nat /\ MaxFaults \in Nat

VARIABLES
    options,        \* this.options; timeout: a timeout is set
    environment,    \* what goes with them
    servers,        \* Servers.servers, the pool in rotation order
    firstSelect,    \* Servers.firstSelect
    server,         \* the fields of each Server
    current         \* this.currentServer

setup == <<options, environment>>
pool == <<servers, firstSelect, server, current>>

VARIABLES
    loop,           \* ProtocolHandler.connect(): the await it is at, or its result
    index,          \* i of its for loop
    closed,         \* this.closed
    wasConnected,   \* this.wasConnected
    reconnecting,   \* this.reconnecting
    stream,         \* transport.stream, and how far the handshake has come
    closeEvent,     \* the 'close' event of a destroyed socket is due
    retry           \* the setTimeout of scheduleReconnect() is armed

VARIABLES
    dialTimer,      \* the timer of the last TCPTransport.connect() is armed
    staleDials,     \* armed timers of earlier ones, which nothing can clear
    connectionTimer,\* this.connectionTimer is armed
    orphans         \* armed handshake timers it no longer refers to

timers == <<dialTimer, staleDials, connectionTimer, orphans>>

VARIABLES
    up,             \* servers that complete a handshake
    faults,         \* failures of servers that are up, so far
    target,         \* the server the stream was opened to
    connects,       \* 'connect' events emitted
    closes          \* 'close' events emitted

vars == <<setup, pool, loop, index, closed, wasConnected, reconnecting,
          stream, closeEvent, retry, timers, up, faults, target,
          connects, closes>>

-----------------------------------------------------------------------------
Fresh(implicit) == [didConnect |-> FALSE, reconnects |-> 0, rested |-> TRUE,
                    implicit |-> implicit]

Resolved == loop = "resolved"
Open == stream \in {"tcp", "info", "ready"}
Saturated(n, max) == IF n > max THEN max ELSE n
Capped(n) == Saturated(n, 2)

TypeOK ==
    /\ [options |-> options, environment |-> environment] \in Settings
    /\ servers \in Seq(Names) /\ IsInjective(servers)
    /\ firstSelect \in BOOLEAN
    /\ server \in [Names -> [didConnect : BOOLEAN, reconnects : 0..MaxCount,
                             rested : BOOLEAN, implicit : BOOLEAN]]
    /\ current \in Names
    /\ loop \in {"start", "dial", "delay", "resolved", "rejected"}
    /\ index \in 0..Cardinality(Names)
    /\ closed \in BOOLEAN /\ wasConnected \in BOOLEAN /\ reconnecting \in BOOLEAN
    /\ stream \in {"none", "dialing", "tcp", "info", "ready"}
    /\ closeEvent \in BOOLEAN /\ retry \in BOOLEAN
    /\ dialTimer \in BOOLEAN /\ staleDials \in 0..MaxTimers
    /\ connectionTimer \in BOOLEAN /\ orphans \in 0..MaxTimers
    /\ up \subseteq Names /\ faults \in 0..MaxFaults
    /\ target \in Names
    /\ connects \in 0..2 /\ closes \in 0..2

\* Servers(): the order is that of the options, or shuffled.
Init ==
    /\ \E s \in Settings : options = s.options /\ environment = s.environment
    /\ servers \in SetToSeqs(Configured)
    /\ firstSelect = TRUE
    /\ server = [s \in Names |-> Fresh(FALSE)]
    /\ current = servers[1]
    /\ loop = "start" /\ index = 0
    /\ closed = FALSE /\ wasConnected = FALSE /\ reconnecting = FALSE
    /\ stream = "none" /\ closeEvent = FALSE /\ retry = FALSE
    /\ dialTimer = FALSE /\ staleDials = 0
    /\ connectionTimer = FALSE /\ orphans = 0
    /\ up \in {U \in SUBSET Names : environment.stable \subseteq U}
    /\ faults = 0 /\ target = current
    /\ connects = 0 /\ closes = 0

\* A failure of the stream's server: it costs a fault if the server is up.
Fails ==
    \/ target \notin up /\ UNCHANGED faults
    \/ target \in up /\ faults < MaxFaults /\ faults' = faults + 1

-----------------------------------------------------------------------------
(* The pool                                                                 *)

\* Servers.removeServer(): indexOf() of a server that is not in the pool is
\* -1, and splice(-1, 1) removes the last one.
RemoveServer(p, s) ==
    LET at == {i \in DOMAIN p : p[i] = s} IN
    IF p = <<>> THEN p ELSE RemoveAt(p, IF at = {} THEN Len(p) ELSE Min(at))

\* Faulty: current is not spared.
ServerUpdateAll(urls) ==
    \E added \in SetToSeqs(urls \ ToSet(servers)) :
        /\ servers' = Among(servers, {s \in Names : ~server[s].implicit \/ s \in urls})
                        \o added
        /\ server' = [s \in Names |-> IF s \in ToSet(added) THEN Fresh(TRUE)
                                                            ELSE server[s]]

\* Faulty: servers of the pool are added again.
ServerUpdateTwice(urls) ==
    \E added \in SetToSeqs(urls \ {current}) :
        /\ servers' = servers \o added
        /\ UNCHANGED server

\* Servers.processServerUpdate(): implicit servers no longer reported are
\* removed, unknown ones added as new Server objects.
ProcessServerUpdate(urls) ==
    LET stays == {s \in Names : ~server[s].implicit \/ s = current \/ s \in urls} IN
    \E added \in SetToSeqs(urls \ ToSet(servers)) :
        /\ servers' = Among(servers, stays) \o added
        /\ server' = [s \in Names |-> IF s \in ToSet(added) THEN Fresh(TRUE)
                                                            ELSE server[s]]

\* Faulty: the pool is not rotated.
NotRotated(p, j) == p

\* selectServer() j times.
Rotated(p, j) == SubSeq(p, j + 1, Len(p)) \o SubSeq(p, 1, j)

-----------------------------------------------------------------------------
(* Dialing                                                                  *)

\* Faulty: the timer is armed for the first attempt only.
DialOnceTimed(s, armed) ==
    /\ current' = s /\ target' = s
    /\ stream' = "dialing"
    /\ staleDials' = Saturated(staleDials + IF armed THEN 1 ELSE 0, MaxTimers)
    /\ dialTimer' = (options.timeout /\ firstSelect)

\* this.connect() to s, which selectServer() has made current.  The timer of
\* the attempt before, if armed, goes on.
Dial(s, armed) ==
    /\ current' = s /\ target' = s
    /\ stream' = "dialing"
    /\ staleDials' = Saturated(staleDials + IF armed THEN 1 ELSE 0, MaxTimers)
    /\ dialTimer' = options.timeout

\* The for loop of ProtocolHandler.connect() from this pool and index, up to
\* its next await or to the end of the promise.
ConnectLoop(p, i, armed) ==
    LET rested == {j \in 1..Len(p) - i : server[p[j]].rested}
        j == Min(rested)
        last == Len(p) - i
    IN
    \/ /\ firstSelect
       /\ Dial(current, armed)
       /\ server' = [server EXCEPT ![current].rested = FALSE]
       /\ servers' = p /\ firstSelect' = FALSE
       /\ loop' = "dial" /\ index' = i + 1
    \/ /\ ~firstSelect /\ rested # {}
       /\ Dial(p[j], armed)
       /\ server' = [server EXCEPT ![p[j]].rested = FALSE]
       /\ servers' = Rotated(p, j)
       /\ loop' = "dial" /\ index' = i + j
       /\ UNCHANGED firstSelect
    \/ /\ ~firstSelect /\ rested = {}
       /\ servers' = IF last > 0 THEN Rotated(p, last) ELSE p
       /\ current' = IF last > 0 THEN p[last] ELSE current
       /\ loop' = IF p = <<>> THEN "rejected" ELSE "delay"
       /\ index' = 0 /\ stream' = "none" /\ dialTimer' = armed
       /\ UNCHANGED <<firstSelect, server, staleDials, target>>

\* The top of its while loop.
ConnectStart ==
    /\ loop \in {"start", "delay"}
    /\ ConnectLoop(servers, 0, dialTimer)
    /\ UNCHANGED <<setup, closed, wasConnected, reconnecting, closeEvent, retry,
                   connectionTimer, orphans, up, faults, connects, closes>>

\* this.connect() is rejected: the pool it leaves, and the loop goes on.
Rejected(armed) ==
    ConnectLoop(IF options.waitOnFirstConnect THEN servers
                                              ELSE RemoveServer(servers, current),
                index, armed)

\* 'error' of the first dial, before any socket has connected.
DialRejected ==
    /\ loop = "dial" /\ stream = "dialing"
    /\ Fails
    /\ Rejected(dialTimer)
    /\ UNCHANGED <<setup, closed, wasConnected, reconnecting, closeEvent, retry,
                   connectionTimer, orphans, up, connects, closes>>

-----------------------------------------------------------------------------
(* Losing a connection and dialing again                                    *)

Exhausted(s) ==
    /\ options.maxReconnectAttempts # -1
    /\ server[s].reconnects >= options.maxReconnectAttempts

\* The for loop of scheduleReconnect() over pool p visits the servers in
\* order, removes the exhausted ones and counts up all the same, so it ends
\* early by one visit for each server it removes.
Visited(p, j) == j <= Len(p) - Cardinality({k \in 1..j-1 : Exhausted(p[k])})
Eligible(p, j) == Visited(p, j) /\ ~Exhausted(p[j]) /\ server[p[j]].rested
Kept == {s \in Names : ~Exhausted(s)}
PoolAfterUnrotated(p, j) == Among(p, Kept)    \* faulty
PoolAfter(p, j) ==
    SubSeq(p, j + 1, Len(p)) \o Among(SubSeq(p, 1, j), Kept)

GiveUp ==
    /\ closed' = TRUE /\ closes' = Capped(closes + 1)
    /\ stream' = "none" /\ retry' = FALSE

\* Faulty: reconnecting is only set when the retry timer is armed.
ReconnectingLate == reconnecting \/ (wasConnected /\ stream = "none")

\* Set before the servers are visited; reset by connectCB().
SetReconnecting == reconnecting \/ wasConnected

\* The reconnects of a server that is dialed.
CountedIfConnected(s) == Saturated(server[s].reconnects                \* faulty
                                   + IF server[s].didConnect THEN 1 ELSE 0, MaxCount)
Counted(s) == Saturated(server[s].reconnects
                        + IF SetReconnecting THEN 1 ELSE 0, MaxCount)

\* scheduleReconnect() of a client that is not closed, with the pool and the
\* didConnect flags that the handlers before it have left.  A listener of
\* 'reconnecting' may close the client, which dials all the same.
ScheduleReconnect(p, connected) ==
    LET visits == {j \in 1..Len(p) : Visited(p, j)}
        eligible == {j \in visits : Eligible(p, j)}
        first == Min(eligible)
        kept == [s \in Names |-> [server[s] EXCEPT !.didConnect = s \in connected]]
    IN
    \/ /\ p = <<>> \/ ~options.reconnect
       /\ GiveUp
       /\ servers' = p /\ server' = kept
       /\ UNCHANGED <<current, reconnecting, target, dialTimer, staleDials>>
    \/ /\ p # <<>> /\ options.reconnect /\ eligible # {}
       /\ Dial(p[first], dialTimer)
       /\ servers' = PoolAfter(p, first)
       /\ server' = [kept EXCEPT ![p[first]].rested = FALSE,
                                 ![p[first]].reconnects = Counted(p[first])]
       /\ reconnecting' = SetReconnecting
       /\ closed' \in {FALSE, SetReconnecting}
       /\ retry' = FALSE
       /\ UNCHANGED closes
    \/ /\ p # <<>> /\ options.reconnect /\ eligible = {}
       /\ current' = p[Max(visits)]
       /\ servers' = PoolAfter(p, Max(visits))
       /\ server' = kept
       /\ reconnecting' = SetReconnecting
       /\ \/ servers' = <<>> /\ GiveUp
          \/ /\ servers' # <<>> /\ retry' = TRUE /\ stream' = "none"
             /\ UNCHANGED <<closed, closes>>
       /\ UNCHANGED <<target, dialTimer, staleDials>>

DidConnect == {s \in Names : server[s].didConnect}

\* handlers.close(), for a pool p; 'disconnect' is left out.
HandlersClose(p, connected) ==
    /\ \/ /\ closed
          /\ closes' = Capped(closes + 1)
          /\ stream' = "none"
          /\ UNCHANGED <<pool, closed, retry, reconnecting, target, dialTimer,
                         staleDials>>
       \/ /\ ~closed
          /\ ScheduleReconnect(p, connected)
          /\ UNCHANGED firstSelect
    /\ UNCHANGED <<setup, loop, index, wasConnected, connectionTimer, orphans,
                   up, connects>>

\* handlers.error(): ignored for a server that was connected before; else it
\* closes the stream, and before the first handshake it also removes the
\* server, or with waitOnFirstConnect marks it as connected.
ErrorIgnored == wasConnected /\ server[current].didConnect
ErrorCounts == ~wasConnected /\ ~server[current].didConnect
PoolAfterErrorAlways == RemoveServer(servers, current)        \* faulty
PoolAfterError ==
    IF ErrorCounts /\ ~options.waitOnFirstConnect
    THEN RemoveServer(servers, current) ELSE servers
DidConnectAfterError ==
    DidConnect \cup IF ErrorCounts /\ options.waitOnFirstConnect
                    THEN {current} ELSE {}

\* 'error' and 'close' of a socket: a dial that fails, a connection reset.
SocketError ==
    /\ Resolved /\ stream # "none"
    /\ Fails
    /\ HandlersClose(PoolAfterError, DidConnectAfterError)
    /\ UNCHANGED closeEvent

\* 'close' without 'error': the peer ends the connection.
SocketEnd ==
    /\ Open
    /\ Fails
    /\ HandlersClose(servers, DidConnect)
    /\ UNCHANGED closeEvent

\* 'close' of a socket the client has destroyed.
CloseEvent ==
    /\ closeEvent
    /\ closeEvent' = FALSE
    /\ HandlersClose(servers, DidConnect)
    /\ UNCHANGED faults

\* The timer of scheduleReconnect().
RetryTimer ==
    /\ retry
    /\ \/ /\ closed
          /\ retry' = FALSE
          /\ UNCHANGED <<pool, closed, closes, stream, reconnecting, target,
                         dialTimer, staleDials>>
       \/ /\ ~closed
          /\ ScheduleReconnect(servers, DidConnect)
          /\ UNCHANGED firstSelect
    /\ UNCHANGED <<setup, loop, index, wasConnected, closeEvent,
                   connectionTimer, orphans, up, faults, connects>>

\* lastConnect + wait has passed.
Rest(s) ==
    /\ s \in ToSet(servers) /\ ~server[s].rested
    /\ server' = [server EXCEPT ![s].rested = TRUE]
    /\ UNCHANGED <<setup, servers, firstSelect, current, loop, index, closed,
                   wasConnected, reconnecting, stream, closeEvent, retry, timers,
                   up, faults, target, connects, closes>>

-----------------------------------------------------------------------------
(* The handshake                                                            *)

\* The connection callback, and startHandshakeTimeout() in the microtask that
\* follows: a handshake timer still armed is not cleared but overwritten.
DialOk ==
    /\ stream = "dialing"
    /\ stream' = "tcp"
    /\ loop' = "resolved" /\ index' = 0
    /\ dialTimer' = FALSE
    /\ connectionTimer' = options.timeout
    /\ orphans' = Saturated(orphans + IF connectionTimer THEN 1 ELSE 0, MaxTimers)
    /\ UNCHANGED <<setup, pool, closed, wasConnected, reconnecting,
                   closeEvent, retry, staleDials, up, faults, target,
                   connects, closes>>

\* The first INFO, or a later one: the pool is updated either way.  What a
\* closed client is sent it does not read.
ReceiveInfo ==
    /\ Open /\ ~closed
    /\ stream' = IF stream = "tcp" THEN "info" ELSE stream
    /\ \/ UNCHANGED <<servers, server>>
       \/ \E urls \in environment.gossip : urls # {} /\ ProcessServerUpdate(urls)
    /\ UNCHANGED <<setup, firstSelect, current, loop, index, closed,
                   wasConnected, reconnecting, closeEvent, retry, timers, up,
                   faults, target, connects, closes>>

\* connectCB() in the callback of the handshake's PONG.
HandshakePong ==
    /\ stream = "info" /\ target \in up /\ ~closed
    /\ stream' = "ready"
    /\ connectionTimer' = FALSE
    /\ reconnecting' = FALSE /\ wasConnected' = TRUE
    /\ server' = [server EXCEPT ![current].didConnect = TRUE,
                                ![current].reconnects = 0]
    /\ connects' = IF reconnecting THEN connects ELSE Capped(connects + 1)
    /\ UNCHANGED <<setup, servers, firstSelect, current, loop, index, closed,
                   closeEvent, retry, dialTimer, staleDials, orphans, up,
                   faults, target, closes>>

-----------------------------------------------------------------------------
(* Closing the stream from within                                           *)

\* Faulty: the listeners are removed first.
CloseStreamSilently == stream' = "none" /\ UNCHANGED closeEvent

\* closeStream(): the 'close' event of the destroyed socket is to come.
CloseStream ==
    /\ stream' = "none"
    /\ closeEvent' = (closeEvent \/ stream # "none")

\* processErr() on a -ERR, a failed check of an INFO, or a stale connection.
ProcessErr ==
    /\ Open /\ ~closed
    /\ Fails
    /\ CloseStream
    /\ UNCHANGED <<setup, pool, loop, index, closed, wasConnected, reconnecting,
                   retry, timers, up, target, connects, closes>>

\* A handshake timer fires, the tracked one or an orphan: processErr() closes
\* whatever stream there is.
HandshakeTimer ==
    /\ \/ /\ connectionTimer /\ connectionTimer' = FALSE
          /\ UNCHANGED orphans
       \/ /\ orphans > 0 /\ orphans' = orphans - 1
          /\ UNCHANGED connectionTimer
    /\ IF stream = "none" THEN UNCHANGED faults ELSE Fails
    /\ CloseStream
    /\ UNCHANGED <<setup, pool, loop, index, closed, wasConnected, reconnecting,
                   retry, dialTimer, staleDials, up, target, connects, closes>>

\* A dial timer that fires after a socket has connected once: handlers.error().
DialTimerError ==
    /\ Resolved
    /\ servers' = PoolAfterError
    /\ server' = [s \in Names |->
                    [server[s] EXCEPT !.didConnect = s \in DidConnectAfterError]]
    /\ IF ErrorIgnored THEN UNCHANGED <<stream, closeEvent>> ELSE CloseStream
    /\ UNCHANGED <<firstSelect, current, loop, index, target>>

\* The timer of the last dial.  Before any socket has connected it rejects
\* the promise; a promise that is already rejected stays so.
DialTimer ==
    /\ dialTimer
    /\ IF stream = "none" THEN UNCHANGED faults ELSE Fails
    /\ \/ /\ loop = "dial"
          /\ Rejected(FALSE)
          /\ UNCHANGED closeEvent
       \/ /\ loop \in {"delay", "rejected"}
          /\ dialTimer' = FALSE
          /\ UNCHANGED <<pool, loop, index, stream, closeEvent, staleDials, target>>
       \/ /\ DialTimerError
          /\ dialTimer' = FALSE
          /\ UNCHANGED staleDials
    /\ UNCHANGED <<setup, closed, wasConnected, reconnecting, retry,
                   connectionTimer, orphans, up, connects, closes>>

\* The timer of an earlier dial: it destroys the stream of the current one,
\* whose promise is not settled by that, or calls handlers.error().
StaleDialTimer ==
    /\ staleDials > 0 /\ staleDials' = staleDials - 1
    /\ IF stream = "none" THEN UNCHANGED faults ELSE Fails
    /\ \/ /\ ~Resolved
          /\ stream' = "none"
          /\ UNCHANGED <<pool, loop, index, closeEvent, target>>
       \/ DialTimerError
    /\ UNCHANGED <<setup, closed, wasConnected, reconnecting, retry, dialTimer,
                   connectionTimer, orphans, up, connects, closes>>

\* Client.close(), for the first time or once more.
Close ==
    /\ Resolved
    /\ closed' = TRUE
    /\ CloseStream
    /\ UNCHANGED <<setup, pool, loop, index, wasConnected, reconnecting, retry,
                   timers, up, faults, target, connects, closes>>

\* A server stops for good.
Crash ==
    /\ faults < MaxFaults /\ faults' = faults + 1
    /\ \E s \in up \ environment.stable : up' = up \ {s}
    /\ UNCHANGED <<setup, pool, loop, index, closed, wasConnected, reconnecting,
                   stream, closeEvent, retry, timers, target, connects, closes>>

-----------------------------------------------------------------------------
Connecting == ConnectStart \/ DialRejected \/ DialOk
Handshaking == ReceiveInfo \/ HandshakePong \/ ProcessErr
Socket == SocketError \/ SocketEnd \/ CloseEvent
Timers == RetryTimer \/ HandshakeTimer \/ DialTimer \/ StaleDialTimer
          \/ \E s \in Names : Rest(s)

Next == Connecting \/ Handshaking \/ Socket \/ Timers \/ Close \/ Crash

Spec == Init /\ [][Next]_vars

\* A dial to a server that is down, or a socket to it, ends with an error or
\* an end of stream.
EndsWhenDown == target \notin up /\ (DialRejected \/ SocketError \/ SocketEnd)

\* What the event loop, the network and a server that is up get round to.
\* Only the timers that the client counts on are fair: no property relies on
\* a leftover timer.
Fairness ==
    /\ WF_vars(ConnectStart)
    /\ WF_vars(RetryTimer)
    /\ WF_vars(DialTimer)
    /\ WF_vars(CloseEvent)
    /\ WF_vars(EndsWhenDown)
    /\ WF_vars(DialOk)
    /\ WF_vars(stream = "tcp" /\ ReceiveInfo)
    /\ WF_vars(HandshakePong)
    /\ \A s \in Names : WF_vars(Rest(s))

FairSpec == Spec /\ Fairness

-----------------------------------------------------------------------------
(* Safety                                                                   *)

\* Whatever timers are left over from earlier attempts, an open or dialing
\* socket belongs to the current server, and that server is in the pool: the
\* outcome of a handshake is credited to the server it was made with, and
\* gossip never removes the server the client is talking to.
\* (selectServer, connectCB, processServerUpdate, removeCurrentServer.)
StreamOfCurrent ==
    stream # "none" => target = current /\ current \in ToSet(servers)

\* The promise of Client.connect() is never left without anybody to settle
\* it: a leftover timer may destroy the socket being dialed, but then the
\* timer of that dial is armed.  (TCPTransport.connect.)
ConnectSettles == loop = "dial" => stream = "dialing" \/ dialTimer

\* A client that is not closed has one way forward: a socket, the 'close'
\* event of the last one, or the retry timer; with two it would dial twice.
\* (handlers.close, scheduleReconnect, closeStream.)
OneWayForward ==
    Resolved /\ ~closed =>
        /\ stream # "none" \/ closeEvent \/ retry
        /\ stream # "none" => ~closeEvent /\ ~retry
        /\ ~(closeEvent /\ retry)

\* 'connect' is emitted once in the life of a client, over any number of
\* connections and attempts: reconnecting is set whenever a handshake may
\* complete for a second time.  (connectCB, scheduleReconnect.)
ConnectOnce == connects <= 1

\* 'close' is emitted once, when the client is closed.  (closeAndEmit.)
CloseOnce == closes <= 1 /\ (closes = 1 => closed)

\* The events that tell an application of its first connection and of its end
\* come once each, whatever comes between.
EventsOnce == ConnectOnce /\ CloseOnce

\* Without a limit on the attempts, a client that was connected once never
\* closes on its own: no error, timer or gossip empties its pool.
\* (handlers.error, removeServer, processServerUpdate, scheduleReconnect.)
NeverGivesUp ==
    [][wasConnected /\ ~closed /\ options.reconnect
       /\ options.maxReconnectAttempts = -1 => closes' = closes]_vars

-----------------------------------------------------------------------------
(* Liveness, under FairSpec                                                 *)

\* Without a limit on the attempts, and while a server that never fails is in
\* the pool as one of the configured servers, the client ends up with an
\* established connection, unless it was closed: the rotation does not starve
\* it, and no attempt is left hanging.
\* (A server an error has removed may come back by gossip, and go by gossip.)
Recovers ==
    options.maxReconnectAttempts = -1 =>
        <>[](\/ closed \/ loop = "rejected" \/ stream = "ready"
             \/ \A s \in environment.stable : s \in ToSet(servers) => server[s].implicit)

\* The promise of Client.connect() settles, if it does not wait for a server
\* that never comes.
PromiseSettles ==
    ~options.waitOnFirstConnect \/ environment.stable # {} =>
        <>(loop \in {"resolved", "rejected"})

\* nats.ts: maxReconnectAttempts is the "maximum number of consecutive
\* reconnect attempts before the client closes the connection".  Once all
\* servers are down for good a client that was connected closes.
GivesUp ==
    options.maxReconnectAttempts # -1 => (wasConnected /\ up = {}) ~> closed

-----------------------------------------------------------------------------
(* What the documentation says, and the code does not do                    *)

\* nats.ts, timeout: the time "when making a connection to wait for the
\* connection to succeed".  A timer never ends a connection that has.
TimeoutSparesEstablished ==
    [][orphans' < orphans /\ stream = "ready" => stream' = "ready"]_vars
=============================================================================
