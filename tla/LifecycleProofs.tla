--------------------------- MODULE LifecycleProofs ---------------------------
(***************************************************************************)
(* Theorems about Lifecycle, for any servers, gossip and options.  First    *)
(* its control: one way forward, a promise that somebody settles, events    *)
(* that are emitted once; none of these needs to know what is in the pool.  *)
(* Then the pool: the server the client talks to is one of it, and without  *)
(* a limit of attempts the client never gives up.                           *)
(***************************************************************************)
EXTENDS Lifecycle, QueueLemmas, FiniteSetTheorems, TLAPS

-----------------------------------------------------------------------------
(* The invariant                                                            *)

FlagTypes ==
    /\ closed \in BOOLEAN /\ wasConnected \in BOOLEAN /\ reconnecting \in BOOLEAN
    /\ closeEvent \in BOOLEAN /\ retry \in BOOLEAN
    /\ dialTimer \in BOOLEAN /\ connectionTimer \in BOOLEAN /\ options.timeout \in BOOLEAN

ControlTypes ==
    /\ loop \in {"start", "dial", "delay", "resolved", "rejected"}
    /\ stream \in {"none", "dialing", "tcp", "info", "ready"}
    /\ staleDials \in Nat /\ orphans \in Nat
    /\ connects \in 0..2 /\ closes \in 0..2

\* Before the first socket is connected nothing but the loop of connect() and
\* the timers of its dials is at work.
LoopAlone ==
    ~Resolved => /\ ~closeEvent /\ ~retry /\ ~closed /\ ~wasConnected /\ ~Open
                 /\ ~connectionTimer /\ orphans = 0

\* A dial has a timer if the options ask for one, and only then.
DialsTimed ==
    /\ dialTimer \/ staleDials > 0 => options.timeout
    /\ loop = "dial" /\ options.timeout => dialTimer

\* A client that is closed has one socket to lose at most, the one it dials when
\* a listener of 'reconnecting' closes it; 'close' is not emitted before that.
ClosedQuietly ==
    /\ closed /\ stream # "none" => ~closeEvent
    /\ closed /\ closes = 1 => stream = "none" /\ ~closeEvent

\* A handshake can only be the first, or be marked as a reconnect.
Marked ==
    /\ wasConnected /\ stream \in {"dialing", "tcp", "info"} => reconnecting
    /\ ~wasConnected => connects = 0

LInv ==
    /\ FlagTypes /\ ControlTypes /\ LoopAlone /\ DialsTimed /\ ClosedQuietly /\ Marked
    /\ OneWayForward /\ ConnectSettles /\ ConnectOnce /\ CloseOnce

-----------------------------------------------------------------------------
(* What the procedures keep                                                 *)

LEMMA TimerCount ==
    ASSUME NEW n \in Nat, NEW b \in BOOLEAN
    PROVE  /\ Saturated(n + IF b THEN 1 ELSE 0, MaxTimers) \in Nat
           /\ Saturated(n + IF b THEN 1 ELSE 0, MaxTimers) > 0 => n > 0 \/ b
<1>1. MaxTimers \in Nat
  BY LifecycleAssumption
<1>2. CASE b
  BY <1>1, <1>2 DEF Saturated
<1>3. CASE ~b
  BY <1>1, <1>3 DEF Saturated
<1>4. QED BY <1>2, <1>3

LEMMA EventCount ==
    ASSUME NEW n \in 0..2
    PROVE  Capped(n + 1) \in 0..2 /\ (n = 0 => Capped(n + 1) = 1)
  BY DEF Capped, Saturated

\* A dial is timed if the options say so, and leaves older timers behind.
LEMMA DialTimed ==
    ASSUME LInv, NEW s, NEW armed \in BOOLEAN, armed => dialTimer, Dial(s, armed),
           UNCHANGED options
    PROVE  /\ stream' = "dialing" /\ dialTimer' = options.timeout
           /\ dialTimer' \in BOOLEAN /\ staleDials' \in Nat
           /\ dialTimer' \/ staleDials' > 0 => options'.timeout
<1>1. staleDials \in Nat
  BY DEF LInv, ControlTypes
<1>2. staleDials' \in Nat /\ (staleDials' > 0 => staleDials > 0 \/ armed)
  BY <1>1, TimerCount DEF Dial
<1>3. QED
  BY <1>2 DEF Dial, LInv, FlagTypes, DialsTimed

\* The loop of connect() dials with a timer, or waits, or rejects.
LEMMA LoopKeeps ==
    ASSUME LInv, ~Resolved, NEW p, NEW i, NEW armed \in BOOLEAN, armed => dialTimer,
           ConnectLoop(p, i, armed),
           UNCHANGED <<options, closed, wasConnected, reconnecting, closeEvent, retry,
                       connectionTimer, orphans, connects, closes>>
    PROVE  LInv'
<1>1. \/ (\E s : Dial(s, armed)) /\ loop' = "dial"
      \/ /\ loop' \in {"rejected", "delay"} /\ stream' = "none"
         /\ dialTimer' = armed /\ staleDials' = staleDials
  BY DEF ConnectLoop
<1>2. /\ loop' \in {"dial", "rejected", "delay"} /\ stream' \in {"none", "dialing"}
      /\ dialTimer' \in BOOLEAN /\ staleDials' \in Nat
      /\ dialTimer' \/ staleDials' > 0 => options'.timeout
      /\ loop' = "dial" => stream' = "dialing" /\ dialTimer' = options'.timeout
  BY <1>1, DialTimed DEF LInv, ControlTypes, DialsTimed
<1>3. ~closeEvent /\ ~retry /\ ~closed /\ ~wasConnected /\ ~connectionTimer /\ orphans = 0
  BY DEF LInv, LoopAlone
<1>4. FlagTypes' /\ ControlTypes'
  BY <1>2 DEF LInv, FlagTypes, ControlTypes
<1>5. LoopAlone' /\ DialsTimed' /\ ClosedQuietly' /\ ConnectSettles'
  BY <1>2, <1>3 DEF LoopAlone, Open, DialsTimed, ClosedQuietly, ConnectSettles
<1>6. Marked' /\ OneWayForward' /\ ConnectOnce' /\ CloseOnce'
  BY <1>2, <1>3 DEF LInv, Marked, OneWayForward, Resolved, ConnectOnce, CloseOnce
<1>7. QED BY <1>4, <1>5, <1>6 DEF LInv

\* scheduleReconnect(), called when its caller is the only way forward.
LEMMA ScheduleKeeps ==
    ASSUME LInv, Resolved, ~closed, NEW p, NEW connected, ScheduleReconnect(p, connected),
           closeEvent' = FALSE,
           UNCHANGED <<options, loop, wasConnected, connectionTimer, orphans, connects>>
    PROVE  LInv'
<1>1. closes = 0
  BY DEF LInv, CloseOnce, ControlTypes
<1>2. PICK r \in BOOLEAN : r <=> (reconnecting \/ wasConnected)
  OBVIOUS
<1>3. SetReconnecting = r
  BY <1>2 DEF LInv, FlagTypes, SetReconnecting
<1>4. \/ /\ closed' = TRUE /\ closes' = Capped(closes + 1) /\ stream' = "none" /\ retry' = FALSE
         /\ UNCHANGED <<dialTimer, staleDials>>
      \/ /\ (\E s : Dial(s, dialTimer)) /\ retry' = FALSE
         /\ reconnecting' = r /\ closed' \in BOOLEAN /\ UNCHANGED closes
      \/ /\ retry' = TRUE /\ stream' = "none" /\ UNCHANGED <<closed, closes>>
         /\ UNCHANGED <<dialTimer, staleDials>>
  BY <1>3 DEF ScheduleReconnect, GiveUp
<1>5. reconnecting' = reconnecting \/ reconnecting' = r
  BY <1>3 DEF ScheduleReconnect
<1>6. dialTimer \in BOOLEAN
  BY DEF LInv, FlagTypes
<1>7. /\ dialTimer' \in BOOLEAN /\ staleDials' \in Nat
      /\ dialTimer' \/ staleDials' > 0 => options'.timeout
      /\ stream' \in {"none", "dialing"}
  BY <1>4, <1>6, DialTimed DEF LInv, ControlTypes, DialsTimed
<1>8. \/ closed' = TRUE /\ closes' = 1 /\ stream' = "none" /\ retry' = FALSE
      \/ closed' \in BOOLEAN /\ closes' = 0 /\ stream' = "dialing" /\ retry' = FALSE /\ reconnecting' = r
      \/ closed' = FALSE /\ closes' = 0 /\ stream' = "none" /\ retry' = TRUE
  BY <1>1, <1>4, <1>6, DialTimed, EventCount DEF LInv, FlagTypes
<1>9. FlagTypes'
  BY <1>5, <1>7, <1>8 DEF LInv, FlagTypes
<1>10. ControlTypes'
  BY <1>7, <1>8 DEF LInv, ControlTypes
<1>11. LoopAlone' /\ DialsTimed' /\ ClosedQuietly' /\ ConnectSettles'
  BY <1>7, <1>8 DEF LoopAlone, Resolved, DialsTimed, ClosedQuietly, ConnectSettles
<1>12. Marked'
  BY <1>2, <1>8 DEF LInv, Marked
<1>13. OneWayForward' /\ ConnectOnce' /\ CloseOnce'
  BY <1>8 DEF LInv, OneWayForward, ConnectOnce, CloseOnce
<1>14. QED BY <1>9, <1>10, <1>11, <1>12, <1>13 DEF LInv

\* handlers.close(): of a closed client, for its last socket.
LEMMA HandlersCloseKeeps ==
    ASSUME LInv, Resolved, NEW p, NEW connected, HandlersClose(p, connected),
           closeEvent' = FALSE, closed => closeEvent \/ stream # "none"
    PROVE  LInv'
<1>1. UNCHANGED <<options, loop, wasConnected, connectionTimer, orphans, connects>>
  BY DEF HandlersClose, setup
<1>2. CASE ~closed
  BY <1>1, <1>2, ScheduleKeeps DEF HandlersClose
<1>3. CASE closed
  <2>1. closes = 0
    BY <1>3 DEF LInv, ControlTypes, ClosedQuietly, CloseOnce
  <2>2. closes' = 1 /\ stream' = "none"
        /\ UNCHANGED <<closed, retry, reconnecting, dialTimer, staleDials>>
    BY <1>3, <2>1, EventCount DEF HandlersClose
  <2>3. FlagTypes' /\ ControlTypes'
    <3>1. closeEvent' \in BOOLEAN
      OBVIOUS
    <3>2. FlagTypes'
      BY <1>1, <2>2, <3>1 DEF LInv, FlagTypes
    <3>3. closes' \in 0..2
      BY <2>2
    <3>4. ControlTypes'
      BY <1>1, <2>2, <3>3 DEF LInv, ControlTypes
    <3>5. QED BY <3>2, <3>4
  <2>4. LoopAlone' /\ DialsTimed' /\ ClosedQuietly' /\ Marked'
    BY <1>1, <1>3, <2>2 DEF LInv, LoopAlone, Resolved, DialsTimed, ClosedQuietly, Marked
  <2>5. OneWayForward' /\ ConnectSettles' /\ ConnectOnce' /\ CloseOnce'
    BY <1>1, <1>3, <2>2 DEF LInv, OneWayForward, ConnectSettles, Resolved, ConnectOnce, CloseOnce
  <2>6. QED BY <2>3, <2>4, <2>5 DEF LInv
<1>4. QED BY <1>2, <1>3

\* closeStream(), by a timer, an error or close(): its close event takes over.
LEMMA CloseStreamKeeps ==
    ASSUME LInv, Resolved, CloseStream, closed' = closed \/ closed' = TRUE,
           dialTimer' \in BOOLEAN, dialTimer' => dialTimer,
           staleDials' \in Nat, staleDials' <= staleDials,
           connectionTimer' \in BOOLEAN, orphans' \in Nat,
           UNCHANGED <<options, loop, wasConnected, reconnecting, retry, connects, closes>>
    PROVE  LInv'
<1>1. PICK e \in BOOLEAN : e <=> (closeEvent \/ stream # "none")
  OBVIOUS
<1>2. closeEvent' = e /\ stream' = "none"
  BY <1>1 DEF CloseStream, LInv, FlagTypes
<1>3. FlagTypes' /\ ControlTypes'
  BY <1>2 DEF LInv, FlagTypes, ControlTypes
<1>4. LoopAlone' /\ ConnectSettles' /\ Marked' /\ ConnectOnce'
  BY <1>2 DEF LInv, LoopAlone, Resolved, ConnectSettles, Marked, ConnectOnce
<1>5. DialsTimed'
  BY DEF LInv, ControlTypes, DialsTimed, Resolved
<1>6. ClosedQuietly' /\ CloseOnce'
  BY <1>1, <1>2 DEF LInv, ClosedQuietly, CloseOnce
<1>7. OneWayForward'
  BY <1>1, <1>2 DEF LInv, OneWayForward, Resolved
<1>8. QED BY <1>3, <1>4, <1>5, <1>6, <1>7 DEF LInv

\* A leftover dial timer: handlers.error() closes the stream or ignores it.
LEMMA DialTimerErrorKeeps ==
    ASSUME LInv, DialTimerError,
           dialTimer' \in BOOLEAN, dialTimer' => dialTimer,
           staleDials' \in Nat, staleDials' <= staleDials,
           UNCHANGED <<options, closed, wasConnected, reconnecting, retry, connectionTimer,
                       orphans, connects, closes>>
    PROVE  LInv'
<1>1. Resolved /\ UNCHANGED loop
  BY DEF DialTimerError
<1>2. CASE CloseStream
  BY <1>1, <1>2, CloseStreamKeeps DEF LInv, FlagTypes, ControlTypes
<1>3. CASE UNCHANGED <<stream, closeEvent>>
  <2>1. DialsTimed'
    BY <1>1 DEF LInv, ControlTypes, DialsTimed, Resolved
  <2>2. QED
    BY <1>1, <1>3, <2>1 DEF LInv, FlagTypes, ControlTypes, LoopAlone, Open, ClosedQuietly, Marked,
       OneWayForward, ConnectSettles, ConnectOnce, CloseOnce, Resolved
<1>4. QED BY <1>2, <1>3 DEF DialTimerError

-----------------------------------------------------------------------------
(* Every step keeps the invariant                                           *)

LEMMA LInit == Init => LInv
<1> SUFFICES ASSUME Init PROVE LInv
  OBVIOUS
<1>1. options.timeout \in BOOLEAN
  BY LifecycleAssumption DEF Init, OptionRecords
<1>2. FlagTypes /\ ControlTypes
  <2>1. closed \in BOOLEAN /\ wasConnected \in BOOLEAN /\ reconnecting \in BOOLEAN
    BY DEF Init
  <2>2. closeEvent \in BOOLEAN /\ retry \in BOOLEAN
    BY DEF Init
  <2>3. dialTimer \in BOOLEAN /\ connectionTimer \in BOOLEAN
    BY DEF Init
  <2>4. FlagTypes
    BY <1>1, <2>1, <2>2, <2>3 DEF FlagTypes
  <2>5. ControlTypes
    BY DEF Init, ControlTypes
  <2>6. QED BY <2>4, <2>5
<1>3. LoopAlone /\ DialsTimed /\ ClosedQuietly /\ Marked
  BY DEF Init, LoopAlone, Open, DialsTimed, ClosedQuietly, Marked
<1>4. OneWayForward /\ ConnectSettles /\ ConnectOnce /\ CloseOnce
  BY DEF Init, OneWayForward, Resolved, ConnectSettles, ConnectOnce, CloseOnce
<1>5. QED BY <1>2, <1>3, <1>4 DEF LInv

LEMMA ConnectingKeeps == LInv /\ Connecting => LInv'
<1> SUFFICES ASSUME LInv, Connecting PROVE LInv'
  OBVIOUS
<1>0. dialTimer \in BOOLEAN
  BY DEF LInv, FlagTypes
<1>1. CASE ConnectStart
  BY <1>0, <1>1, LoopKeeps DEF ConnectStart, Resolved, setup
<1>2. CASE DialRejected
  BY <1>0, <1>2, LoopKeeps DEF DialRejected, Rejected, Resolved, setup
<1>3. CASE DialOk
  <2>1. closed => Resolved
    BY DEF LInv, LoopAlone
  <2>2. /\ stream = "dialing" /\ stream' = "tcp" /\ loop' = "resolved"
        /\ dialTimer' = FALSE /\ connectionTimer' = options.timeout
        /\ UNCHANGED <<options, closed, wasConnected, reconnecting, closeEvent, retry,
                       staleDials, connects, closes>>
    BY <1>3 DEF DialOk, setup
  <2>3. orphans' \in Nat
    BY <1>3, TimerCount DEF DialOk, LInv, ControlTypes, FlagTypes
  <2>4. FlagTypes' /\ ControlTypes'
    BY <2>2, <2>3 DEF LInv, FlagTypes, ControlTypes
  <2>5. LoopAlone' /\ DialsTimed' /\ ClosedQuietly' /\ Marked'
    BY <2>2 DEF LInv, LoopAlone, Resolved, DialsTimed, ClosedQuietly, Marked
  <2>6. OneWayForward'
    BY <2>1, <2>2 DEF LInv, OneWayForward, LoopAlone
  <2>7. ConnectSettles' /\ ConnectOnce' /\ CloseOnce'
    BY <2>2 DEF LInv, ConnectSettles, ConnectOnce, CloseOnce
  <2>8. QED BY <2>4, <2>5, <2>6, <2>7 DEF LInv
<1>4. QED BY <1>1, <1>2, <1>3 DEF Connecting

LEMMA HandshakingKeeps == LInv /\ Handshaking => LInv'
<1> SUFFICES ASSUME LInv, Handshaking PROVE LInv'
  OBVIOUS
<1>1. Resolved /\ ~closed
  BY DEF Handshaking, ReceiveInfo, HandshakePong, ProcessErr, Open, LInv, LoopAlone
<1>2. CASE ReceiveInfo
  <2>1. /\ stream \in {"tcp", "info", "ready"}
        /\ stream' = IF stream = "tcp" THEN "info" ELSE stream
        /\ UNCHANGED <<options, loop, closed, wasConnected, reconnecting, closeEvent, retry,
                       dialTimer, staleDials, connectionTimer, orphans, connects, closes>>
    BY <1>2 DEF ReceiveInfo, Open, setup, timers
  <2>2. FlagTypes' /\ ControlTypes'
    BY <2>1 DEF LInv, FlagTypes, ControlTypes
  <2>3. QED
    BY <1>1, <2>1, <2>2 DEF LInv, LoopAlone, Resolved, DialsTimed, ClosedQuietly, Marked,
       OneWayForward, ConnectSettles, ConnectOnce, CloseOnce
<1>3. CASE HandshakePong
  <2>1. /\ stream = "info" /\ stream' = "ready" /\ connectionTimer' = FALSE
        /\ reconnecting' = FALSE /\ wasConnected' = TRUE
        /\ connects' = IF reconnecting THEN connects ELSE Capped(connects + 1)
        /\ UNCHANGED <<options, loop, closed, closeEvent, retry, dialTimer, staleDials,
                       orphans, closes>>
    BY <1>3 DEF HandshakePong, setup
  <2>2. connects' \in 0..1
    <3>1. CASE reconnecting
      BY <2>1, <3>1 DEF LInv, ConnectOnce, ControlTypes
    <3>2. CASE ~reconnecting
      <4>1. connects = 0
        BY <2>1, <3>2 DEF LInv, Marked
      <4>2. QED BY <2>1, <3>2, <4>1, EventCount
    <3>3. QED BY <3>1, <3>2
  <2>3. FlagTypes' /\ ControlTypes'
    <3>1. connectionTimer' \in BOOLEAN /\ reconnecting' \in BOOLEAN /\ wasConnected' \in BOOLEAN
      BY <2>1
    <3>2. FlagTypes'
      BY <2>1, <3>1 DEF LInv, FlagTypes
    <3>3. ControlTypes'
      BY <2>1, <2>2 DEF LInv, ControlTypes
    <3>4. QED BY <3>2, <3>3
  <2>4. QED
    BY <1>1, <2>1, <2>2, <2>3 DEF LInv, LoopAlone, Resolved, DialsTimed, ClosedQuietly, Marked,
       OneWayForward, ConnectSettles, ConnectOnce, CloseOnce
<1>4. CASE ProcessErr
  BY <1>1, <1>4, CloseStreamKeeps
     DEF ProcessErr, LInv, FlagTypes, ControlTypes, timers, setup
<1>5. QED BY <1>2, <1>3, <1>4 DEF Handshaking

LEMMA SocketKeeps == LInv /\ Socket => LInv'
<1> SUFFICES ASSUME LInv, Socket PROVE LInv'
  OBVIOUS
<1>1. CASE SocketError \/ SocketEnd
  <2>1. Resolved /\ stream # "none"
    BY <1>1 DEF SocketError, SocketEnd, Open, LInv, LoopAlone
  <2>2. closeEvent = FALSE
    BY <2>1 DEF LInv, ClosedQuietly, OneWayForward, FlagTypes
  <2>3. closeEvent' = FALSE
    BY <1>1, <2>2 DEF SocketError, SocketEnd
  <2>4. QED
    BY <1>1, <2>1, <2>2, <2>3, HandlersCloseKeeps DEF SocketError, SocketEnd
<1>2. CASE CloseEvent
  <2>1. Resolved
    BY <1>2 DEF CloseEvent, LInv, LoopAlone
  <2>2. QED
    BY <1>2, <2>1, HandlersCloseKeeps DEF CloseEvent
<1>3. QED BY <1>1, <1>2 DEF Socket

LEMMA TimersKeep == LInv /\ Timers => LInv'
<1> SUFFICES ASSUME LInv, Timers PROVE LInv'
  OBVIOUS
<1>1. CASE RetryTimer
  <2>1. Resolved
    BY <1>1 DEF RetryTimer, LInv, LoopAlone
  <2>2. UNCHANGED <<options, loop, wasConnected, closeEvent, connectionTimer, orphans, connects>>
    BY <1>1 DEF RetryTimer, setup
  <2>3. CASE ~closed
    <3>1. closeEvent = FALSE
      BY <1>1, <2>1, <2>3 DEF RetryTimer, LInv, OneWayForward, FlagTypes
    <3>2. QED
      BY <1>1, <2>1, <2>2, <2>3, <3>1, ScheduleKeeps DEF RetryTimer
  <2>4. CASE closed
    <3>1. retry' = FALSE /\ UNCHANGED <<closed, closes, stream, reconnecting, dialTimer, staleDials>>
      BY <1>1, <2>4 DEF RetryTimer
    <3>2. FlagTypes' /\ ControlTypes'
      <4>1. FlagTypes /\ ControlTypes
        BY DEF LInv
      <4>2. FlagTypes'
        BY <2>2, <3>1, <4>1 DEF FlagTypes
      <4>3. ControlTypes'
        BY <2>2, <3>1, <4>1 DEF ControlTypes
      <4>4. QED BY <4>2, <4>3
    <3>3. QED
      BY <2>1, <2>2, <2>4, <3>1, <3>2 DEF LInv, LoopAlone, Resolved, DialsTimed, ClosedQuietly,
         Marked, OneWayForward, ConnectSettles, ConnectOnce, CloseOnce
  <2>5. QED BY <2>3, <2>4
<1>2. CASE HandshakeTimer
  <2>1. Resolved
    BY <1>2 DEF HandshakeTimer, LInv, LoopAlone, ControlTypes
  <2>2. connectionTimer' \in BOOLEAN /\ orphans' \in Nat
    <3>1. CASE connectionTimer' = FALSE /\ UNCHANGED orphans
      BY <3>1 DEF LInv, ControlTypes
    <3>2. CASE orphans > 0 /\ orphans' = orphans - 1 /\ UNCHANGED connectionTimer
      BY <3>2 DEF LInv, FlagTypes, ControlTypes
    <3>3. QED BY <1>2, <3>1, <3>2 DEF HandshakeTimer
  <2>3. QED
    BY <1>2, <2>1, <2>2, CloseStreamKeeps DEF HandshakeTimer, LInv, FlagTypes, ControlTypes, setup
<1>3. CASE DialTimer
  <2>1. UNCHANGED <<options, closed, wasConnected, reconnecting, retry, connectionTimer, orphans,
                    connects, closes>>
    BY <1>3 DEF DialTimer, setup
  <2>2. CASE loop = "dial" /\ Rejected(FALSE) /\ UNCHANGED closeEvent
    BY <2>1, <2>2, LoopKeeps DEF Rejected, Resolved
  <2>3. CASE /\ loop \in {"delay", "rejected"} /\ dialTimer' = FALSE
             /\ UNCHANGED <<pool, loop, index, stream, closeEvent, staleDials, target>>
    <3>1. FlagTypes' /\ ControlTypes'
      BY <2>1, <2>3 DEF LInv, FlagTypes, ControlTypes
    <3>2. QED
      BY <2>1, <2>3, <3>1 DEF LInv, LoopAlone, Resolved, Open, DialsTimed, ClosedQuietly, Marked,
         OneWayForward, ConnectSettles, ConnectOnce, CloseOnce
  <2>4. CASE DialTimerError /\ dialTimer' = FALSE /\ UNCHANGED staleDials
    <3>1. staleDials' \in Nat /\ staleDials' <= staleDials
      BY <2>4 DEF LInv, ControlTypes
    <3>2. dialTimer' \in BOOLEAN /\ (dialTimer' => dialTimer)
      BY <2>4
    <3>3. QED BY <2>1, <2>4, <3>1, <3>2, DialTimerErrorKeeps
  <2>5. QED BY <1>3, <2>2, <2>3, <2>4 DEF DialTimer
<1>4. CASE StaleDialTimer
  <2>1. /\ staleDials > 0 /\ staleDials' = staleDials - 1
        /\ UNCHANGED <<options, closed, wasConnected, reconnecting, retry, dialTimer,
                       connectionTimer, orphans, connects, closes>>
    BY <1>4 DEF StaleDialTimer, setup
  <2>2. staleDials' \in Nat /\ staleDials' <= staleDials
    BY <2>1 DEF LInv, ControlTypes
  <2>3. CASE ~Resolved /\ stream' = "none" /\ UNCHANGED <<loop, closeEvent>>
    <3>1. FlagTypes' /\ ControlTypes'
      BY <2>1, <2>2, <2>3 DEF LInv, FlagTypes, ControlTypes
    <3>2. loop = "dial" => dialTimer
      BY <2>1 DEF LInv, DialsTimed
    <3>3. DialsTimed' /\ ConnectSettles'
      BY <2>1, <2>3, <3>2 DEF LInv, DialsTimed, ConnectSettles
    <3>4. QED
      BY <2>1, <2>3, <3>1, <3>3 DEF LInv, LoopAlone, Resolved, Open, ClosedQuietly, Marked,
         OneWayForward, ConnectOnce, CloseOnce
  <2>4. CASE DialTimerError
    BY <2>1, <2>2, <2>4, DialTimerErrorKeeps DEF LInv, FlagTypes
  <2>5. QED BY <1>4, <2>3, <2>4 DEF StaleDialTimer
<1>5. CASE \E s \in Names : Rest(s)
  <2>1. UNCHANGED <<options, loop, closed, wasConnected, reconnecting, stream, closeEvent, retry,
                    dialTimer, staleDials, connectionTimer, orphans, connects, closes>>
    BY <1>5 DEF Rest, setup, timers
  <2>2. QED
    BY <2>1 DEF LInv, FlagTypes, ControlTypes, LoopAlone, Resolved, Open, DialsTimed, ClosedQuietly,
       Marked, OneWayForward, ConnectSettles, ConnectOnce, CloseOnce
<1>6. QED BY <1>1, <1>2, <1>3, <1>4, <1>5 DEF Timers

LEMMA LNext == LInv /\ [Next]_vars => LInv'
<1> SUFFICES ASSUME LInv, [Next]_vars PROVE LInv'
  OBVIOUS
<1>1. CASE Close
  BY <1>1, CloseStreamKeeps DEF Close, LInv, FlagTypes, ControlTypes, timers, setup
<1>2. CASE Crash \/ UNCHANGED vars
  <2>1. UNCHANGED <<options, loop, closed, wasConnected, reconnecting, stream, closeEvent, retry,
                    dialTimer, staleDials, connectionTimer, orphans, connects, closes>>
    BY <1>2 DEF Crash, vars, setup, timers
  <2>2. QED
    BY <2>1 DEF LInv, FlagTypes, ControlTypes, LoopAlone, Resolved, Open, DialsTimed, ClosedQuietly,
       Marked, OneWayForward, ConnectSettles, ConnectOnce, CloseOnce
<1>3. QED
  BY <1>1, <1>2, ConnectingKeeps, HandshakingKeeps, SocketKeeps, TimersKeep DEF Next

LEMMA LInvariance == Spec => []LInv
  BY LInit, LNext, PTL DEF Spec

-----------------------------------------------------------------------------
(* Theorems                                                                 *)

\* Whatever timers, errors and close events come in which order, the client
\* has one way forward (handlers.close, scheduleReconnect, closeStream).
THEOREM OneWay == Spec => []OneWayForward
<1>1. LInv => OneWayForward
  BY DEF LInv
<1>2. QED BY <1>1, LInvariance, PTL

\* The promise of connect() always has a dial, or the timer of one, to settle
\* it (TCPTransport.connect).
THEOREM SomebodySettles == Spec => []ConnectSettles
<1>1. LInv => ConnectSettles
  BY DEF LInv
<1>2. QED BY <1>1, LInvariance, PTL

\* 'connect' and 'close' are emitted once at most, 'close' of a closed client
\* (connectCB, closeAndEmit, handlers.close).
THEOREM EmittedOnce == Spec => []EventsOnce
<1>1. LInv => EventsOnce
  BY DEF LInv, EventsOnce
<1>2. QED BY <1>1, LInvariance, PTL

-----------------------------------------------------------------------------
(* The pool                                                                 *)

\* No server is in a pool twice.
Pooled(p) == p \in Seq(Names) /\ IsInjective(p)

ServerTypes == [Names -> [didConnect : BOOLEAN, reconnects : 0..MaxCount,
                          rested : BOOLEAN, implicit : BOOLEAN]]

PoolTypes ==
    /\ [options |-> options, environment |-> environment] \in Settings
    /\ Pooled(servers)
    /\ firstSelect \in BOOLEAN
    /\ server \in ServerTypes
    /\ current \in Names /\ target \in Names
    /\ index \in 0..Cardinality(Names)
    /\ staleDials \in 0..MaxTimers /\ orphans \in 0..MaxTimers
    /\ up \subseteq Names /\ faults \in 0..MaxFaults

\* The first server is selected by the first round of the loop of connect().
FirstInPool ==
    firstSelect => loop = "start" /\ stream = "none" /\ current \in ToSet(servers)

\* Without a limit on the attempts a pool that has served is never empty.
KeepsAServer ==
    wasConnected /\ options.maxReconnectAttempts = -1 => servers # << >>

PInv == PoolTypes /\ FirstInPool /\ StreamOfCurrent /\ KeepsAServer

LEMMA NamesFinite == IsFiniteSet(Names) /\ Cardinality(Names) \in Nat
<1>1. IsFiniteSet(Configured) /\ IsFiniteSet(Discovered)
  BY LifecycleAssumption
<1>2. IsFiniteSet(Names)
  BY <1>1, FS_Union DEF Names
<1>3. QED BY <1>2, FS_CardinalityType

LEMMA PoolLength ==
    ASSUME NEW p, Pooled(p)
    PROVE  Len(p) \in Nat /\ Len(p) <= Cardinality(Names)
<1>1. p \in Seq(Names) /\ IsInjective(p)
  BY DEF Pooled
<1>2. Len(p) \in Nat
  BY <1>1
<1>3. QED BY <1>1, <1>2, NamesFinite, InjectiveLength

LEMMA InPool ==
    ASSUME NEW p, Pooled(p), NEW j \in 1..Len(p)
    PROVE  p[j] \in Names /\ p[j] \in ToSet(p) /\ p # << >>
<1>1. p \in Seq(Names)
  BY DEF Pooled
<1>2. p[j] \in Names /\ j \in DOMAIN p /\ p # << >>
  BY <1>1
<1>3. QED BY <1>2, Zenon DEF ToSet

LEMMA NotEmpty == \A p, x : x \in ToSet(p) => p # << >>
<1>1. DOMAIN << >> = {}
  OBVIOUS
<1>2. QED BY <1>1, Zenon DEF ToSet

\* Two parts of a pool, in either order.
LEMMA PartsOfPool ==
    ASSUME NEW p, Pooled(p), NEW j \in Nat, j <= Len(p)
    PROVE  /\ Pooled(SubSeq(p, 1, j)) /\ Pooled(SubSeq(p, j + 1, Len(p)))
           /\ ToSet(SubSeq(p, 1, j)) \cap ToSet(SubSeq(p, j + 1, Len(p))) = {}
           /\ \A i \in 1..j : p[i] \in ToSet(SubSeq(p, 1, j))
<1>1. PICK n \in Nat : n = Len(p) /\ DOMAIN p = 1..n
  BY DEF Pooled
<1>2. p \in Seq(Names) /\ IsInjective(p)
  BY DEF Pooled
<1>3. 1 \in Nat /\ j + 1 \in Nat /\ 1 <= 1 /\ 1 <= j + 1 /\ n <= n
  OBVIOUS
<1>4. /\ SubSeq(p, 1, j) \in Seq(Names) /\ IsInjective(SubSeq(p, 1, j))
      /\ \A x : x \in ToSet(SubSeq(p, 1, j)) <=> \E i \in 1..j : p[i] = x
  BY <1>1, <1>2, <1>3, InSubSeq
<1>5. /\ SubSeq(p, j + 1, n) \in Seq(Names) /\ IsInjective(SubSeq(p, j + 1, n))
      /\ \A x : x \in ToSet(SubSeq(p, j + 1, n)) <=> \E i \in (j + 1)..n : p[i] = x
  BY <1>1, <1>2, <1>3, InSubSeq
<1>6. \A i \in 1..j, k \in (j + 1)..n : i \in 1..n /\ k \in 1..n /\ i # k
  BY <1>1
<1>7. \A i \in 1..j, k \in (j + 1)..n : p[i] # p[k]
  BY <1>1, <1>2, <1>6, Zenon DEF IsInjective
<1>8. ToSet(SubSeq(p, 1, j)) \cap ToSet(SubSeq(p, j + 1, n)) = {}
  <2>1. ASSUME NEW x, x \in ToSet(SubSeq(p, 1, j)), x \in ToSet(SubSeq(p, j + 1, n)) PROVE FALSE
    <3>1. PICK i \in 1..j : p[i] = x
      BY <1>4, <2>1, Zenon
    <3>2. PICK k \in (j + 1)..n : p[k] = x
      BY <1>5, <2>1, Zenon
    <3>3. QED BY <1>7, <3>1, <3>2, Zenon
  <2>2. QED BY <2>1, Zenon
<1>9. QED BY <1>1, <1>4, <1>5, <1>8, Zenon DEF Pooled

LEMMA JoinPools ==
    ASSUME NEW p, NEW q, Pooled(p), Pooled(q), ToSet(p) \cap ToSet(q) = {}
    PROVE  Pooled(p \o q) /\ ToSet(p \o q) = ToSet(p) \cup ToSet(q)
<1>1. p \in Seq(Names) /\ q \in Seq(Names) /\ IsInjective(p) /\ IsInjective(q)
  BY DEF Pooled
<1>2. p \o q \in Seq(Names)
  BY <1>1
<1>3. QED BY <1>1, <1>2, InConcat DEF Pooled

LEMMA AmongPool ==
    ASSUME NEW p, Pooled(p), NEW S
    PROVE  Pooled(Among(p, S)) /\ ToSet(Among(p, S)) = ToSet(p) \cap S
<1>1. p \in Seq(Names) /\ IsInjective(p)
  BY DEF Pooled
<1>2. Among(p, S) \in Seq(Names)
  <2>1. \A a \in Seq(Names \cap S) : a \in Seq(Names)
    OBVIOUS
  <2>2. QED BY <1>1, <2>1, AmongType, Zenon
<1>3. QED BY <1>1, <1>2, InAmong DEF Pooled

LEMMA RotatedKeeps ==
    ASSUME NEW p, Pooled(p), NEW j \in 1..Len(p)
    PROVE  Pooled(Rotated(p, j)) /\ p[j] \in ToSet(Rotated(p, j))
<1>1. Len(p) \in Nat
  BY PoolLength
<1>2. j \in Nat /\ j <= Len(p) /\ j \in 1..j
  BY <1>1
<1>3. QED BY <1>2, PartsOfPool, JoinPools DEF Rotated

LEMMA RemoveServerKeeps ==
    ASSUME NEW p, Pooled(p), NEW s
    PROVE  Pooled(RemoveServer(p, s))
<1>1. CASE p = << >>
  BY <1>1 DEF RemoveServer
<1>2. CASE p # << >>
  <2>1. PICK n \in Nat : n = Len(p) /\ DOMAIN p = 1..n /\ n # 0
    BY <1>2 DEF Pooled
  <2>2. PICK at : at = {i \in DOMAIN p : p[i] = s}
    OBVIOUS
  <2>3. PICK j \in 1..n : j = IF at = {} THEN n ELSE Min(at)
    <3>1. n \in 1..n
      BY <2>1
    <3>2. at \in SUBSET Nat /\ at \subseteq 1..n
      BY <2>1, <2>2
    <3>3. at # {} => Min(at) \in 1..n
      BY <3>2, MinIs, Zenon
    <3>4. QED BY <3>1, <3>3, Zenon
  <2>4. PICK k \in Nat : k = j - 1 /\ k <= n /\ j <= n
    BY <2>3
  <2>5. RemoveServer(p, s) = SubSeq(p, 1, k) \o SubSeq(p, j + 1, n)
    <3>1. RemoveServer(p, s) = RemoveAt(p, j)
      BY <1>2, <2>1, <2>2, <2>3, Zenon DEF RemoveServer
    <3>2. QED BY <2>1, <2>4, <3>1, Zenon DEF RemoveAt
  <2>6. /\ Pooled(SubSeq(p, 1, k)) /\ Pooled(SubSeq(p, j + 1, n))
        /\ ToSet(SubSeq(p, 1, j)) \cap ToSet(SubSeq(p, j + 1, n)) = {}
    BY <2>1, <2>4, PartsOfPool
  <2>7. ToSet(SubSeq(p, 1, k)) \subseteq ToSet(SubSeq(p, 1, j))
    <3>1. p \in Seq(Names) /\ 1 \in Nat /\ 1 <= 1 /\ j \in Nat /\ j <= Len(p) /\ k <= Len(p)
      BY <2>1, <2>4 DEF Pooled
    <3>2. /\ \A x : x \in ToSet(SubSeq(p, 1, k)) <=> \E i \in 1..k : p[i] = x
          /\ \A x : x \in ToSet(SubSeq(p, 1, j)) <=> \E i \in 1..j : p[i] = x
      BY <3>1, InSubSeq
    <3>3. \A i \in 1..k : i \in 1..j
      BY <2>4
    <3>4. QED BY <3>2, <3>3, Zenon
  <2>8. ToSet(SubSeq(p, 1, k)) \cap ToSet(SubSeq(p, j + 1, n)) = {}
    BY <2>6, <2>7, Zenon
  <2>9. QED BY <2>5, <2>6, <2>8, JoinPools, Zenon
<1>3. QED BY <1>1, <1>2

\* scheduleReconnect() keeps the server it stops at, unless that is exhausted.
LEMMA PoolAfterKeeps ==
    ASSUME NEW p, Pooled(p), NEW j \in 1..Len(p)
    PROVE  /\ Pooled(PoolAfter(p, j))
           /\ ~Exhausted(p[j]) => p[j] \in ToSet(PoolAfter(p, j))
<1>1. Len(p) \in Nat
  BY PoolLength
<1>2. j \in Nat /\ j <= Len(p) /\ j \in 1..j
  BY <1>1
<1>3. /\ Pooled(SubSeq(p, 1, j)) /\ Pooled(SubSeq(p, j + 1, Len(p)))
      /\ ToSet(SubSeq(p, 1, j)) \cap ToSet(SubSeq(p, j + 1, Len(p))) = {}
      /\ p[j] \in ToSet(SubSeq(p, 1, j))
  BY <1>2, PartsOfPool
<1>4. /\ Pooled(Among(SubSeq(p, 1, j), Kept))
      /\ ToSet(Among(SubSeq(p, 1, j), Kept)) = ToSet(SubSeq(p, 1, j)) \cap Kept
  BY <1>3, AmongPool
<1>5. ToSet(SubSeq(p, j + 1, Len(p))) \cap ToSet(Among(SubSeq(p, 1, j), Kept)) = {}
  BY <1>3, <1>4, Zenon
<1>6. /\ Pooled(PoolAfter(p, j))
      /\ ToSet(Among(SubSeq(p, 1, j), Kept)) \subseteq ToSet(PoolAfter(p, j))
  BY <1>3, <1>4, <1>5, JoinPools DEF PoolAfter
<1>7. ~Exhausted(p[j]) => p[j] \in Kept
  BY InPool DEF Kept
<1>8. QED BY <1>3, <1>4, <1>6, <1>7, Zenon

-----------------------------------------------------------------------------
(* What the procedures do with the pool                                     *)

ServerRecords == [didConnect : BOOLEAN, reconnects : 0..MaxCount,
                  rested : BOOLEAN, implicit : BOOLEAN]

LEMMA ServerFields ==
    ASSUME NEW r \in ServerRecords
    PROVE  \A b \in BOOLEAN : [r EXCEPT !.didConnect = b] \in ServerRecords
BY DEF ServerRecords

\* One server is changed, or its fields are.
LEMMA ServerChange ==
    ASSUME NEW f \in ServerTypes, NEW s \in Names, NEW n \in 0..MaxCount, NEW b \in BOOLEAN
    PROVE  /\ [f EXCEPT ![s].rested = b] \in ServerTypes
           /\ [f EXCEPT ![s].rested = b, ![s].reconnects = n] \in ServerTypes
           /\ [f EXCEPT ![s].didConnect = b, ![s].reconnects = n] \in ServerTypes
           /\ f[s].reconnects \in 0..MaxCount
BY DEF ServerTypes

LEMMA CountZero == 0 \in 0..MaxCount
BY LifecycleAssumption

LEMMA ServerMap ==
    ASSUME NEW f, f = [s \in Names |-> f[s]], \A s \in Names : f[s] \in ServerRecords
    PROVE  f \in ServerTypes
BY Zenon DEF ServerTypes, ServerRecords

LEMMA DidConnectMap ==
    ASSUME server \in ServerTypes, NEW C
    PROVE  [s \in Names |-> [server[s] EXCEPT !.didConnect = s \in C]] \in ServerTypes
<1>1. PICK f : f = [s \in Names |-> [server[s] EXCEPT !.didConnect = s \in C]]
  OBVIOUS
<1>2. ASSUME NEW s \in Names PROVE f[s] \in ServerRecords
  <2>1. server[s] \in ServerRecords
    BY Zenon DEF ServerTypes, ServerRecords
  <2>2. (s \in C) \in BOOLEAN
    OBVIOUS
  <2>3. f[s] = [server[s] EXCEPT !.didConnect = s \in C]
    BY <1>1, Zenon
  <2>4. QED BY <2>1, <2>2, <2>3, ServerFields, Zenon
<1>3. f = [s \in Names |-> f[s]]
  BY <1>1, Zenon
<1>4. QED BY <1>1, <1>2, <1>3, ServerMap, Zenon

LEMMA Saturates ==
    ASSUME NEW n \in Nat, NEW max \in Nat
    PROVE  Saturated(n, max) \in 0..max
BY DEF Saturated

LEMMA DialsPool ==
    ASSUME PInv, NEW s, NEW armed \in BOOLEAN, Dial(s, armed)
    PROVE  current' = s /\ target' = s /\ staleDials' \in 0..MaxTimers /\ stream' = "dialing"
<1>1. MaxTimers \in Nat /\ staleDials \in Nat
  BY LifecycleAssumption DEF PInv, PoolTypes
<1>2. staleDials + (IF armed THEN 1 ELSE 0) \in Nat
  BY <1>1
<1>3. QED BY <1>1, <1>2, Saturates DEF Dial

\* The loop of connect() from a pool that the dial before it has left.
LEMMA LoopPools ==
    ASSUME LInv, PInv, ~Resolved, NEW p, Pooled(p), NEW i \in Nat, NEW armed \in BOOLEAN,
           firstSelect => i = 0 /\ current \in ToSet(p),
           ConnectLoop(p, i, armed),
           faults' \in 0..MaxFaults, UNCHANGED <<setup, wasConnected, orphans, up>>
    PROVE  PInv'
<1>0. ~wasConnected /\ ~wasConnected'
  BY DEF LInv, LoopAlone
<1>a. firstSelect \in BOOLEAN
  BY DEF PInv, PoolTypes
<1>1. PICK n \in Nat : n = Len(p) /\ n <= Cardinality(Names)
  BY PoolLength
<1>2. PICK rested : rested = {j \in 1..n - i : server[p[j]].rested}
  OBVIOUS
<1>3. PICK c \in Nat : c = Cardinality(Names) /\ n <= c
  BY <1>1, NamesFinite
<1>4. \/ /\ Pooled(servers') /\ server' \in ServerTypes
         /\ index' \in 0..c /\ staleDials' \in 0..MaxTimers
         /\ current' = target' /\ current' \in ToSet(servers') /\ current' \in Names
         /\ firstSelect' = FALSE
      \/ /\ Pooled(servers') /\ UNCHANGED <<server, staleDials, target>>
         /\ index' = 0 /\ current' \in Names /\ stream' = "none" /\ firstSelect' = FALSE
  <2>1. CASE firstSelect
    <3>1. /\ Dial(current, armed) /\ servers' = p /\ firstSelect' = FALSE /\ index' = i + 1
          /\ server' = [server EXCEPT ![current].rested = FALSE]
      BY <2>1 DEF ConnectLoop
    <3>2. current' = current /\ target' = current /\ staleDials' \in 0..MaxTimers
      BY <3>1, DialsPool
    <3>3. current \in Names /\ server \in ServerTypes
      BY DEF PInv, PoolTypes
    <3>4. server' \in ServerTypes
      BY <3>1, <3>3, FALSE \in BOOLEAN, CountZero, ServerChange
    <3>5. n # 0
      <4>1. p # << >> /\ p \in Seq(Names)
        BY <2>1, NotEmpty DEF Pooled
      <4>2. QED BY <1>1, <4>1
    <3>6. index' \in 0..c
      BY <1>3, <2>1, <3>1, <3>5
    <3>7. QED BY <2>1, <3>1, <3>2, <3>3, <3>4, <3>6
  <2>2. CASE ~firstSelect /\ rested # {}
    <3>1. PICK j \in 1..n : j = Min(rested) /\ i + j \in 0..n
      <4>1. rested \in SUBSET Nat /\ \A k \in rested : k \in 1..n /\ i + k \in 0..n
        BY <1>1, <1>2
      <4>2. Min(rested) \in rested
        BY <2>2, <4>1, MinIs, Zenon
      <4>3. QED BY <4>1, <4>2, Zenon
    <3>2. /\ Dial(p[j], armed) /\ servers' = Rotated(p, j) /\ index' = i + j
          /\ server' = [server EXCEPT ![p[j]].rested = FALSE] /\ UNCHANGED firstSelect
      BY <1>1, <1>2, <2>2, <3>1, Zenon DEF ConnectLoop
    <3>3. /\ Pooled(Rotated(p, j)) /\ p[j] \in ToSet(Rotated(p, j)) /\ p[j] \in Names
      BY <1>1, <3>1, RotatedKeeps, InPool
    <3>4. current' = p[j] /\ target' = p[j] /\ staleDials' \in 0..MaxTimers
      BY <3>2, DialsPool
    <3>5. server' \in ServerTypes
      BY <3>2, <3>3, FALSE \in BOOLEAN, CountZero, ServerChange DEF PInv, PoolTypes
    <3>6. index' \in 0..c
      BY <1>3, <3>1, <3>2
    <3>7. QED BY <1>a, <2>2, <3>2, <3>3, <3>4, <3>5, <3>6
  <2>3. CASE ~firstSelect /\ rested = {}
    <3> DEFINE last == n - i
    <3>1. /\ servers' = IF last > 0 THEN Rotated(p, last) ELSE p
          /\ current' = IF last > 0 THEN p[last] ELSE current
          /\ index' = 0 /\ stream' = "none"
          /\ UNCHANGED <<firstSelect, server, staleDials, target>>
      BY <1>1, <1>2, <2>3, Zenon DEF ConnectLoop
    <3>2. last > 0 => last \in 1..n
      BY <1>1
    <3>3. current \in Names
      BY DEF PInv, PoolTypes
    <3> HIDE DEF last
    <3>4. Pooled(servers') /\ current' \in Names
      BY <1>1, <3>1, <3>2, <3>3, RotatedKeeps, InPool
    <3>5. QED BY <1>a, <2>3, <3>1, <3>4
  <2>4. QED BY <2>1, <2>2, <2>3
<1>5. PoolTypes'
  <2>1. /\ [options |-> options, environment |-> environment] \in Settings
        /\ server \in ServerTypes /\ target \in Names /\ staleDials \in 0..MaxTimers
        /\ orphans \in 0..MaxTimers /\ up \subseteq Names
    BY DEF PInv, PoolTypes
  <2>2. index' \in 0..c
    BY <1>4
  <2>5. firstSelect' = FALSE
    BY <1>4
  <2>3. [options |-> options, environment |-> environment]' \in Settings
    BY <2>1 DEF setup
  <2>4. QED BY <1>3, <1>4, <2>1, <2>2, <2>3, <2>5 DEF PoolTypes
<1>6. FirstInPool' /\ StreamOfCurrent' /\ KeepsAServer'
  BY <1>0, <1>4 DEF FirstInPool, StreamOfCurrent, KeepsAServer
<1>7. QED BY <1>5, <1>6 DEF PInv

\* scheduleReconnect() gives up for want of attempts or servers only.
LEMMA SchedulePools ==
    ASSUME PInv, ~firstSelect, NEW p, Pooled(p), NEW C, ScheduleReconnect(p, C),
           dialTimer \in BOOLEAN, reconnecting \in BOOLEAN, wasConnected \in BOOLEAN,
           wasConnected /\ options.maxReconnectAttempts = -1 => p # << >>,
           faults' \in 0..MaxFaults,
           UNCHANGED <<setup, firstSelect, index, wasConnected, orphans, up>>
    PROVE  /\ PInv'
           /\ wasConnected /\ options.reconnect /\ options.maxReconnectAttempts = -1
                => closes' = closes
<1>0. setup' = setup /\ options' = options /\ environment' = environment
  BY DEF setup
<1>1. PICK n \in Nat : n = Len(p)
  BY PoolLength
<1>2. PICK visits \in SUBSET (1..n) : visits = {j \in 1..n : Visited(p, j)}
  OBVIOUS
<1>3. PICK eligible \in SUBSET visits : eligible = {j \in visits : Eligible(p, j)}
  OBVIOUS
<1>4. PICK kept \in ServerTypes : kept = [s \in Names |-> [server[s] EXCEPT !.didConnect = s \in C]]
  BY DidConnectMap, Zenon DEF PInv, PoolTypes
<1>5. options.maxReconnectAttempts = -1 => \A s : ~Exhausted(s)
  BY DEF Exhausted
<1>6. CASE (p = << >> \/ ~options.reconnect) /\ GiveUp /\ servers' = p /\ server' = kept
           /\ UNCHANGED <<current, reconnecting, target, dialTimer, staleDials>>
  <2>1. PoolTypes'
    BY <1>0, <1>6 DEF PInv, PoolTypes
  <2>2. FirstInPool' /\ StreamOfCurrent' /\ KeepsAServer'
    BY <1>0, <1>6 DEF FirstInPool, StreamOfCurrent, KeepsAServer, GiveUp
  <2>3. QED BY <1>6, <2>1, <2>2 DEF PInv
<1>7. CASE eligible # {} /\ p # << >>
  <2>1. PICK first \in 1..n : first = Min(eligible) /\ ~Exhausted(p[first])
    <3>1. eligible \in SUBSET Nat /\ eligible \subseteq 1..n
      OBVIOUS
    <3>2. Min(eligible) \in eligible
      BY <1>7, <3>1, MinIs, Zenon
    <3>3. \A j \in eligible : ~Exhausted(p[j])
      BY <1>3, Zenon DEF Eligible
    <3>4. QED BY <3>1, <3>2, <3>3, Zenon
  <2>2. CASE ~options.reconnect
    BY <1>1, <1>2, <1>3, <1>4, <1>6, <2>2, Zenon DEF ScheduleReconnect
  <2>3. CASE options.reconnect
    <3>1. /\ Dial(p[first], dialTimer)
          /\ servers' = PoolAfter(p, first)
          /\ server' = [kept EXCEPT ![p[first]].rested = FALSE,
                                    ![p[first]].reconnects = Counted(p[first])]
          /\ UNCHANGED closes
      BY <1>1, <1>2, <1>3, <1>4, <1>7, <2>1, <2>3, Zenon DEF ScheduleReconnect
    <3>2. p[first] \in Names /\ Pooled(servers') /\ p[first] \in ToSet(servers')
      BY <1>1, <2>1, <3>1, InPool, PoolAfterKeeps
    <3>3. current' = p[first] /\ target' = p[first] /\ staleDials' \in 0..MaxTimers
      BY <3>1, DialsPool
    <3>4. server' \in ServerTypes
      <4>1. Counted(p[first]) \in 0..MaxCount
        <5>1. server[p[first]].reconnects \in Nat /\ MaxCount \in Nat
          BY <3>2, LifecycleAssumption DEF PInv, PoolTypes, ServerTypes
        <5>2. server[p[first]].reconnects + (IF SetReconnecting THEN 1 ELSE 0) \in Nat
          BY <5>1
        <5>3. QED BY <5>1, <5>2, Saturates DEF Counted
      <4>2. QED BY <3>1, <3>2, <4>1, FALSE \in BOOLEAN, ServerChange
    <3>5. PoolTypes'
      <4>1. /\ [options |-> options, environment |-> environment] \in Settings
            /\ firstSelect \in BOOLEAN /\ index \in 0..Cardinality(Names)
            /\ orphans \in 0..MaxTimers /\ up \subseteq Names
        BY DEF PInv, PoolTypes
      <4>2. QED BY <1>0, <3>2, <3>3, <3>4, <4>1 DEF PoolTypes
    <3>6. FirstInPool' /\ StreamOfCurrent' /\ KeepsAServer'
      BY <1>0, <3>2, <3>3, NotEmpty DEF FirstInPool, StreamOfCurrent, KeepsAServer
    <3>7. QED BY <3>1, <3>5, <3>6 DEF PInv
  <2>4. QED BY <2>2, <2>3
<1>8. CASE eligible = {} /\ p # << >>
  <2>1. PICK last \in 1..n : last = Max(visits)
    <3>1. n # 0 /\ 1 \in 1..n
      <4>1. p \in Seq(Names)
        BY DEF Pooled
      <4>2. QED BY <1>1, <1>8, <4>1
    <3>2. Visited(p, 1)
      <4>1. {k \in 1..1-1 : Exhausted(p[k])} = {}
        OBVIOUS
      <4>2. Cardinality({k \in 1..1-1 : Exhausted(p[k])}) = 0
        BY <4>1, FS_EmptySet, Zenon
      <4>3. QED BY <1>1, <3>1, <4>2 DEF Visited
    <3>3. visits # {} /\ visits \in SUBSET (0..n)
      BY <1>2, <3>1, <3>2
    <3>4. Max(visits) \in visits
      BY <3>3, MaxIs, Zenon
    <3>5. QED BY <3>4, Zenon
  <2>2. CASE ~options.reconnect
    BY <1>1, <1>2, <1>3, <1>4, <1>6, <2>2, Zenon DEF ScheduleReconnect
  <2>3. CASE options.reconnect
    <3>1. /\ current' = p[last] /\ servers' = PoolAfter(p, last) /\ server' = kept
          /\ \/ servers' = << >> /\ GiveUp
             \/ servers' # << >> /\ stream' = "none" /\ UNCHANGED <<closed, closes>>
          /\ UNCHANGED <<target, staleDials>>
      BY <1>1, <1>2, <1>3, <1>4, <1>8, <2>1, <2>3, Zenon DEF ScheduleReconnect
    <3>2. p[last] \in Names /\ Pooled(servers')
      BY <1>1, <2>1, <3>1, InPool, PoolAfterKeeps
    <3>3. options.maxReconnectAttempts = -1 => servers' # << >>
      BY <1>1, <1>5, <2>1, <3>1, PoolAfterKeeps, NotEmpty
    <3>4. stream' = "none"
      BY <3>1 DEF GiveUp
    <3>5. PoolTypes'
      BY <1>0, <3>1, <3>2 DEF PInv, PoolTypes
    <3>6. FirstInPool' /\ StreamOfCurrent' /\ KeepsAServer'
      BY <1>0, <3>3, <3>4 DEF FirstInPool, StreamOfCurrent, KeepsAServer
    <3>7. QED BY <3>1, <3>3, <3>5, <3>6 DEF PInv
  <2>4. QED BY <2>2, <2>3
<1>9. CASE p = << >>
  BY <1>1, <1>2, <1>3, <1>4, <1>6, <1>9, Zenon DEF ScheduleReconnect
<1>10. QED BY <1>7, <1>8, <1>9

\* handlers.close(), with a pool that is only smaller than before if the
\* client was never connected.
LEMMA ClosePools ==
    ASSUME LInv, PInv, Resolved, NEW p, Pooled(p), wasConnected => p = servers, NEW C,
           HandlersClose(p, C), Fails \/ UNCHANGED faults
    PROVE  /\ PInv'
           /\ wasConnected /\ ~closed /\ options.reconnect
                /\ options.maxReconnectAttempts = -1 => closes' = closes
<1>1. UNCHANGED <<setup, firstSelect, index, wasConnected, orphans, up, loop>>
  BY DEF HandlersClose, pool
<1>2. faults' \in 0..MaxFaults
  BY LifecycleAssumption DEF Fails, PInv, PoolTypes
<1>3. ~firstSelect
  BY DEF PInv, FirstInPool, Resolved
<1>4. dialTimer \in BOOLEAN /\ reconnecting \in BOOLEAN /\ wasConnected \in BOOLEAN
  BY DEF LInv, FlagTypes
<1>5. wasConnected /\ options.maxReconnectAttempts = -1 => p # << >>
  BY DEF PInv, KeepsAServer
<1>6. CASE ~closed
  BY <1>1, <1>2, <1>3, <1>4, <1>5, <1>6, SchedulePools DEF HandlersClose
<1>7. CASE closed
  <2>1. stream' = "none" /\ UNCHANGED <<setup, pool, target, staleDials, loop>>
    BY <1>1, <1>7 DEF HandlersClose
  <2>2. PoolTypes'
    BY <1>1, <1>2, <2>1 DEF PInv, PoolTypes, pool, setup
  <2>3. FirstInPool' /\ StreamOfCurrent' /\ KeepsAServer'
    BY <1>1, <2>1 DEF PInv, FirstInPool, StreamOfCurrent, KeepsAServer, pool, setup
  <2>4. QED BY <1>7, <2>2, <2>3 DEF PInv
<1>8. QED BY <1>6, <1>7

\* What handlers.error() leaves.
LEMMA ErrorPools ==
    ASSUME PInv
    PROVE  Pooled(PoolAfterError) /\ (wasConnected => PoolAfterError = servers)
<1>1. Pooled(servers) /\ Pooled(RemoveServer(servers, current))
  BY RemoveServerKeeps DEF PInv, PoolTypes
<1>2. QED BY <1>1 DEF PoolAfterError, ErrorCounts

LEMMA DialTimerErrorPools ==
    ASSUME LInv, PInv, DialTimerError, staleDials' \in 0..MaxTimers, faults' \in 0..MaxFaults,
           UNCHANGED <<setup, wasConnected, orphans, up>>
    PROVE  PInv'
<1>1. /\ Resolved /\ servers' = PoolAfterError
      /\ server' = [s \in Names |-> [server[s] EXCEPT !.didConnect = s \in DidConnectAfterError]]
      /\ UNCHANGED <<firstSelect, current, loop, index, target>>
      /\ (ErrorIgnored /\ stream' = stream) \/ stream' = "none"
  BY DEF DialTimerError, CloseStream
<1>2. server' \in ServerTypes
  BY <1>1, DidConnectMap, Zenon DEF PInv, PoolTypes
<1>3. Pooled(servers') /\ (wasConnected => servers' = servers)
  BY <1>1, ErrorPools
<1>4. PoolTypes'
  BY <1>1, <1>2, <1>3 DEF PInv, PoolTypes, setup
<1>5. FirstInPool' /\ StreamOfCurrent' /\ KeepsAServer'
  BY <1>1, <1>3 DEF PInv, FirstInPool, StreamOfCurrent, KeepsAServer, ErrorIgnored, Resolved, setup
<1>6. QED BY <1>4, <1>5 DEF PInv

\* Gossip spares the current server, and adds no server twice.
LEMMA UpdatePools ==
    ASSUME PInv, current \in ToSet(servers), NEW urls \in SUBSET Names, ProcessServerUpdate(urls)
    PROVE  Pooled(servers') /\ current \in ToSet(servers') /\ server' \in ServerTypes
<1>1. PICK stays : stays = {s \in Names : ~server[s].implicit \/ s = current \/ s \in urls}
  OBVIOUS
<1>2. PICK added \in SetToSeqs(urls \ ToSet(servers)) :
        /\ servers' = Among(servers, stays) \o added
        /\ server' = [s \in Names |-> IF s \in ToSet(added) THEN Fresh(TRUE) ELSE server[s]]
  BY <1>1, Zenon DEF ProcessServerUpdate
<1>3. current \in stays /\ Pooled(servers)
  BY <1>1 DEF PInv, PoolTypes
<1>4. Pooled(Among(servers, stays)) /\ ToSet(Among(servers, stays)) = ToSet(servers) \cap stays
  BY <1>3, AmongPool
<1>5. PICK new : new = urls \ ToSet(servers)
  OBVIOUS
<1>6. added \in Seq(new) /\ IsInjective(added)
  <2>1. IsFiniteSet(new)
    <3>1. new \in SUBSET Names
      BY <1>5
    <3>2. QED BY <3>1, NamesFinite, FS_Subset
  <2>2. QED BY <1>2, <1>5, <2>1, EnumerationIs, Zenon
<1>7. Pooled(added) /\ ToSet(added) \cap ToSet(servers) = {}
  <2>1. added \in Seq(Names) /\ \A i \in DOMAIN added : added[i] \in new
    BY <1>5, <1>6
  <2>2. QED BY <1>5, <1>6, <2>1, Zenon DEF Pooled, ToSet
<1>8. Pooled(servers') /\ current \in ToSet(servers')
  BY <1>2, <1>3, <1>4, <1>7, JoinPools, Zenon
<1>9. server' \in ServerTypes
  <2>1. Fresh(TRUE) \in ServerRecords
    BY CountZero DEF Fresh, ServerRecords
  <2>2. \A s \in Names : server[s] \in ServerRecords
    BY Zenon DEF PInv, PoolTypes, ServerTypes, ServerRecords
  <2>3. \A s \in Names : server'[s] \in ServerRecords
    BY <1>2, <2>1, <2>2, Zenon
  <2>4. server' = [s \in Names |-> server'[s]]
    BY <1>2, Zenon
  <2>5. QED BY <2>3, <2>4, ServerMap, Zenon
<1>10. QED BY <1>8, <1>9

-----------------------------------------------------------------------------
(* Every step keeps the pool                                                *)

LEMMA PInit == Init => PInv
<1> SUFFICES ASSUME Init PROVE PInv
  OBVIOUS
<1>1. [options |-> options, environment |-> environment] \in Settings
  <2>1. PICK s \in Settings : options = s.options /\ environment = s.environment
    BY DEF Init
  <2>2. s = [options |-> s.options, environment |-> s.environment]
    BY LifecycleAssumption
  <2>3. QED BY <2>1, <2>2
<1>2. servers \in Seq(Configured) /\ IsInjective(servers) /\ Len(servers) = Cardinality(Configured)
  BY LifecycleAssumption, EnumerationIs DEF Init
<1>3. Len(servers) \in Nat /\ Len(servers) # 0
  <2>1. IsFiniteSet(Configured) /\ Configured # {}
    BY LifecycleAssumption
  <2>2. QED BY <1>2, <2>1, FS_EmptySet, FS_CardinalityType
<1>4. servers \in Seq(Names)
  BY <1>2 DEF Names
<1>5. Pooled(servers) /\ 1 \in 1..Len(servers)
  BY <1>2, <1>3, <1>4 DEF Pooled
<1>6. current \in Names /\ current \in ToSet(servers)
  BY <1>5, InPool DEF Init
<1>7. server \in ServerTypes
  <2>1. \A s \in Names : Fresh(FALSE) \in ServerRecords
    BY CountZero DEF Fresh, ServerRecords
  <2>2. QED BY <2>1, Zenon DEF Init, ServerTypes, ServerRecords
<1>8. 0 \in 0..Cardinality(Names) /\ 0 \in 0..MaxTimers /\ 0 \in 0..MaxFaults
  BY NamesFinite, LifecycleAssumption
<1>9. PoolTypes
  BY <1>1, <1>5, <1>4, <1>6, <1>7, <1>8 DEF Init, PoolTypes
<1>10. FirstInPool /\ StreamOfCurrent /\ KeepsAServer
  BY <1>6 DEF Init, FirstInPool, StreamOfCurrent, KeepsAServer
<1>11. QED BY <1>9, <1>10 DEF PInv

\* A step that leaves the pool alone, and opens no stream.
LEMMA PoolAlone ==
    ASSUME PInv, UNCHANGED <<setup, pool, index, target, wasConnected>>,
           loop' = loop \/ ~firstSelect,
           stream' = "none" \/ stream # "none",
           staleDials' \in 0..MaxTimers, orphans' \in 0..MaxTimers,
           up' \subseteq up, faults' \in 0..MaxFaults
    PROVE  PInv'
<1>1. PoolTypes'
  BY DEF PInv, PoolTypes, setup, pool
<1>2. FirstInPool' /\ StreamOfCurrent' /\ KeepsAServer'
  BY DEF PInv, FirstInPool, StreamOfCurrent, KeepsAServer, setup, pool
<1>3. QED BY <1>1, <1>2 DEF PInv

LEMMA Faults ==
    ASSUME PInv, Fails \/ UNCHANGED faults
    PROVE  faults' \in 0..MaxFaults
BY LifecycleAssumption DEF Fails, PInv, PoolTypes

LEMMA TimerTypes ==
    ASSUME PInv
    PROVE  /\ staleDials \in 0..MaxTimers /\ orphans \in 0..MaxTimers
           /\ staleDials > 0 => staleDials - 1 \in 0..MaxTimers
           /\ orphans > 0 => orphans - 1 \in 0..MaxTimers
BY LifecycleAssumption DEF PInv, PoolTypes

LEMMA RejectedPools ==
    ASSUME LInv, PInv, loop = "dial", NEW armed \in BOOLEAN, Rejected(armed),
           Fails \/ UNCHANGED faults, UNCHANGED <<setup, wasConnected, orphans, up>>
    PROVE  PInv'
<1>1. PICK p : /\ p = (IF options.waitOnFirstConnect THEN servers
                                                       ELSE RemoveServer(servers, current))
               /\ ConnectLoop(p, index, armed)
  BY Zenon DEF Rejected
<1>2. Pooled(p)
  BY <1>1, RemoveServerKeeps DEF PInv, PoolTypes
<1>3. ~firstSelect /\ ~Resolved /\ index \in Nat
  BY NamesFinite DEF PInv, PoolTypes, FirstInPool, Resolved
<1>4. faults' \in 0..MaxFaults
  BY Faults
<1>5. QED BY <1>1, <1>2, <1>3, <1>4, LoopPools

LEMMA ConnectingPools == LInv /\ PInv /\ Connecting => PInv'
<1> SUFFICES ASSUME LInv, PInv, Connecting PROVE PInv'
  OBVIOUS
<1>0. dialTimer \in BOOLEAN
  BY DEF LInv, FlagTypes
<1>1. CASE ConnectStart
  <2>1. /\ ~Resolved /\ ConnectLoop(servers, 0, dialTimer)
        /\ UNCHANGED <<setup, wasConnected, orphans, up, faults>>
    BY <1>1 DEF ConnectStart, Resolved
  <2>2. faults' \in 0..MaxFaults
    BY <2>1, Faults
  <2>3. Pooled(servers) /\ (firstSelect => current \in ToSet(servers)) /\ 0 \in Nat
    BY DEF PInv, PoolTypes, FirstInPool
  <2>4. QED BY <1>0, <2>1, <2>2, <2>3, LoopPools
<1>2. CASE DialRejected
  BY <1>0, <1>2, RejectedPools DEF DialRejected
<1>3. CASE DialOk
  <2>1. orphans' \in 0..MaxTimers
    <3>1. orphans \in Nat /\ MaxTimers \in Nat /\ orphans + (IF connectionTimer THEN 1 ELSE 0) \in Nat
      BY LifecycleAssumption DEF PInv, PoolTypes
    <3>2. QED BY <1>3, <3>1, Saturates DEF DialOk
  <2>2. /\ stream = "dialing" /\ stream' = "tcp" /\ index' = 0 /\ loop' = "resolved"
        /\ UNCHANGED <<setup, pool, wasConnected, staleDials, up, faults, target>>
    BY <1>3 DEF DialOk
  <2>3. ~firstSelect
    BY <2>2 DEF PInv, FirstInPool
  <2>4. 0 \in 0..Cardinality(Names)
    BY NamesFinite
  <2>5. PoolTypes'
    BY <2>1, <2>2, <2>4 DEF PInv, PoolTypes, setup, pool
  <2>6. FirstInPool' /\ StreamOfCurrent' /\ KeepsAServer'
    BY <2>2, <2>3 DEF PInv, FirstInPool, StreamOfCurrent, KeepsAServer, setup, pool
  <2>7. QED BY <2>5, <2>6 DEF PInv
<1>4. QED BY <1>1, <1>2, <1>3 DEF Connecting

LEMMA HandshakingPools == LInv /\ PInv /\ Handshaking => PInv'
<1> SUFFICES ASSUME LInv, PInv, Handshaking PROVE PInv'
  OBVIOUS
<1>0. stream # "none" /\ ~firstSelect /\ current \in ToSet(servers) /\ target = current
  BY DEF Handshaking, ReceiveInfo, HandshakePong, ProcessErr, Open, PInv, FirstInPool,
         StreamOfCurrent
<1>1. CASE ReceiveInfo
  <2>1. UNCHANGED <<setup, firstSelect, current, loop, index, wasConnected, staleDials, orphans,
                    up, faults, target>>
    BY <1>1 DEF ReceiveInfo, timers
  <2>2. Pooled(servers') /\ current \in ToSet(servers') /\ server' \in ServerTypes
    <3>1. CASE UNCHANGED <<servers, server>>
      BY <1>0, <3>1 DEF PInv, PoolTypes
    <3>2. ASSUME NEW urls \in environment.gossip, ProcessServerUpdate(urls)
          PROVE  Pooled(servers') /\ current \in ToSet(servers') /\ server' \in ServerTypes
      <4>1. urls \in SUBSET Names
        BY LifecycleAssumption DEF PInv, PoolTypes, EnvironmentRecords
      <4>2. QED BY <1>0, <3>2, <4>1, UpdatePools
    <3>3. QED BY <1>1, <3>1, <3>2 DEF ReceiveInfo
  <2>3. PoolTypes'
    BY <2>1, <2>2 DEF PInv, PoolTypes, setup
  <2>4. FirstInPool' /\ StreamOfCurrent' /\ KeepsAServer'
    BY <1>0, <2>1, <2>2, NotEmpty DEF FirstInPool, StreamOfCurrent, KeepsAServer, setup
  <2>5. QED BY <2>3, <2>4 DEF PInv
<1>2. CASE HandshakePong
  <2>1. /\ UNCHANGED <<setup, servers, firstSelect, current, loop, index, staleDials, orphans,
                       up, faults, target>>
        /\ server' = [server EXCEPT ![current].didConnect = TRUE, ![current].reconnects = 0]
    BY <1>2 DEF HandshakePong
  <2>2. server' \in ServerTypes
    BY <2>1, CountZero, TRUE \in BOOLEAN, ServerChange DEF PInv, PoolTypes
  <2>3. PoolTypes'
    BY <2>1, <2>2 DEF PInv, PoolTypes, setup
  <2>4. FirstInPool' /\ StreamOfCurrent' /\ KeepsAServer'
    BY <1>0, <2>1, NotEmpty DEF FirstInPool, StreamOfCurrent, KeepsAServer, setup
  <2>5. QED BY <2>3, <2>4 DEF PInv
<1>3. CASE ProcessErr
  <2>1. faults' \in 0..MaxFaults
    BY <1>3, Faults DEF ProcessErr
  <2>2. QED BY <1>0, <1>3, <2>1, TimerTypes, PoolAlone DEF ProcessErr, CloseStream, timers
<1>4. QED BY <1>1, <1>2, <1>3 DEF Handshaking

\* The handlers of the socket and the retry timer, which may all give up.
LEMMA SocketPools ==
    ASSUME LInv, PInv, Socket \/ RetryTimer
    PROVE  /\ PInv'
           /\ wasConnected /\ ~closed /\ options.reconnect
                /\ options.maxReconnectAttempts = -1 => closes' = closes
<1>1. CASE SocketError
  BY <1>1, ErrorPools, ClosePools DEF SocketError
<1>2. CASE SocketEnd \/ CloseEvent
  <2>1. Resolved
    BY <1>2 DEF SocketEnd, CloseEvent, Open, LInv, LoopAlone
  <2>2. Pooled(servers)
    BY DEF PInv, PoolTypes
  <2>3. QED BY <1>2, <2>1, <2>2, ClosePools DEF SocketEnd, CloseEvent
<1>3. CASE RetryTimer
  <2>1. Resolved /\ UNCHANGED <<setup, loop, index, wasConnected, orphans, up, faults>>
    BY <1>3 DEF RetryTimer, LInv, LoopAlone
  <2>2. faults' \in 0..MaxFaults
    BY <2>1, Faults
  <2>3. CASE closed
    <3>1. UNCHANGED <<pool, stream, target, staleDials>>
      BY <1>3, <2>3 DEF RetryTimer
    <3>2. QED BY <2>1, <2>2, <2>3, <3>1, TimerTypes, PoolAlone
  <2>4. CASE ~closed
    <3>1. ScheduleReconnect(servers, DidConnect) /\ UNCHANGED firstSelect /\ ~firstSelect
      BY <1>3, <2>1, <2>4 DEF RetryTimer, PInv, FirstInPool, Resolved
    <3>2. /\ dialTimer \in BOOLEAN /\ reconnecting \in BOOLEAN /\ wasConnected \in BOOLEAN
          /\ Pooled(servers)
          /\ wasConnected /\ options.maxReconnectAttempts = -1 => servers # << >>
      BY DEF LInv, FlagTypes, PInv, PoolTypes, KeepsAServer
    <3>3. QED BY <2>1, <2>2, <3>1, <3>2, SchedulePools
  <2>5. QED BY <2>3, <2>4
<1>4. QED BY <1>1, <1>2, <1>3 DEF Socket

LEMMA TimerPools ==
    ASSUME LInv, PInv, HandshakeTimer \/ DialTimer \/ StaleDialTimer \/ \E s \in Names : Rest(s)
    PROVE  PInv'
<1>1. CASE HandshakeTimer
  <2>1. orphans' \in 0..MaxTimers /\ staleDials' \in 0..MaxTimers
    BY <1>1, TimerTypes DEF HandshakeTimer
  <2>2. faults' \in 0..MaxFaults
    BY <1>1, Faults DEF HandshakeTimer
  <2>3. QED BY <1>1, <2>1, <2>2, PoolAlone DEF HandshakeTimer, CloseStream
<1>2. CASE DialTimer
  <2>1. UNCHANGED <<setup, wasConnected, orphans, up>> /\ (Fails \/ UNCHANGED faults)
    BY <1>2 DEF DialTimer
  <2>2. faults' \in 0..MaxFaults
    BY <2>1, Faults
  <2>3. CASE loop = "dial" /\ Rejected(FALSE)
    BY <2>1, <2>3, FALSE \in BOOLEAN, RejectedPools
  <2>4. CASE UNCHANGED <<pool, loop, index, stream, closeEvent, staleDials, target>>
    BY <2>1, <2>2, <2>4, TimerTypes, PoolAlone
  <2>5. CASE DialTimerError /\ UNCHANGED staleDials
    BY <2>1, <2>2, <2>5, TimerTypes, DialTimerErrorPools
  <2>6. QED BY <1>2, <2>3, <2>4, <2>5 DEF DialTimer
<1>3. CASE StaleDialTimer
  <2>1. /\ UNCHANGED <<setup, wasConnected, orphans, up>> /\ (Fails \/ UNCHANGED faults)
        /\ staleDials' \in 0..MaxTimers
    BY <1>3, TimerTypes DEF StaleDialTimer
  <2>2. faults' \in 0..MaxFaults
    BY <2>1, Faults
  <2>3. CASE stream' = "none" /\ UNCHANGED <<pool, loop, index, closeEvent, target>>
    BY <2>1, <2>2, <2>3, TimerTypes, PoolAlone
  <2>4. CASE DialTimerError
    BY <2>1, <2>2, <2>4, DialTimerErrorPools
  <2>5. QED BY <1>3, <2>3, <2>4 DEF StaleDialTimer
<1>4. ASSUME NEW s \in Names, Rest(s) PROVE PInv'
  <2>1. /\ server' = [server EXCEPT ![s].rested = TRUE]
        /\ UNCHANGED <<setup, servers, firstSelect, current, loop, index, wasConnected, stream,
                       staleDials, orphans, up, faults, target>>
    BY <1>4 DEF Rest, timers
  <2>2. server' \in ServerTypes
    BY <2>1, CountZero, TRUE \in BOOLEAN, ServerChange DEF PInv, PoolTypes
  <2>3. PoolTypes'
    BY <2>1, <2>2 DEF PInv, PoolTypes, setup
  <2>4. FirstInPool' /\ StreamOfCurrent' /\ KeepsAServer'
    BY <2>1 DEF PInv, FirstInPool, StreamOfCurrent, KeepsAServer, setup
  <2>5. QED BY <2>3, <2>4 DEF PInv
<1>5. QED BY <1>1, <1>2, <1>3, <1>4

LEMMA PNext == LInv /\ PInv /\ [Next]_vars => PInv'
<1> SUFFICES ASSUME LInv, PInv, [Next]_vars PROVE PInv'
  OBVIOUS
<1>1. CASE Close
  <2>1. UNCHANGED <<setup, pool, loop, index, wasConnected, timers, up, faults, target>>
        /\ stream' = "none"
    BY <1>1 DEF Close, CloseStream
  <2>2. QED BY <2>1, Faults, TimerTypes, PoolAlone DEF timers
<1>2. CASE Crash
  <2>1. /\ UNCHANGED <<setup, pool, loop, index, wasConnected, stream, timers, target>>
        /\ up' \subseteq up
    BY <1>2 DEF Crash
  <2>2. faults' \in 0..MaxFaults
    BY <1>2, LifecycleAssumption DEF Crash, PInv, PoolTypes
  <2>3. QED BY <2>1, <2>2, TimerTypes, PoolAlone DEF timers
<1>3. CASE UNCHANGED vars
  BY <1>3, Faults, TimerTypes, PoolAlone DEF vars, timers
<1>4. QED
  BY <1>1, <1>2, <1>3, ConnectingPools, HandshakingPools, SocketPools, TimerPools
     DEF Next, Timers

LEMMA PInvariance == Spec => [](LInv /\ PInv)
  BY LInit, LNext, PInit, PNext, PTL DEF Spec

-----------------------------------------------------------------------------
(* Theorems                                                                 *)

\* The types of the state: no server is in the pool twice, the index of the
\* loop is one of it, and no timer is counted below none.
THEOREM LifecycleTypes == Spec => []TypeOK
<1>1. LInv /\ PInv => TypeOK
  BY DEF LInv, FlagTypes, ControlTypes, PInv, PoolTypes, Pooled, ServerTypes, TypeOK
<1>2. QED BY <1>1, PInvariance, PTL

\* A stream belongs to the current server, which is in the pool: what a
\* handshake comes to is credited to the server it was made with
\* (selectServer, connectCB, processServerUpdate, removeCurrentServer).
THEOREM OfCurrent == Spec => []StreamOfCurrent
<1>1. PInv => StreamOfCurrent
  BY DEF PInv
<1>2. QED BY <1>1, PInvariance, PTL

\* A client that was connected and may try for ever never closes by itself
\* (handlers.error, removeServer, processServerUpdate, scheduleReconnect).
THEOREM StaysOpen == Spec => NeverGivesUp
<1>1. LInv /\ PInv /\ [Next]_vars =>
        [wasConnected /\ ~closed /\ options.reconnect
         /\ options.maxReconnectAttempts = -1 => closes' = closes]_vars
  <2> SUFFICES ASSUME LInv, PInv, Next, wasConnected, ~closed, options.reconnect,
                      options.maxReconnectAttempts = -1
               PROVE  closes' = closes
    OBVIOUS
  <2>1. CASE Socket \/ RetryTimer
    BY <2>1, SocketPools
  <2>2. CASE Connecting \/ Handshaking \/ Close \/ Crash
    BY <2>2 DEF Connecting, ConnectStart, DialRejected, DialOk, Handshaking, ReceiveInfo,
       HandshakePong, ProcessErr, Close, Crash
  <2>3. CASE HandshakeTimer \/ DialTimer \/ StaleDialTimer \/ \E s \in Names : Rest(s)
    BY <2>3 DEF HandshakeTimer, DialTimer, StaleDialTimer, Rest
  <2>4. QED BY <2>1, <2>2, <2>3 DEF Next, Timers
<1>2. QED BY <1>1, PInvariance, PTL DEF Spec, NeverGivesUp
=============================================================================
