------------------------ MODULE SubscriptionsProofs ------------------------
(* Theorems about Subscriptions, for every value of its constants.          *)
EXTENDS Subscriptions, QueueLemmas

SubRecords == [received : Nat, max : Nat, draining : BOOLEAN, timer : BOOLEAN]

\* The types that the limits and the timers need.
SubsOK ==
    /\ sub \in [Sids -> SubRecords]
    /\ sidCounter \in 0..MaxSubs
    /\ table \subseteq Sids

\* BelowMax and TimersOfLiveSubs as a fact about any table and any fields.
Sound(live, fields) ==
    /\ \A s \in live : fields[s].max = Unlimited \/ fields[s].received < fields[s].max
    /\ \A s \in Sids : fields[s].timer => s \in live

SubsInv == SubsOK /\ Sound(table, sub)

-----------------------------------------------------------------------------
\* Subscriptions.cancel() may be given subscriptions beyond their limit: only
\* the ones that stay in the table have to be below theirs.
LEMMA CancelSound ==
    ASSUME SubsOK, NEW S, NEW fields \in [Sids -> SubRecords], Cancel(S, fields),
           sidCounter' = sidCounter,
           \A s \in table \ S : fields[s].max = Unlimited
                                  \/ fields[s].received < fields[s].max,
           \A s \in Sids : fields[s].timer => s \in table
    PROVE  SubsInv'
<1>1. /\ table' = table \ S
      /\ \A s \in Sids : sub'[s] = [fields[s] EXCEPT !.timer = @ /\ s \notin S]
      /\ sub' = [s \in Sids |-> [fields[s] EXCEPT !.timer = @ /\ s \notin S]]
  BY DEF Cancel
<1>2. ASSUME NEW s \in Sids
      PROVE  /\ sub'[s] \in SubRecords
             /\ sub'[s].max = fields[s].max /\ sub'[s].received = fields[s].received
             /\ sub'[s].timer => fields[s].timer /\ s \notin S
  <2>1. fields[s] \in SubRecords
    OBVIOUS
  <2> QED
    BY <1>1, <2>1 DEF SubRecords
<1>3. sub' \in [Sids -> SubRecords]
  BY <1>1, <1>2
<1>4. table' \subseteq Sids
  BY <1>1 DEF SubsOK
<1>5. SubsOK'
  BY <1>3, <1>4 DEF SubsOK
<1>6. Sound(table', sub')
  BY <1>1, <1>2, <1>4 DEF Sound
<1> QED
  BY <1>5, <1>6 DEF SubsInv

\* unsubscribe(s, max): the new limit is above what was received, or the
\* subscription goes.
LEMMA UnsubscribedSound ==
    ASSUME SubsOK, NEW s \in table, NEW max \in Nat, NEW fields \in [Sids -> SubRecords],
           Unsubscribed(s, max, fields), sidCounter' = sidCounter,
           \A t \in table \ {s} : fields[t].max = Unlimited
                                    \/ fields[t].received < fields[t].max,
           \A t \in Sids : fields[t].timer => t \in table
    PROVE  SubsInv'
<1> DEFINE limited == [fields EXCEPT ![s].max = max]
           gone == IF max = Unlimited \/ fields[s].received >= max THEN {s} ELSE {}
<1>1. s \in Sids
  BY DEF SubsOK
<1>2. ASSUME NEW t \in Sids
      PROVE  /\ limited[t] \in SubRecords
             /\ limited[t].max = (IF t = s THEN max ELSE fields[t].max)
             /\ limited[t].received = fields[t].received
             /\ limited[t].timer = fields[t].timer
  <2>1. fields[t] \in SubRecords
    OBVIOUS
  <2> QED
    BY <1>1, <2>1 DEF SubRecords
<1>3. limited \in [Sids -> SubRecords]
  BY <1>2
<1>4. Cancel(gone, limited)
  BY DEF Unsubscribed
<1>5. table \subseteq Sids
  BY DEF SubsOK
<1>6. ASSUME NEW t \in table \ gone
      PROVE  limited[t].max = Unlimited \/ limited[t].received < limited[t].max
  <2>1. CASE t # s
    BY <1>2, <1>5, <2>1
  <2>2. CASE t = s
    <3>1. ~(fields[s].received >= max)
      BY <1>6, <2>2
    <3>2. fields[s].received \in Nat
      BY <1>1 DEF SubRecords
    <3> QED
      BY <1>1, <1>2, <2>2, <3>1, <3>2
  <2> QED
    BY <2>1, <2>2
<1>7. \A t \in Sids : limited[t].timer => t \in table
  BY <1>2
<1> HIDE DEF limited, gone
<1> QED
  BY <1>3, <1>4, <1>6, <1>7, CancelSound

\* Steps that leave the table and the fields alone.
LEMMA SubsKept ==
    ASSUME SubsInv, UNCHANGED <<table, sub, sidCounter>>
    PROVE  SubsInv'
BY DEF SubsInv, SubsOK, Sound

\* Where connect() resolves there are no subscriptions.
LEMMA SubsInit == Init => SubsInv
BY SubscriptionsAssumption DEF Init, SubsInv, SubsOK, Sound, NewSub, SubRecords, Unlimited

\* The calls of the application.
LEMMA ApplicationSound == SubsInv /\ Application => SubsInv'
<1> SUFFICES ASSUME SubsInv, Application PROVE SubsInv'
  OBVIOUS
<1> USE DEF SubsInv
<1>1. ASSUME NEW max \in 0..MaxLimit, Subscribe(max) PROVE SubsInv'
  <2> DEFINE s == sidCounter + 1
  <2>1. s \in Sids /\ sidCounter' = s /\ s \in 0..MaxSubs
    BY <1>1, SubscriptionsAssumption DEF Subscribe, SubsOK, Sids
  <2>2. table' = table \cup {s} /\ sub' = [sub EXCEPT ![s] = NewSub(max)]
    BY <1>1 DEF Subscribe
  <2>3. max \in Nat /\ NewSub(max) \in SubRecords
        /\ NewSub(max).received = 0 /\ NewSub(max).max = max
        /\ NewSub(max).timer = FALSE
    BY SubscriptionsAssumption DEF NewSub, SubRecords
  <2> HIDE DEF s
  <2>4. SubsOK'
    BY <2>1, <2>2, <2>3 DEF SubsOK
  <2>5. \A t \in Sids : sub'[t] = IF t = s THEN NewSub(max) ELSE sub[t]
    BY <2>1, <2>2 DEF SubsOK
  <2>6. Sound(table', sub')
    BY <2>1, <2>2, <2>3, <2>5 DEF Sound, SubsOK, Unlimited
  <2> QED
    BY <2>4, <2>6
<1>2. ASSUME NEW s \in Sids, NEW max \in 0..MaxLimit, Unsubscribe(s, max) PROVE SubsInv'
  <2>1. max \in Nat /\ s \in table /\ Unsubscribed(s, max, sub) /\ sidCounter' = sidCounter
    BY <1>2, SubscriptionsAssumption DEF Unsubscribe
  <2> QED
    BY <2>1, UnsubscribedSound DEF SubsOK, Sound
<1>3. ASSUME NEW s \in Sids, SetTimeout(s) \/ CancelTimeout(s) PROVE SubsInv'
  <2>1. PICK armed \in BOOLEAN : sub' = [sub EXCEPT ![s].timer = armed]
    BY <1>3 DEF SetTimeout, CancelTimeout
  <2>2. s \in table /\ UNCHANGED <<table, sidCounter>>
    BY <1>3 DEF SetTimeout, CancelTimeout
  <2>3. ASSUME NEW t \in Sids
        PROVE  /\ sub'[t] \in SubRecords
               /\ sub'[t].max = sub[t].max /\ sub'[t].received = sub[t].received
               /\ t # s => sub'[t].timer = sub[t].timer
    <3>1. sub[t] \in SubRecords
      BY DEF SubsOK
    <3> QED
      BY <2>1, <3>1 DEF SubsOK, SubRecords
  <2>4. sub' \in [Sids -> SubRecords]
    BY <2>1, <2>3 DEF SubsOK
  <2> QED
    BY <2>2, <2>3, <2>4 DEF SubsOK, Sound
<1>4. ASSUME NEW S, DrainOf(S), UNCHANGED <<table, sidCounter>> PROVE SubsInv'
  <2>1. sub' = [s \in Sids |-> [sub[s] EXCEPT !.draining = @ \/ s \in S]]
    BY <1>4 DEF DrainOf
  <2>2. ASSUME NEW t \in Sids
        PROVE  /\ sub'[t] \in SubRecords
               /\ sub'[t].max = sub[t].max /\ sub'[t].received = sub[t].received
               /\ sub'[t].timer = sub[t].timer
    <3>1. sub[t] \in SubRecords
      BY DEF SubsOK
    <3> QED
      BY <2>1, <3>1 DEF SubRecords
  <2>3. sub' \in [Sids -> SubRecords]
    BY <2>1, <2>2
  <2> QED
    BY <1>4, <2>2, <2>3 DEF SubsOK, Sound
<1>5. CASE \E s \in Sids : DrainSubscription(s)
  BY <1>4, <1>5 DEF DrainSubscription
<1>6. CASE Drain
  BY <1>4, <1>6 DEF Drain
<1>7. CASE Close
  BY <1>7, CancelSound DEF Close, Closed, SubsOK, Sound
<1> QED
  BY <1>1, <1>2, <1>3, <1>5, <1>6, <1>7 DEF Application

\* What the client reads: a message counts, and the last one of a limit ends
\* the subscription; a PONG may end a drain or the client.
LEMMA ReadingSound == SubsInv /\ Reading => SubsInv'
<1> SUFFICES ASSUME SubsInv, Reading PROVE SubsInv'
  OBVIOUS
<1> USE DEF SubsInv
<1>1. CASE ReceiveInfo
  BY <1>1, SubsKept DEF ReceiveInfo, subs
<1>2. CASE ReceiveMsg
  <2>1. PICK s : ProcessMsg(s)
    BY <1>2 DEF ReceiveMsg
  <2>2. sidCounter' = sidCounter
    BY <1>2 DEF ReceiveMsg
  <2>3. CASE s \notin table
    BY <2>1, <2>2, <2>3, SubsKept DEF ProcessMsg
  <2>4. CASE s \in table
    <3> DEFINE counted == [sub EXCEPT ![s].received = @ + 1,
                           ![s].timer = @ /\ sub[s].max # Unlimited
                                          /\ sub[s].received + 1 < sub[s].max]
    <3>1. s \in Sids /\ sub[s] \in SubRecords
      BY <2>4 DEF SubsOK
    <3>2. ASSUME NEW t \in Sids
          PROVE  /\ counted[t] \in SubRecords
                 /\ t # s => counted[t] = sub[t]
                 /\ counted[t].max = sub[t].max
                 /\ counted[t].timer => sub[t].timer
      <4>1. sub[t] \in SubRecords
        BY DEF SubsOK
      <4>2. CASE t # s
        BY <3>1, <4>1, <4>2 DEF SubsOK
      <4>3. CASE t = s
        <5>1. counted[s] = [sub[s] EXCEPT !.received = sub[s].received + 1,
                              !.timer = /\ sub[s].timer
                                        /\ sub[s].max # Unlimited
                                        /\ sub[s].received + 1 < sub[s].max]
          BY <3>1 DEF SubsOK
        <5>2. PICK armed \in BOOLEAN :
                  /\ counted[s] = [sub[s] EXCEPT !.received = sub[s].received + 1,
                                                 !.timer = armed]
                  /\ armed => sub[s].timer
          BY <5>1
        <5> HIDE DEF counted
        <5>3. /\ sub[s].received \in Nat /\ sub[s].max \in Nat
              /\ sub[s].draining \in BOOLEAN
          BY <3>1 DEF SubRecords
        <5>4. counted[s] = [received |-> sub[s].received + 1, max |-> sub[s].max,
                            draining |-> sub[s].draining, timer |-> armed]
          BY <3>1, <5>2 DEF SubRecords
        <5>5. counted[s] \in SubRecords /\ counted[s].max = sub[s].max
          BY <5>3, <5>4 DEF SubRecords
        <5>6. counted[s].timer => sub[s].timer
          BY <5>2, <5>4
        <5> QED
          BY <4>3, <5>5, <5>6
      <4> QED
        BY <4>2, <4>3
    <3>3. counted \in [Sids -> SubRecords]
      BY <3>2 DEF SubsOK
    <3>4. /\ \A t \in table \ {s} : counted[t].max = Unlimited
                                      \/ counted[t].received < counted[t].max
          /\ \A t \in Sids : counted[t].timer => t \in table
      BY <3>2 DEF Sound, SubsOK
    <3>5. \/ ReachedMax(counted, s) /\ Unsubscribed(s, Unlimited, counted)
          \/ ~ReachedMax(counted, s) /\ sub' = counted /\ UNCHANGED table
      BY <2>1, <2>4 DEF ProcessMsg
    <3>6. Unlimited \in Nat
      BY DEF Unlimited
    <3> HIDE DEF counted
    <3>7. CASE Unsubscribed(s, Unlimited, counted)
      BY <2>2, <2>4, <3>3, <3>4, <3>6, <3>7, UnsubscribedSound
    <3>8. CASE ~ReachedMax(counted, s) /\ sub' = counted /\ UNCHANGED table
      <4>1. counted[s].max = Unlimited \/ counted[s].received < counted[s].max
        <5>1. counted[s].max \in Nat /\ counted[s].received \in Nat
          BY <3>1, <3>2 DEF SubRecords
        <5>2. ~(counted[s].max # Unlimited /\ counted[s].received >= counted[s].max)
          BY <3>8 DEF ReachedMax
        <5> QED
          BY <5>1, <5>2
      <4> QED
        BY <2>2, <3>3, <3>4, <3>8, <4>1 DEF SubsOK, Sound
    <3> QED
      BY <3>5, <3>7, <3>8
  <2> QED
    BY <2>3, <2>4
<1>3. CASE ReceivePong
  <2>1. CASE HandshakeDone
    BY <2>1, SubsKept DEF HandshakeDone, subs
  <2>2. ASSUME NEW s, SubscriptionDrained(s) PROVE SubsInv'
    BY <2>2, CancelSound DEF SubscriptionDrained, SubsOK, Sound
  <2>3. CASE Closed
    BY <2>3, CancelSound DEF Closed, SubsOK, Sound
  <2> QED
    BY <1>3, <2>1, <2>2, <2>3 DEF ReceivePong
<1> QED
  BY <1>1, <1>2, <1>3 DEF Reading

\* Every step keeps the limits and the timers.
LEMMA SubsNext == SubsInv /\ [Next]_vars => SubsInv'
<1> SUFFICES ASSUME SubsInv, [Next]_vars PROVE SubsInv'
  OBVIOUS
<1>1. CASE Application
  BY <1>1, ApplicationSound
<1>2. CASE Reading
  BY <1>2, ReadingSound
<1>3. ASSUME NEW s \in Sids, Timeout(s) PROVE SubsInv'
  <2>1. s \in table /\ Unsubscribed(s, Unlimited, sub) /\ sidCounter' = sidCounter
    BY <1>3 DEF Timeout, SubsInv, Sound
  <2> QED
    BY <2>1, UnsubscribedSound DEF SubsInv, SubsOK, Sound, Unlimited
<1>4. CASE DrainFlush
  BY <1>4, SubsKept DEF DrainFlush
<1>5. CASE FlushPending \/ Lose \/ Redial \/ DialOk \/ DialFailed \/ ServerRead
           \/ \E s \in Sids : ServerSend(s)
  BY <1>5, SubsKept DEF FlushPending, Lose, Redial, DialOk, DialFailed, ServerRead,
     ServerSend, subs
<1>6. CASE UNCHANGED vars
  BY <1>6, SubsKept DEF vars, subs
<1> QED
  BY <1>1, <1>2, <1>3, <1>4, <1>5, <1>6 DEF Next

\* No subscription outlives its limit, over any number of calls, messages and
\* reconnects (BelowMax): processMsg() and unsubscribe() between them cancel
\* it with its last message.
THEOREM LimitsKept == Spec => []BelowMax
<1>1. SubsInv => BelowMax
  BY DEF SubsInv, Sound, BelowMax
<1> QED
  BY <1>1, SubsInit, SubsNext, PTL DEF Spec

\* No timer outlives its subscription (TimersOfLiveSubs): whichever of
\* unsubscribe(), the limit, a timeout, a drain or close() ends it.
THEOREM NoStrayTimers == Spec => []TimersOfLiveSubs
<1>1. SubsInv => TimersOfLiveSubs
  BY DEF SubsInv, Sound, TimersOfLiveSubs
<1> QED
  BY <1>1, SubsInit, SubsNext, PTL DEF Spec

-----------------------------------------------------------------------------
(* What is on the wire                                                      *)

Callbacks == Sids \cup {Handshake, ConnectionDrain}

WireTypes ==
    /\ outbound \in Seq(Commands) /\ toServer \in Seq(Commands)
    /\ toClient \in Seq(Replies) /\ pongs \in Seq(Callbacks)
    /\ serverSubs \subseteq Sids
    /\ sent \in [Sids -> Nat] /\ limit \in [Sids -> 0..MaxLimit]
    /\ \A s \in Sids : sub[s].max \in 0..MaxLimit

OtherTypes ==
    /\ draining \in BOOLEAN /\ waiting \subseteq Sids /\ noMorePublishing \in BOOLEAN
    /\ conn \in {"down", "dialing", "tcp", "info", "ready", "closed"}
    /\ infoReceived \in BOOLEAN
    /\ calls \in 0..MaxCalls /\ messages \in 0..MaxMessages
    /\ epoch \in 1..MaxFaults + 1
    /\ raised \subseteq Sids /\ drained \subseteq Sids
    /\ drainedOn \in [Sids -> 0..MaxFaults + 1]

\* The messages for s that the client has not read.
Unread(s) == Count(toClient, Msg(s))

\* What the client has received and the server has sent, it has sent.
Numbers ==
    \A s \in Sids : sub[s].received + Unread(s) <= messages /\ sent[s] <= messages

\* The commands that the server has still to read.
Line == Cat(toServer, outbound)
Issued == ToSet(toServer) \cup ToSet(outbound)

\* Nothing is about a subscription not yet made.
Known ==
    /\ serverSubs \subseteq 1..sidCounter
    /\ \A c \in Issued : c.sid \in Sids => c.sid <= sidCounter

\* A subscription whose callback waits for its PONG is draining.
Awaited ==
    \A i \in 1..Len(pongs) :
        pongs[i] \in Sids => pongs[i] <= sidCounter /\ sub[pongs[i]].draining

\* Nothing is flushed before INFO, and nothing is on a connection that is gone.
Connection ==
    /\ conn \in {"dialing", "tcp"} => ~infoReceived
    /\ conn \in {"down", "dialing", "tcp", "closed"} =>
          toServer = << >> /\ toClient = << >> /\ serverSubs = {}
    /\ conn = "closed" => table = {} /\ outbound = << >>

\* A drain counts for the connection that it began on.
OnThis ==
    /\ \A s \in Sids : drainedOn[s] <= epoch
    /\ conn \in {"down", "dialing", "tcp", "info"} => \A s \in Sids : drainedOn[s] < epoch

\* Until the PONG of the handshake the client reads nothing else: it stands at
\* the head of what is sent to it, or its PING at the head of what it has sent.
Greeting ==
    /\ conn # "info" => Handshake \notin ToSet(pongs)
    /\ conn = "info" =>
        /\ pongs # << >> /\ Head(pongs) = Handshake /\ Handshake \notin ToSet(Tail(pongs))
        /\ \/ /\ toServer # << >> /\ Head(toServer) = PingCmd
              /\ toClient = << >> /\ serverSubs = {}
           \/ /\ toClient # << >> /\ Head(toClient) = Pong
              /\ \A s \in serverSubs : sent[s] <= Unread(s)

\* The last that q says of s is UNSUB.
Ended(q, s) ==
    \E p, r \in Seq(Commands), max \in 0..MaxLimit :
        Split(q, p, UnsubCmd(s, max), r) /\ SubCmd(s) \notin ToSet(r)

\* What is left on the server of a subscription that the client has cancelled
\* has a limit, or an UNSUB for it is on its way.
Forgotten ==
    \A s \in Sids \ (table \cup drained) :
        \/ Ended(outbound, s)
        \/ /\ SubCmd(s) \notin ToSet(outbound)
           /\ \/ Ended(toServer, s)
              \/ /\ SubCmd(s) \notin ToSet(toServer)
                 /\ s \in serverSubs => limit[s] # Unlimited

\* What the server counts for s, and what the client still waits for.
Served(s) == IF s \in serverSubs THEN sent[s] ELSE 0
Expected(s) == sub[s].max - (sub[s].received + Unread(s))

Live == {s \in table \ raised : ~sub[s].draining}

\* The server has s, or will have it, or has sent all of it; no limit it has or
\* will have is below what the client still waits for.
Supplied(s) ==
    /\ conn = "ready" =>
          \/ s \in serverSubs \/ SubCmd(s) \in Issued
          \/ sub[s].max # Unlimited /\ Expected(s) <= 0
    /\ conn # "down" =>
          \A max \in 0..MaxLimit : UnsubCmd(s, max) \in Issued =>
              /\ max # Unlimited /\ sub[s].max # Unlimited
              /\ max - Served(s) >= Expected(s)
    /\ s \in serverSubs =>
          /\ sent[s] <= sub[s].received + Unread(s)
          /\ limit[s] # Unlimited => sub[s].max # Unlimited /\ limit[s] - sent[s] >= Expected(s)

AllSupplied == \A s \in Live : Supplied(s)

\* As many callbacks as PONGs to come.
Matched ==
    conn \in {"dialing", "tcp", "info", "ready"} =>
        Len(pongs) = Count(toClient, Pong) + Count(Line, PingCmd)

\* The server neither has s nor will have it.
Muted(s) == s \notin serverSubs /\ SubCmd(s) \notin Issued

\* With n PONGs behind it, the PONG for the drain of s is still a PING: it
\* follows the UNSUB.
Coming(s, n) ==
    \E p, r \in Seq(Commands) :
        /\ Split(Line, p, PingCmd, r) /\ Count(r, PingCmd) = n
        /\ \/ Muted(s)
           \/ \E a, b \in Seq(Commands) :
                 Split(p, a, UnsubCmd(s, Unlimited), b) /\ SubCmd(s) \notin ToSet(b) \cup ToSet(r)

\* It is on its way to the client: it follows the messages for s.
Come(s, n) ==
    \E p, r \in Seq(Replies) :
        /\ Split(toClient, p, Pong, r) /\ Count(r, Pong) + Count(Line, PingCmd) = n
        /\ Muted(s) /\ Msg(s) \notin ToSet(r)

Flushed ==
    conn = "ready" =>
        \A k \in 1..Len(pongs), s \in Sids, n \in Nat :
            pongs[k] = s /\ Len(pongs) = n + k /\ drainedOn[s] = epoch =>
                Coming(s, n) \/ Come(s, n)

-----------------------------------------------------------------------------
(* Commands and replies                                                     *)

LEMMA CommandsAre ==
    /\ PingCmd \in Commands /\ PingCmd.op = "PING" /\ PingCmd.sid \notin Sids
    /\ \A s \in Sids : SubCmd(s) \in Commands /\ SubCmd(s).op = "SUB" /\ SubCmd(s).sid = s
    /\ \A s \in Sids, max \in 0..MaxLimit :
          /\ UnsubCmd(s, max) \in Commands /\ UnsubCmd(s, max).op = "UNSUB"
          /\ UnsubCmd(s, max).sid = s /\ UnsubCmd(s, max).max = max
    /\ \A c \in Commands :
          \/ c = PingCmd
          \/ c.op = "SUB" /\ c.sid \in Sids /\ c = SubCmd(c.sid)
          \/ /\ c.op = "UNSUB" /\ c.sid \in Sids /\ c.max \in 0..MaxLimit
             /\ c = UnsubCmd(c.sid, c.max)
<1>0. 0 \in 0..MaxLimit
  BY SubscriptionsAssumption
<1>1. PingCmd \in Commands /\ PingCmd.op = "PING" /\ PingCmd.sid \notin Sids
  BY DEF Commands, PingCmd, Sids
<1>2. ASSUME NEW s \in Sids, NEW max \in 0..MaxLimit
      PROVE  /\ UnsubCmd(s, max) \in Commands /\ UnsubCmd(s, max).op = "UNSUB"
             /\ UnsubCmd(s, max).sid = s /\ UnsubCmd(s, max).max = max
  <2>1. UnsubCmd(s, max) \in Commands
    BY DEF Commands
  <2> QED
    BY <2>1 DEF UnsubCmd
<1>3. ASSUME NEW s \in Sids
      PROVE  SubCmd(s) \in Commands /\ SubCmd(s).op = "SUB" /\ SubCmd(s).sid = s
  <2>1. SubCmd(s) \in Commands
    BY DEF Commands
  <2> QED
    BY <2>1 DEF SubCmd
<1>4. ASSUME NEW c \in Commands
      PROVE  \/ c = PingCmd
             \/ c.op = "SUB" /\ c.sid \in Sids /\ c = SubCmd(c.sid)
             \/ /\ c.op = "UNSUB" /\ c.sid \in Sids /\ c.max \in 0..MaxLimit
                /\ c = UnsubCmd(c.sid, c.max)
  <2>1. \/ c = PingCmd
        \/ \E s \in Sids : c = SubCmd(s)
        \/ \E s \in Sids, max \in 0..MaxLimit : c = UnsubCmd(s, max)
    BY DEF Commands
  <2> QED
    BY <1>2, <1>3, <2>1
<1> QED
  BY <1>1, <1>2, <1>3, <1>4

LEMMA RepliesAre ==
    /\ Pong \in Replies /\ Pong.op = "PONG"
    /\ \A s \in Sids : Msg(s) \in Replies /\ Msg(s).op = "MSG" /\ Msg(s).sid = s
    /\ \A m \in Replies : m = Pong \/ (m.sid \in Sids /\ m = Msg(m.sid))
<1>1. Pong \in Replies /\ Pong.op = "PONG"
  BY DEF Replies, Pong
<1>2. \A s \in Sids : Msg(s) \in Replies /\ Msg(s).op = "MSG" /\ Msg(s).sid = s
  BY DEF Replies, Msg
<1>3. \A m \in Replies : m = Pong \/ \E s \in Sids : m = Msg(s)
  BY Zenon DEF Replies
<1>4. \A m \in Replies : m = Pong \/ (m.sid \in Sids /\ m = Msg(m.sid))
  BY <1>2, <1>3, Zenon
<1> QED
  BY <1>1, <1>2, <1>4, Zenon

-----------------------------------------------------------------------------
(* What the steps of the client do                                          *)

\* Neither the connection nor the server.
Quiet == UNCHANGED <<conn, infoReceived, toServer, serverSubs, sent, limit, epoch, messages>>

\* The client queues the commands w.
Spoken(w) == w \in Seq(Commands) /\ outbound' = Cat(outbound, w) /\ Quiet

\* A step that leaves the fields of s that are not its timer alone.
Same(s) ==
    /\ sub'[s].received = sub[s].received /\ sub'[s].max = sub[s].max
    /\ sub'[s].draining = sub[s].draining

\* Subscriptions.cancel() keeps the fields.
LEMMA CancelKeeps ==
    ASSUME NEW S, NEW fields \in [Sids -> SubRecords], Cancel(S, fields)
    PROVE  /\ table' = table \ S
           /\ \A t \in Sids : /\ sub'[t].received = fields[t].received
                              /\ sub'[t].max = fields[t].max
                              /\ sub'[t].draining = fields[t].draining
<1>1. \A t \in Sids : sub'[t] = [fields[t] EXCEPT !.timer = @ /\ t \notin S]
  BY DEF Cancel
<1>2. ASSUME NEW t \in Sids
      PROVE  /\ sub'[t].received = fields[t].received
             /\ sub'[t].max = fields[t].max
             /\ sub'[t].draining = fields[t].draining
  <2>1. fields[t] \in SubRecords
    OBVIOUS
  <2> QED
    BY <1>1, <2>1 DEF SubRecords
<1> QED
  BY <1>2 DEF Cancel

\* What unsubscribe(s, max) leaves.
Limited(s, max, fields) ==
    /\ Spoken(<<UnsubCmd(s, max)>>)
    /\ table' \subseteq table /\ \A t \in table : t # s => t \in table'
    /\ max = Unlimited => s \notin table'
    /\ s \in table' => max # Unlimited /\ fields[s].received < max
    /\ \A t \in Sids : /\ sub'[t].received = fields[t].received
                       /\ sub'[t].max = IF t = s THEN max ELSE fields[t].max
                       /\ sub'[t].draining = fields[t].draining

LEMMA UnsubscribedDoes ==
    ASSUME NEW s \in Sids, NEW max \in 0..MaxLimit, NEW fields \in [Sids -> SubRecords],
           Unsubscribed(s, max, fields), Quiet
    PROVE  Limited(s, max, fields)
<1> DEFINE limited == [fields EXCEPT ![s].max = max]
           gone == IF max = Unlimited \/ fields[s].received >= max THEN {s} ELSE {}
<1>0. max \in Nat
  BY SubscriptionsAssumption
<1>1. ASSUME NEW t \in Sids
      PROVE  /\ limited[t] \in SubRecords
             /\ limited[t].received = fields[t].received
             /\ limited[t].max = IF t = s THEN max ELSE fields[t].max
             /\ limited[t].draining = fields[t].draining
  <2>1. fields[t] \in SubRecords
    OBVIOUS
  <2> QED
    BY <1>0, <2>1 DEF SubRecords
<1>2. limited \in [Sids -> SubRecords]
  BY <1>1
<1>3. Cancel(gone, limited) /\ SendCommands(<<UnsubCmd(s, max)>>)
  BY DEF Unsubscribed
<1>4. fields[s].received \in Nat
  BY DEF SubRecords
<1>5. Spoken(<<UnsubCmd(s, max)>>)
  <2>1. UnsubCmd(s, max) \in Commands
    BY CommandsAre
  <2> QED
    BY <1>3, <2>1, OneIs DEF Spoken, SendCommands, Cat
<1>6. /\ gone \subseteq {s} /\ (max = Unlimited => s \in gone)
      /\ s \notin gone => max # Unlimited /\ fields[s].received < max
  BY <1>0, <1>4
<1> HIDE DEF limited, gone
<1>7. /\ table' = table \ gone
      /\ \A t \in Sids : /\ sub'[t].received = limited[t].received
                         /\ sub'[t].max = limited[t].max
                         /\ sub'[t].draining = limited[t].draining
  BY <1>2, <1>3, CancelKeeps
<1> QED
  BY <1>1, <1>5, <1>6, <1>7 DEF Limited

\* The types, and that nothing is in the table before it is made.
TypesInv == SubsInv /\ WireTypes /\ OtherTypes /\ Numbers /\ table \subseteq 1..sidCounter

LEMMA SidsAre ==
    ASSUME TypesInv
    PROVE  /\ table \subseteq Sids /\ 1..sidCounter \subseteq Sids /\ sidCounter \in Nat
           /\ \A s \in Sids : s \in Nat \ {0} /\ s # Handshake /\ s # ConnectionDrain
BY SubscriptionsAssumption DEF TypesInv, OtherTypes, SubsInv, SubsOK, Sids, Handshake,
   ConnectionDrain

\* subscribe(max) with the sid n.
Subscribed(n, max, w) ==
    /\ n = sidCounter + 1 /\ n \in Sids /\ sidCounter' = n /\ n \notin table
    /\ Spoken(w) /\ table' = table \cup {n}
    /\ ToSet(w) \subseteq {SubCmd(n), UnsubCmd(n, max)} /\ SubCmd(n) \in ToSet(w)
    /\ UnsubCmd(n, max) \in ToSet(w) => max # Unlimited
    /\ Count(w, PingCmd) = 0
    /\ sub'[n].received = 0 /\ sub'[n].max = max /\ sub'[n].draining = FALSE
    /\ \A t \in Sids : t # n => Same(t)

LEMMA SubscribeDoes ==
    ASSUME TypesInv, NEW max \in 0..MaxLimit, Subscribe(max)
    PROVE  /\ \E n, w : Subscribed(n, max, w)
           /\ UNCHANGED <<toClient, pongs, raised, drained, drainedOn>>
<1>1. PICK n : n = sidCounter + 1
  OBVIOUS
<1>2. /\ sidCounter' = n /\ table' = table \cup {n}
      /\ sub' = [sub EXCEPT ![n] = NewSub(max)]
      /\ SendCommands(IF max = Unlimited THEN <<SubCmd(n)>>
                      ELSE <<SubCmd(n), UnsubCmd(n, max)>>)
  BY <1>1 DEF Subscribe
<1>3. n \in Sids /\ n \notin table
  <2>1. sidCounter < MaxSubs
    BY DEF Subscribe
  <2> QED
    BY <1>1, <2>1, SubscriptionsAssumption, SidsAre DEF Sids, TypesInv
<1>4. Quiet /\ UNCHANGED <<toClient, pongs, raised, drained, drainedOn>>
  BY DEF Subscribe, Quiet, server
<1>5. /\ sub'[n].received = 0 /\ sub'[n].max = max /\ sub'[n].draining = FALSE
      /\ \A t \in Sids : t # n => Same(t)
  BY <1>2, <1>3 DEF TypesInv, SubsInv, SubsOK, NewSub, Same
<1>6. SubCmd(n) \in Commands /\ UnsubCmd(n, max) \in Commands
      /\ SubCmd(n) # PingCmd /\ UnsubCmd(n, max) # PingCmd /\ SubCmd(n) # UnsubCmd(n, max)
  <2>1. /\ PingCmd.op = "PING" /\ SubCmd(n) \in Commands /\ SubCmd(n).op = "SUB"
        /\ UnsubCmd(n, max) \in Commands /\ UnsubCmd(n, max).op = "UNSUB"
    BY <1>3, CommandsAre
  <2> QED
    BY <2>1
<1>7. \E w : /\ Spoken(w)
             /\ ToSet(w) \subseteq {SubCmd(n), UnsubCmd(n, max)} /\ SubCmd(n) \in ToSet(w)
             /\ UnsubCmd(n, max) \in ToSet(w) => max # Unlimited
             /\ Count(w, PingCmd) = 0
  <2>1. CASE max = Unlimited
    <3>1. PICK w : w = <<SubCmd(n)>>
      OBVIOUS
    <3>2. Spoken(w)
      BY <1>2, <1>4, <1>6, <2>1, <3>1, OneIs DEF Spoken, SendCommands, Cat
    <3>3. ToSet(w) = {SubCmd(n)} /\ Count(w, PingCmd) = 0
      <4>1. PICK x \in Commands : x = SubCmd(n)
        BY <1>6
      <4>2. ToSet(<<x>>) = {x} /\ Count(<<x>>, PingCmd) = IF x = PingCmd THEN 1 ELSE 0
        BY OneIs
      <4> QED
        BY <1>6, <3>1, <4>1, <4>2
    <3> QED
      BY <1>6, <3>2, <3>3
  <2>2. CASE max # Unlimited
    <3>1. PICK x \in Commands, y \in Commands : x = SubCmd(n) /\ y = UnsubCmd(n, max)
      BY <1>6
    <3>2. PICK w : Two(w, x, y)
      BY DEF Two
    <3>3. outbound' = Cat(outbound, w)
      BY <1>2, <2>2, <3>1, <3>2 DEF SendCommands, Cat, Two
    <3>4. /\ w \in Seq(Commands) /\ ToSet(w) = {x, y}
          /\ Count(w, PingCmd) = 0
      <4>1. x # PingCmd /\ y # PingCmd
        BY <1>6, <3>1
      <4>2. /\ w \in Seq(Commands) /\ \A z : z \in ToSet(w) <=> z = x \/ z = y
            /\ Count(w, PingCmd) = Count(<<x>>, PingCmd) + Count(<<y>>, PingCmd)
        BY <3>2, TwoAre
      <4>3. Count(<<x>>, PingCmd) = 0 /\ Count(<<y>>, PingCmd) = 0
        BY <4>1, OneIs
      <4> QED
        BY <4>2, <4>3
    <3> QED
      BY <1>4, <1>6, <2>2, <3>1, <3>3, <3>4 DEF Spoken
  <2> QED
    BY <2>1, <2>2
<1> QED
  BY <1>1, <1>2, <1>3, <1>4, <1>5, <1>7 DEF Subscribed

\* A subscription is unsubscribed, by a call or by its timeout.
LEMMA UnsubscribeDoes ==
    ASSUME TypesInv, NEW s \in Sids, NEW max \in 0..MaxLimit, Unsubscribe(s, max)
    PROVE  /\ s \in table /\ Limited(s, max, sub) /\ sidCounter' = sidCounter
           /\ raised' = IF sub[s].max # Unlimited /\ max > sub[s].max
                        THEN raised \cup {s} ELSE raised
           /\ UNCHANGED <<toClient, pongs, drained, drainedOn>>
<1>1. Unsubscribed(s, max, sub) /\ Quiet
  BY DEF Unsubscribe, Quiet, server
<1>2. Limited(s, max, sub)
  BY <1>1, UnsubscribedDoes DEF TypesInv, SubsInv, SubsOK
<1> QED
  BY <1>2 DEF Unsubscribe, server

LEMMA TimeoutDoes ==
    ASSUME TypesInv, NEW s \in Sids, Timeout(s)
    PROVE  /\ s \in table /\ Limited(s, Unlimited, sub) /\ sidCounter' = sidCounter
           /\ UNCHANGED <<toClient, pongs, raised, drained, drainedOn>>
<1>1. s \in table /\ Unlimited \in 0..MaxLimit
  BY SubscriptionsAssumption DEF Timeout, TypesInv, SubsInv, Sound, Unlimited
<1>2. Unsubscribed(s, Unlimited, sub) /\ Quiet
  BY <1>1 DEF Timeout, Quiet, server, history
<1>3. Limited(s, Unlimited, sub)
  BY <1>1, <1>2, UnsubscribedDoes DEF TypesInv, SubsInv, SubsOK
<1> QED
  BY <1>1, <1>3 DEF Timeout, server, history

LEMMA TimersDo ==
    ASSUME TypesInv, NEW s \in Sids, SetTimeout(s) \/ CancelTimeout(s)
    PROVE  /\ \A t \in Sids : Same(t)
           /\ UNCHANGED <<table, sidCounter, draining, waiting, noMorePublishing, client, server>>
           /\ UNCHANGED <<messages, epoch, raised, drained, drainedOn>>
<1>1. PICK armed \in BOOLEAN : sub' = [sub EXCEPT ![s].timer = armed]
  BY DEF SetTimeout, CancelTimeout
<1>2. ASSUME NEW t \in Sids
      PROVE  Same(t)
  <2>1. sub[t] \in SubRecords
    BY DEF TypesInv, SubsInv, SubsOK
  <2> QED
    BY <1>1, <2>1 DEF SubRecords, TypesInv, SubsInv, SubsOK, Same
<1> QED
  BY <1>2 DEF SetTimeout, CancelTimeout

-----------------------------------------------------------------------------
(* The commands of a drain                                                  *)

\* D and O are the commands and the callbacks of drains of some of S: as many
\* PINGs as callbacks, and each PING follows the UNSUB of its callback.
Drains(S, D, O) ==
    /\ D \in Seq(Commands) /\ O \in Seq(Sids \cap S)
    /\ \A c \in ToSet(D) : c = PingCmd \/ \E s \in S : c = UnsubCmd(s, Unlimited)
    /\ Count(D, PingCmd) = Len(O)
    /\ \A k \in 1..Len(O) : \E p, r \in Seq(Commands) :
          /\ Split(D, p, PingCmd, r) /\ Count(r, PingCmd) = Len(O) - k
          /\ UnsubCmd(O[k], Unlimited) \in ToSet(p)

LEMMA DrainsNone == \A S : Drains(S, << >>, << >>)
<1>1. << >> \in Seq(Commands) /\ Len(<< >>) = 0 /\ ToSet(<< >>) = {}
  BY DEF ToSet
<1>2. Count(<< >>, PingCmd) = 0
  BY CountNil
<1>3. \A S : << >> \in Seq(Sids \cap S)
  OBVIOUS
<1> QED
  BY <1>1, <1>2, <1>3 DEF Drains

\* UNSUB s and a PING more.
LEMMA DrainsMore ==
    ASSUME NEW S \in SUBSET Sids, NEW D, NEW O, Drains(S, D, O), NEW s \in S, NEW w,
           Two(w, UnsubCmd(s, Unlimited), PingCmd)
    PROVE  Drains(S, Cat(D, w), Append(O, s))
<1>1. Unlimited \in 0..MaxLimit
  BY SubscriptionsAssumption DEF Unlimited
<1>2. PICK u \in Commands, g \in Commands :
         u = UnsubCmd(s, Unlimited) /\ g = PingCmd /\ u # g
  <2>1. /\ PingCmd \in Commands /\ PingCmd.op = "PING"
        /\ UnsubCmd(s, Unlimited) \in Commands /\ UnsubCmd(s, Unlimited).op = "UNSUB"
    BY <1>1, CommandsAre
  <2> QED
    BY <2>1
<1>3. D \in Seq(Commands) /\ O \in Seq(Sids \cap S)
  BY DEF Drains
<1>4. /\ w \in Seq(Commands) /\ \A c : c \in ToSet(w) <=> c = u \/ c = g
      /\ Count(w, g) = Count(<<u>>, g) + Count(<<g>>, g)
  BY <1>2, TwoAre
<1>5. Count(w, g) = 1
  <2>1. Count(<<u>>, g) = 0 /\ Count(<<g>>, g) = 1
    BY <1>2, OneIs
  <2> QED
    BY <1>4, <2>1
<1>6. Cat(D, w) \in Seq(Commands) /\ ToSet(Cat(D, w)) = ToSet(D) \cup ToSet(w)
  BY <1>3, <1>4, CatSeq, InConcat DEF Cat
<1>7. Count(Cat(D, w), g) = Count(D, g) + 1
  BY <1>3, <1>4, <1>5, CountCat
<1>8. PICK n \in Nat : n = Len(O)
  BY <1>3
<1>9. PICK O2 : O2 = Append(O, s)
  OBVIOUS
<1>10. /\ O2 \in Seq(Sids \cap S) /\ Len(O2) = n + 1 /\ O2[n + 1] = s
       /\ \A k \in 1..n : O2[k] = O[k]
  BY <1>3, <1>8, <1>9
<1>11. \A c \in ToSet(Cat(D, w)) : c = PingCmd \/ \E t \in S : c = UnsubCmd(t, Unlimited)
  BY <1>2, <1>4, <1>6, Zenon DEF Drains
<1>12. ASSUME NEW k \in 1..n
       PROVE  \E p, r \in Seq(Commands) :
                 /\ Split(Cat(D, w), p, g, r) /\ Count(r, g) = n + 1 - k
                 /\ UnsubCmd(O2[k], Unlimited) \in ToSet(p)
  <2>1. PICK p \in Seq(Commands), r \in Seq(Commands) :
           /\ Split(D, p, g, r) /\ Count(r, g) = n - k
           /\ UnsubCmd(O[k], Unlimited) \in ToSet(p)
    BY <1>2, <1>8 DEF Drains
  <2>2. Split(Cat(D, w), p, g, Cat(r, w)) /\ Cat(r, w) \in Seq(Commands)
    BY <1>4, <2>1, SplitMore
  <2>3. Count(Cat(r, w), g) = Count(r, g) + 1
    BY <1>4, <1>5, CountCat
  <2>4. Count(Cat(r, w), g) = n + 1 - k
    BY <2>1, <2>3
  <2> QED
    BY <1>10, <2>1, <2>2, <2>4
<1>13. \E p, r \in Seq(Commands) :
          /\ Split(Cat(D, w), p, g, r) /\ Count(r, g) = 0
          /\ UnsubCmd(O2[n + 1], Unlimited) \in ToSet(p)
  <2>1. PICK p : p = Append(D, u)
    OBVIOUS
  <2>2. p \in Seq(Commands) /\ u \in ToSet(p)
    BY <1>3, <2>1, InAppend
  <2>3. Cat(D, w) = Append(p, g)
    BY <1>2, <1>3, <2>1 DEF Cat, Two
  <2>4. Split(Append(p, g), p, g, << >>)
    BY <2>2, SplitLast
  <2>5. Count(<< >>, g) = 0 /\ << >> \in Seq(Commands)
    BY CountNil
  <2> QED
    BY <1>2, <1>10, <2>2, <2>3, <2>4, <2>5
<1>14. ASSUME NEW k \in 1..(n + 1)
       PROVE  \E p, r \in Seq(Commands) :
                 /\ Split(Cat(D, w), p, g, r) /\ Count(r, g) = n + 1 - k
                 /\ UnsubCmd(O2[k], Unlimited) \in ToSet(p)
  <2>1. k \in 1..n \/ (k = n + 1 /\ n + 1 - k = 0)
    OBVIOUS
  <2> QED
    BY <1>12, <1>13, <2>1
<1>15. Count(D, PingCmd) = n
  BY <1>8 DEF Drains
<1>16. Count(Cat(D, w), PingCmd) = Len(O2)
  BY <1>2, <1>7, <1>10, <1>15
<1>17. ASSUME NEW k \in 1..Len(O2)
       PROVE  \E p, r \in Seq(Commands) :
                 /\ Split(Cat(D, w), p, PingCmd, r) /\ Count(r, PingCmd) = Len(O2) - k
                 /\ UnsubCmd(O2[k], Unlimited) \in ToSet(p)
  <2>1. k \in 1..(n + 1) /\ Len(O2) = n + 1
    BY <1>10
  <2>2. PICK p \in Seq(Commands), r \in Seq(Commands) :
           /\ Split(Cat(D, w), p, g, r) /\ Count(r, g) = n + 1 - k
           /\ UnsubCmd(O2[k], Unlimited) \in ToSet(p)
    BY <1>14, <2>1
  <2> QED
    BY <1>2, <2>1, <2>2
<1>18. Drains(S, Cat(D, w), O2)
  BY <1>6, <1>10, <1>11, <1>16, <1>17, Zenon DEF Drains
<1> QED
  BY <1>9, <1>18

Sidlist(n) == [s \in 1..n |-> s]
Drainlist(n, S) ==
    [s \in 1..n |-> IF s \in S THEN <<UnsubCmd(s, Unlimited), PingCmd>> ELSE << >>]

LEMMA ListsGrow ==
    ASSUME NEW S \in SUBSET Sids, NEW n \in Nat, n + 1 \in 1..MaxSubs
    PROVE  /\ Sidlist(n) \in Seq(Sids) /\ n + 1 \in Sids
           /\ Sidlist(n + 1) = Append(Sidlist(n), n + 1)
           /\ Drainlist(n, S) \in Seq(Seq(Commands))
           /\ n + 1 \in S => \E w \in Seq(Commands) :
                 /\ Two(w, UnsubCmd(n + 1, Unlimited), PingCmd)
                 /\ Drainlist(n + 1, S) = Append(Drainlist(n, S), w)
           /\ n + 1 \notin S => Drainlist(n + 1, S) = Append(Drainlist(n, S), << >>)
<1>1. \A s \in 1..n : s \in Sids
  BY SubscriptionsAssumption DEF Sids
<1>2. n + 1 \in Sids
  BY DEF Sids
<1>3. Sidlist(n) \in Seq(Sids) /\ Sidlist(n + 1) = Append(Sidlist(n), n + 1)
  <2>1. Sidlist(n) \in [1..n -> Sids] /\ \A i \in 1..n : Sidlist(n)[i] = i
    BY <1>1 DEF Sidlist
  <2>2. PICK q \in Seq(Sids) : q = Sidlist(n) /\ Len(q) = n
    BY <2>1
  <2>3. PICK r : r = Append(q, n + 1)
    OBVIOUS
  <2>4. r \in Seq(Sids) /\ Len(r) = n + 1 /\ r[n + 1] = n + 1 /\ \A i \in 1..n : r[i] = q[i]
    BY <1>2, <2>2, <2>3
  <2>5. r \in OfLength(Sids, n + 1)
    BY <2>4, SeqOfLength
  <2>6. \A i \in 1..(n + 1) : r[i] = i
    <3>1. \A i \in 1..(n + 1) : i \in 1..n \/ i = n + 1
      OBVIOUS
    <3> QED
      BY <2>1, <2>2, <2>4, <3>1
  <2>7. r = [i \in 1..(n + 1) |-> i]
    BY <2>5, <2>6 DEF OfLength
  <2> QED
    BY <2>2, <2>3, <2>7, Zenon DEF Sidlist
<1>4. \A s \in S : \E w \in Seq(Commands) : Two(w, UnsubCmd(s, Unlimited), PingCmd)
  <2>1. Unlimited \in 0..MaxLimit
    BY SubscriptionsAssumption DEF Unlimited
  <2>2. \A s \in Sids : UnsubCmd(s, Unlimited) \in Commands /\ PingCmd \in Commands
    BY <2>1, CommandsAre
  <2>3. ASSUME NEW s \in S
        PROVE  \E w \in Seq(Commands) : Two(w, UnsubCmd(s, Unlimited), PingCmd)
    <3>1. <<UnsubCmd(s, Unlimited), PingCmd>> \in Seq(Commands)
      BY <2>2
    <3> QED
      BY <3>1 DEF Two
  <2> QED
    BY <2>3
<1> DEFINE E(s) == IF s \in S THEN <<UnsubCmd(s, Unlimited), PingCmd>> ELSE << >>
<1>5. \A s \in Sids : E(s) \in Seq(Commands)
  <2>1. << >> \in Seq(Commands)
    OBVIOUS
  <2> QED
    BY <1>4, <2>1, Zenon DEF Two
<1>6. /\ \A m \in Nat : Drainlist(m, S) = [s \in 1..m |-> E(s)]
  BY DEF Drainlist
<1>7. \A s \in S : Two(E(s), UnsubCmd(s, Unlimited), PingCmd)
  BY DEF Two
<1>8. \A s : s \notin S => E(s) = << >>
  OBVIOUS
<1> HIDE DEF E
<1>9. Drainlist(n, S) \in [1..n -> Seq(Commands)]
  BY <1>1, <1>5, <1>6
<1>10. Drainlist(n, S) \in Seq(Seq(Commands)) /\ Len(Drainlist(n, S)) = n
  BY <1>9
<1>11. Drainlist(n + 1, S) = Append(Drainlist(n, S), E(n + 1))
  <2>1. PICK x \in Seq(Commands), q \in Seq(Seq(Commands)) : x = E(n + 1) /\ q = Drainlist(n, S)
    BY <1>2, <1>5, <1>10
  <2>2. PICK r : r = Append(q, x)
    OBVIOUS
  <2>3. /\ r \in Seq(Seq(Commands)) /\ Len(r) = n + 1 /\ r[n + 1] = x
        /\ \A i \in 1..n : r[i] = q[i] /\ q[i] = E(i)
    BY <1>6, <1>10, <2>1, <2>2
  <2>4. Drainlist(n + 1, S) = [s \in 1..(n + 1) |-> E(s)]
    BY <1>6
  <2>5. r \in OfLength(Seq(Commands), n + 1)
    BY <2>3, SeqOfLength
  <2>6. \A i \in 1..(n + 1) : r[i] = E(i)
    <3>1. \A i \in 1..(n + 1) : i \in 1..n \/ i = n + 1
      OBVIOUS
    <3> QED
      BY <2>1, <2>3, <3>1
  <2>7. r = [i \in 1..(n + 1) |-> E(i)]
    BY <2>5, <2>6 DEF OfLength
  <2> QED
    BY <2>1, <2>2, <2>4, <2>7, Zenon
<1> QED
  BY <1>2, <1>3, <1>5, <1>7, <1>8, <1>10, <1>11

LEMMA DrainCommandsAre ==
    ASSUME NEW S \in SUBSET Sids
    PROVE  Drains(S, DrainCommands(S), Among([s \in Sids |-> s], S))
<1> DEFINE D(n) == FlattenSeq(Drainlist(n, S))
           O(n) == Among(Sidlist(n), S)
           T == {n \in Nat : n <= MaxSubs => Drains(S, D(n), O(n))}
<1>1. 0 \in T
  <2>1. Drainlist(0, S) = << >> /\ Sidlist(0) = << >>
    BY DEF Drainlist, Sidlist
  <2>2. D(0) = << >> /\ O(0) = << >>
    BY <2>1, FlattenEmpty, AmongOfEmpty, Zenon
  <2> QED
    BY <2>2, DrainsNone
<1>2. ASSUME NEW n \in Nat, n \in T
      PROVE  n + 1 \in T
  <2> SUFFICES ASSUME n + 1 <= MaxSubs
               PROVE  Drains(S, D(n + 1), O(n + 1))
    OBVIOUS
  <2>1. n + 1 \in 1..MaxSubs /\ Drains(S, D(n), O(n))
    BY <1>2, SubscriptionsAssumption
  <2>2. PICK d \in Seq(Seq(Commands)), l \in Seq(Sids), m \in Sids :
           d = Drainlist(n, S) /\ l = Sidlist(n) /\ m = n + 1
    BY <2>1, ListsGrow
  <2>3. /\ Sidlist(n + 1) = Append(l, m)
        /\ m \in S => \E w \in Seq(Commands) :
              Two(w, UnsubCmd(m, Unlimited), PingCmd) /\ Drainlist(n + 1, S) = Append(d, w)
        /\ m \notin S => Drainlist(n + 1, S) = Append(d, << >>)
    BY <2>1, <2>2, ListsGrow
  <2>4. Drains(S, FlattenSeq(d), Among(l, S))
    BY <2>1, <2>2
  <2>5. FlattenSeq(d) \in Seq(Commands)
    BY FlattenType
  <2>6. Among(Append(l, m), S) = IF m \in S THEN Append(Among(l, S), m) ELSE Among(l, S)
    BY AmongOfAppend
  <2>7. \A w \in Seq(Commands) : FlattenSeq(Append(d, w)) = Cat(FlattenSeq(d), w)
    BY FlattenAppend DEF Cat
  <2>8. CASE m \in S
    <3>1. PICK w \in Seq(Commands) :
             Two(w, UnsubCmd(m, Unlimited), PingCmd) /\ Drainlist(n + 1, S) = Append(d, w)
      BY <2>3, <2>8
    <3>2. Drains(S, Cat(FlattenSeq(d), w), Append(Among(l, S), m))
      BY <2>4, <2>8, <3>1, DrainsMore
    <3>3. D(n + 1) = Cat(FlattenSeq(d), w) /\ O(n + 1) = Append(Among(l, S), m)
      BY <2>3, <2>6, <2>7, <2>8, <3>1
    <3> QED
      BY <3>2, <3>3, Zenon
  <2>9. CASE m \notin S
    <3>1. << >> \in Seq(Commands)
      OBVIOUS
    <3>2. FlattenSeq(Append(d, << >>)) = Cat(FlattenSeq(d), << >>)
      BY <2>7, <3>1, Zenon
    <3>3. Cat(FlattenSeq(d), << >>) = FlattenSeq(d)
      BY <2>5, CatNil
    <3>4. D(n + 1) = FlattenSeq(d)
      BY <2>3, <2>9, <3>2, <3>3, Zenon
    <3>5. O(n + 1) = Among(l, S)
      BY <2>3, <2>6, <2>9
    <3> QED
      BY <2>4, <3>4, <3>5, Zenon
  <2> QED
    BY <2>8, <2>9
<1>3. Nat \subseteq T
  <2> HIDE DEF T
  <2> QED
    BY <1>1, <1>2, NatSetInduction
<1>4. Drains(S, D(MaxSubs), O(MaxSubs))
  BY <1>3, SubscriptionsAssumption
<1>5. Drainlist(MaxSubs, S) = [s \in Sids |-> IF s \in S THEN <<UnsubCmd(s, Unlimited), PingCmd>>
                                                       ELSE << >>]
      /\ Sidlist(MaxSubs) = [s \in Sids |-> s]
  BY DEF Drainlist, Sidlist, Sids
<1> QED
  BY <1>4, <1>5, Zenon DEF DrainCommands

\* The subscriptions S begin to drain.
Draining(S, D, O) ==
    /\ Drains(S, D, O) /\ Spoken(D) /\ pongs' = Cat(pongs, O)
    /\ \A t \in Sids : /\ sub'[t].received = sub[t].received /\ sub'[t].max = sub[t].max
                       /\ sub'[t].draining = (sub[t].draining \/ t \in S)
                       /\ t \in S /\ conn = "ready" => drainedOn'[t] = epoch
                       /\ ~(t \in S /\ conn = "ready") => drainedOn'[t] = drainedOn[t]

LEMMA DrainOfDoes ==
    ASSUME TypesInv, NEW S \in SUBSET Sids, DrainOf(S), Quiet
    PROVE  \E D, O : Draining(S, D, O)
<1>1. PICK D, O : D = DrainCommands(S) /\ O = Among([s \in Sids |-> s], S)
  OBVIOUS
<1>2. Drains(S, D, O)
  BY <1>1, DrainCommandsAre
<1>3. D \in Seq(Commands)
  BY <1>2 DEF Drains
<1>4. Spoken(D) /\ pongs' = Cat(pongs, O)
  BY <1>1, <1>3, Zenon DEF DrainOf, SendCommands, Spoken, Cat
<1>5. \A t \in Sids : sub'[t] = [sub[t] EXCEPT !.draining = @ \/ t \in S]
  BY DEF DrainOf
<1>6. ASSUME NEW t \in Sids
      PROVE  /\ sub'[t].received = sub[t].received /\ sub'[t].max = sub[t].max
             /\ sub'[t].draining = (sub[t].draining \/ t \in S)
  <2>1. sub[t] \in SubRecords
    BY DEF TypesInv, SubsInv, SubsOK
  <2> QED
    BY <1>5, <2>1 DEF SubRecords
<1>7. \A t \in Sids : /\ t \in S /\ conn = "ready" => drainedOn'[t] = epoch
                      /\ ~(t \in S /\ conn = "ready") => drainedOn'[t] = drainedOn[t]
  BY DEF DrainOf
<1> QED
  BY <1>2, <1>4, <1>6, <1>7 DEF Draining

\* drainSubscription() and drain().
LEMMA DrainDoes ==
    ASSUME TypesInv, (\E s \in Sids : DrainSubscription(s)) \/ Drain
    PROVE  /\ conn # "closed"
           /\ \E S, D, O : S \in SUBSET table /\ (\A s \in S : ~sub[s].draining) /\ Draining(S, D, O)
           /\ UNCHANGED <<table, sidCounter, noMorePublishing, toClient, raised, drained>>
<1>1. table \subseteq Sids
  BY SidsAre
<1>2. ASSUME NEW s \in Sids, DrainSubscription(s)
      PROVE  /\ conn # "closed"
             /\ \E S, D, O : S \in SUBSET table /\ (\A t \in S : ~sub[t].draining) /\ Draining(S, D, O)
             /\ UNCHANGED <<table, sidCounter, noMorePublishing, toClient, raised, drained>>
  <2>1. DrainOf({s}) /\ Quiet /\ {s} \in SUBSET Sids /\ s \in table /\ ~sub[s].draining
    BY <1>2 DEF DrainSubscription, Quiet, server
  <2>2. \E D, O : Draining({s}, D, O)
    BY <2>1, DrainOfDoes
  <2>3. {s} \in SUBSET table /\ \A t \in {s} : ~sub[t].draining
    BY <2>1
  <2>4. /\ conn # "closed"
        /\ UNCHANGED <<table, sidCounter, noMorePublishing, toClient, raised, drained>>
    BY <1>2 DEF DrainSubscription, Call, server
  <2> QED
    BY <2>2, <2>3, <2>4
<1>3. ASSUME Drain
      PROVE  /\ conn # "closed"
             /\ \E S, D, O : S \in SUBSET table /\ (\A t \in S : ~sub[t].draining) /\ Draining(S, D, O)
             /\ UNCHANGED <<table, sidCounter, noMorePublishing, toClient, raised, drained>>
  <2>1. PICK S : S = {s \in table : ~sub[s].draining}
    OBVIOUS
  <2>2. DrainOf(S) /\ Quiet /\ S \in SUBSET Sids
    BY <1>1, <1>3, <2>1 DEF Drain, Quiet, server
  <2>3. \E D, O : Draining(S, D, O)
    BY <2>2, DrainOfDoes
  <2>4. S \in SUBSET table /\ \A t \in S : ~sub[t].draining
    BY <2>1
  <2>5. /\ conn # "closed"
        /\ UNCHANGED <<table, sidCounter, noMorePublishing, toClient, raised, drained>>
    BY <1>3 DEF Drain, Call, server
  <2> QED
    BY <2>3, <2>4, <2>5
<1> QED
  BY <1>2, <1>3

-----------------------------------------------------------------------------
(* What reading a message does                                              *)

\* processMsg() for s: nobody subscribes to it; it counts; it is the last one.
Counted(s) ==
    /\ sub'[s].received = sub[s].received + 1 /\ sub'[s].draining = sub[s].draining
    /\ \A t \in Sids : t # s => Same(t)

Dropped(s) == s \notin table /\ Spoken(<< >>) /\ table' = table /\ \A t \in Sids : Same(t)
Delivered(s) ==
    /\ s \in table /\ Counted(s) /\ sub'[s].max = sub[s].max /\ Spoken(<< >>) /\ table' = table
LastOne(s) ==
    /\ s \in table /\ Counted(s) /\ Spoken(<<UnsubCmd(s, Unlimited)>>) /\ table' = table \ {s}
    /\ sub'[s].max = Unlimited

LEMMA ReceiveMsgDoes ==
    ASSUME TypesInv, ReceiveMsg
    PROVE  /\ \E s \in Sids : Head(toClient) = Msg(s) /\ (Dropped(s) \/ Delivered(s) \/ LastOne(s))
           /\ toClient # << >> /\ toClient' = Tail(toClient)
           /\ UNCHANGED <<sidCounter, pongs, raised, drained, drainedOn, noMorePublishing>>
<1>1. /\ toClient # << >> /\ toClient' = Tail(toClient)
      /\ UNCHANGED <<sidCounter, pongs, raised, drained, drainedOn, noMorePublishing>> /\ Quiet
  BY DEF ReceiveMsg, history, Quiet
<1>2. toClient \in Seq(Replies)
  BY DEF TypesInv, WireTypes
<1>3. Head(toClient) \in Replies /\ Head(toClient).op = "MSG"
  BY <1>1, <1>2 DEF ReceiveMsg
<1>4. PICK s \in Sids : Head(toClient) = Msg(s) /\ Head(toClient).sid = s
  BY <1>3, RepliesAre
<1>5. ProcessMsg(s)
  BY <1>4 DEF ReceiveMsg
<1>6. outbound \in Seq(Commands) /\ << >> \in Seq(Commands) /\ Cat(outbound, << >>) = outbound
  <2>1. outbound \in Seq(Commands)
    BY DEF TypesInv, WireTypes
  <2> QED
    BY <2>1, CatNil
<1>7. outbound' = outbound => Spoken(<< >>)
  BY <1>1, <1>6 DEF Spoken
<1>8. CASE s \notin table
  BY <1>1, <1>4, <1>5, <1>7, <1>8 DEF ProcessMsg, Dropped, Same
<1>9. CASE s \in table
  <2>1. sub[s] \in SubRecords /\ sub \in [Sids -> SubRecords]
    BY DEF TypesInv, SubsInv, SubsOK
  <2>2. PICK f : f = [sub EXCEPT ![s].received = @ + 1,
                           ![s].timer = @ /\ sub[s].max # Unlimited
                                          /\ sub[s].received + 1 < sub[s].max]
    OBVIOUS
  <2>3. \/ ReachedMax(f, s) /\ Unsubscribed(s, Unlimited, f)
        \/ sub' = f /\ UNCHANGED <<table, outbound>>
    BY <1>5, <1>9, <2>2 DEF ProcessMsg
  <2>4. ASSUME NEW t \in Sids, t # s
        PROVE  f[t] = sub[t] /\ f[t] \in SubRecords
    BY <2>1, <2>2, <2>4
  <2>5. /\ f[s] \in SubRecords /\ f[s].received = sub[s].received + 1
        /\ f[s].max = sub[s].max /\ f[s].draining = sub[s].draining
    <3>1. f[s] = [sub[s] EXCEPT !.received = sub[s].received + 1,
                  !.timer = /\ sub[s].timer /\ sub[s].max # Unlimited
                            /\ sub[s].received + 1 < sub[s].max]
      BY <2>1, <2>2
    <3>5. PICK armed \in BOOLEAN :
              armed = (/\ sub[s].timer /\ sub[s].max # Unlimited
                       /\ sub[s].received + 1 < sub[s].max)
      OBVIOUS
    <3>4. f[s] = [sub[s] EXCEPT !.received = sub[s].received + 1, !.timer = armed]
      BY <3>1, <3>5, Zenon
    <3>2. /\ sub[s].received \in Nat /\ sub[s].max \in Nat /\ sub[s].draining \in BOOLEAN
      BY <2>1 DEF SubRecords
    <3>3. f[s] = [received |-> sub[s].received + 1, max |-> sub[s].max,
                  draining |-> sub[s].draining, timer |-> armed]
      BY <2>1, <3>4 DEF SubRecords
    <3> QED
      BY <3>2, <3>3 DEF SubRecords
  <2>6. f \in [Sids -> SubRecords]
    BY <2>1, <2>2, <2>4, <2>5
  <2>7. CASE sub' = f /\ UNCHANGED <<table, outbound>>
    <3>1. Counted(s) /\ sub'[s].max = sub[s].max
      BY <2>4, <2>5, <2>7 DEF Counted, Same
    <3> QED
      BY <1>1, <1>4, <1>7, <1>9, <2>7, <3>1 DEF Delivered
  <2>8. CASE ReachedMax(f, s) /\ Unsubscribed(s, Unlimited, f)
    <3>1. Unlimited \in 0..MaxLimit
      BY SubscriptionsAssumption DEF Unlimited
    <3>2. Limited(s, Unlimited, f)
      BY <1>1, <2>6, <2>8, <3>1, UnsubscribedDoes
    <3>3. Counted(s) /\ sub'[s].max = Unlimited
      BY <2>4, <2>5, <3>2 DEF Counted, Same, Limited
    <3>4. table' = table \ {s} /\ Spoken(<<UnsubCmd(s, Unlimited)>>)
      BY <3>2 DEF Limited
    <3> QED
      BY <1>1, <1>4, <1>9, <3>3, <3>4 DEF LastOne
  <2> QED
    BY <2>3, <2>7, <2>8
<1> QED
  BY <1>8, <1>9

-----------------------------------------------------------------------------
(* The types                                                                *)

LEMMA TypesInit == Init => TypesInv
<1> SUFFICES ASSUME Init PROVE TypesInv
  OBVIOUS
<1> USE SubscriptionsAssumption
<1>1. SubsInv
  BY SubsInit
<1>2. WireTypes
  <2>1. /\ << >> \in Seq(Commands) /\ << >> \in Seq(Replies) /\ << >> \in Seq(Callbacks)
    OBVIOUS
  <2>2. \A s \in Sids : sub[s].max \in 0..MaxLimit
    BY DEF Init, NewSub, Unlimited
  <2>3. sent \in [Sids -> Nat] /\ limit \in [Sids -> 0..MaxLimit]
    BY DEF Init, Unlimited
  <2>4. outbound = << >> /\ toServer = << >> /\ toClient = << >> /\ pongs = << >>
    BY DEF Init
  <2>5. serverSubs \subseteq Sids
    BY DEF Init
  <2>6. /\ outbound \in Seq(Commands) /\ toServer \in Seq(Commands)
        /\ toClient \in Seq(Replies) /\ pongs \in Seq(Callbacks)
    BY <2>1, <2>4, Zenon
  <2> QED
    BY <2>2, <2>3, <2>5, <2>6 DEF WireTypes
<1>3. OtherTypes
  <2>1. epoch \in 1..MaxFaults + 1 /\ drainedOn \in [Sids -> 0..MaxFaults + 1]
    BY DEF Init
  <2>2. calls \in 0..MaxCalls /\ messages \in 0..MaxMessages
    BY DEF Init
  <2> QED
    BY <2>1, <2>2 DEF Init, OtherTypes
<1>4. Numbers
  <2>1. \A s \in Sids : Unread(s) = 0
    BY CountNil DEF Init, Unread
  <2> QED
    BY <2>1 DEF Init, Numbers, NewSub
<1>5. table \subseteq 1..sidCounter
  BY DEF Init
<1> QED
  BY <1>1, <1>2, <1>3, <1>4, <1>5 DEF TypesInv

LEMMA UnreadIs ==
    ASSUME TypesInv
    PROVE  \A s \in Sids : /\ sub[s].received \in Nat /\ Unread(s) \in Nat /\ sub[s].max \in Nat
                           /\ sent[s] \in Nat /\ limit[s] \in Nat
<1>1. toClient \in Seq(Replies)
  BY DEF TypesInv, WireTypes
<1>2. ASSUME NEW s \in Sids
      PROVE  sub[s].received \in Nat /\ sub[s].max \in Nat
  <2>1. sub[s] \in SubRecords
    BY DEF TypesInv, SubsInv, SubsOK
  <2> QED
    BY <2>1 DEF SubRecords
<1>3. \A s \in Sids : Unread(s) \in Nat
  BY <1>1, CountType DEF Unread
<1>4. \A s \in Sids : sent[s] \in Nat /\ limit[s] \in Nat
  BY SubscriptionsAssumption DEF TypesInv, WireTypes
<1> QED
  BY <1>2, <1>3, <1>4

LEMMA SpokenTypes ==
    ASSUME TypesInv, NEW w, Spoken(w), SubsInv',
           toClient' \in Seq(Replies), pongs' \in Seq(Callbacks),
           \A s \in Sids : sub'[s].max \in 0..MaxLimit
    PROVE  WireTypes'
<1>1. outbound \in Seq(Commands) /\ w \in Seq(Commands) /\ outbound' = Cat(outbound, w)
  BY DEF TypesInv, WireTypes, Spoken
<1>2. outbound' \in Seq(Commands)
  BY <1>1, CatSeq
<1> QED
  BY <1>2 DEF TypesInv, WireTypes, Spoken, Quiet

\* What the calls of the application and the timers do to the types.
LEMMA SpokenNumbers ==
    ASSUME TypesInv, Quiet, toClient' = toClient,
           \A s \in Sids : sub'[s].received = sub[s].received \/ sub'[s].received = 0
    PROVE  Numbers'
<1>1. \A s \in Sids : Unread(s)' = Unread(s)
  BY DEF Unread
<1>2. messages' = messages /\ sent' = sent
  BY DEF Quiet
<1>3. \A s \in Sids : sub[s].received \in Nat /\ Unread(s) \in Nat
  BY UnreadIs
<1>4. messages \in Nat
  BY SubscriptionsAssumption DEF TypesInv, OtherTypes
<1>5. \A s \in Sids : sub[s].received + Unread(s) <= messages /\ sent[s] <= messages
  BY DEF TypesInv, Numbers
<1>6. ASSUME NEW s \in Sids
      PROVE  sub'[s].received + Unread(s)' <= messages' /\ sent'[s] <= messages'
  <2>1. sub'[s].received + Unread(s) <= messages
    BY <1>3, <1>4, <1>5
  <2> QED
    BY <1>1, <1>2, <1>5, <2>1
<1> QED
  BY <1>6 DEF Numbers

\* What any step does to the types that are not about the wire.
LEMMA OtherTypesNext ==
    ASSUME TypesInv, Next
    PROVE  OtherTypes'
<1> USE DEF TypesInv, OtherTypes
<1> USE SubscriptionsAssumption
<1>0. table \subseteq Sids
  BY SidsAre
<1>1. ASSUME NEW max \in 0..MaxLimit, Subscribe(max)
      PROVE  OtherTypes'
  BY <1>1 DEF Subscribe, Call, server
<1>2. ASSUME NEW s \in Sids, NEW max \in 0..MaxLimit, Unsubscribe(s, max)
      PROVE  OtherTypes'
  BY <1>2 DEF Unsubscribe, Call, server
<1>3. ASSUME NEW s \in Sids, SetTimeout(s) \/ CancelTimeout(s)
      PROVE  OtherTypes'
  BY <1>3 DEF SetTimeout, CancelTimeout, Call, server, client
<1>4. ASSUME NEW s \in Sids, DrainSubscription(s)
      PROVE  OtherTypes'
  BY <1>4 DEF DrainSubscription, DrainOf, Call, server
<1>5. CASE Drain
  BY <1>0, <1>5 DEF Drain, DrainOf, Call, server
<1>6. CASE Close
  BY <1>6 DEF Close, Closed, Call
<1>7. ASSUME NEW s \in Sids, Timeout(s)
      PROVE  OtherTypes'
  BY <1>7 DEF Timeout, server, history
<1>8. CASE DrainFlush
  BY <1>8 DEF DrainFlush, server, history
<1>9. CASE FlushPending
  BY <1>9 DEF FlushPending, subs, history
<1>10. CASE ReceiveInfo \/ ReceiveMsg
  BY <1>10 DEF ReceiveInfo, ReceiveMsg, subs, history
<1>11. CASE ReceivePong
  BY <1>11 DEF ReceivePong, HandshakeDone, SubscriptionDrained, Closed, subs
<1>12. CASE Lose
  BY <1>12 DEF Lose, subs
<1>13. CASE Redial \/ DialOk \/ DialFailed
  BY <1>13 DEF Redial, DialOk, DialFailed, subs, history
<1>14. CASE ServerRead
  BY <1>14 DEF ServerRead, subs, client
<1>15. ASSUME NEW s \in Sids, ServerSend(s)
       PROVE  OtherTypes'
  <2>1. messages' \in 0..MaxMessages
    BY <1>15 DEF ServerSend
  <2>2. UNCHANGED <<draining, waiting, noMorePublishing, conn, infoReceived, calls, epoch,
                    raised, drained, drainedOn>>
    BY <1>15 DEF ServerSend, subs, client
  <2> QED
    BY <2>1, <2>2
<1> QED
  BY <1>1, <1>2, <1>3, <1>4, <1>5, <1>6, <1>7, <1>8, <1>9, <1>10, <1>11, <1>12, <1>13, <1>14,
     <1>15 DEF Next, Application, Reading

-----------------------------------------------------------------------------
(* What a new connection is sent                                            *)

\* The commands of sendSubscriptions() for s.
Restored(s) ==
    IF s \notin table THEN << >>
    ELSE IF sub[s].max = Unlimited THEN <<SubCmd(s)>>
    ELSE <<SubCmd(s), UnsubCmd(s, RemainingLimit(s))>>

\* A subscription has always some of its limit left.
LEMMA RestoredIs ==
    ASSUME TypesInv, NEW s \in Sids
    PROVE  /\ Restored(s) \in Seq(Commands)
           /\ s \in table => SubCmd(s) \in ToSet(Restored(s))
           /\ \A c \in ToSet(Restored(s)) :
                 /\ s \in table /\ c # PingCmd
                 /\ \/ c = SubCmd(s)
                    \/ /\ sub[s].max # Unlimited
                       /\ sub[s].max - sub[s].received \in 1..MaxLimit
                       /\ c = UnsubCmd(s, sub[s].max - sub[s].received)
<1>1. /\ SubCmd(s) \in Commands /\ SubCmd(s).op = "SUB" /\ PingCmd.op = "PING"
      /\ SubCmd(s) # PingCmd
  BY CommandsAre
<1>2. CASE s \notin table
  <2>1. Restored(s) = << >>
    BY <1>2 DEF Restored
  <2> QED
    BY <1>2, <2>1 DEF ToSet
<1>3. CASE s \in table /\ sub[s].max = Unlimited
  <2>1. PICK x \in Commands : x = SubCmd(s)
    BY <1>1
  <2>2. Restored(s) = <<x>>
    BY <1>3, <2>1 DEF Restored
  <2>3. <<x>> \in Seq(Commands) /\ ToSet(<<x>>) = {x}
    BY OneIs
  <2> QED
    BY <1>1, <1>3, <2>1, <2>2, <2>3
<1>4. CASE s \in table /\ sub[s].max # Unlimited
  <2>1. sub[s].received < sub[s].max
    BY <1>4 DEF TypesInv, SubsInv, Sound
  <2>2. sub[s].received \in Nat /\ sub[s].max \in 0..MaxLimit /\ sub[s].max # 0
    BY <1>4, UnreadIs DEF TypesInv, WireTypes, Unlimited
  <2>3. PICK max \in 1..MaxLimit : max = sub[s].max - sub[s].received /\ max \in 0..MaxLimit
    BY <2>1, <2>2, SubscriptionsAssumption
  <2>4. RemainingLimit(s) = max
    BY <2>1, <2>2, <2>3 DEF RemainingLimit
  <2>5. /\ UnsubCmd(s, max) \in Commands /\ UnsubCmd(s, max).op = "UNSUB"
        /\ UnsubCmd(s, max) # PingCmd
    BY <1>1, <2>3, CommandsAre
  <2>6. PICK x \in Commands, y \in Commands : x = SubCmd(s) /\ y = UnsubCmd(s, max)
    BY <1>1, <2>5
  <2>7. Two(Restored(s), x, y)
    BY <1>4, <2>4, <2>6, Zenon DEF Restored, Two
  <2>8. Restored(s) \in Seq(Commands) /\ \A c : c \in ToSet(Restored(s)) <=> c = x \/ c = y
    <3>1. PICK w : w = Restored(s)
      BY Zenon
    <3>2. Two(w, x, y)
      BY <2>7, <3>1, Zenon
    <3>3. w \in Seq(Commands) /\ \A c : c \in ToSet(w) <=> c = x \/ c = y
      BY <3>2, TwoAre
    <3> QED
      BY <3>1, <3>3, Zenon
  <2>9. \A c \in ToSet(Restored(s)) :
           /\ s \in table /\ c # PingCmd
           /\ c = SubCmd(s) \/ c = UnsubCmd(s, max)
    BY <1>1, <1>4, <2>5, <2>6, <2>8
  <2> QED
    BY <1>4, <2>3, <2>6, <2>8, <2>9
<1> QED
  BY <1>2, <1>3, <1>4

LEMMA SendSubscriptionsAre ==
    ASSUME TypesInv
    PROVE  /\ SendSubscriptions \in Seq(Commands)
           /\ \A s \in table : SubCmd(s) \in ToSet(SendSubscriptions)
           /\ \A c \in ToSet(SendSubscriptions) : \E s \in table :
                 /\ c # PingCmd
                 /\ \/ c = SubCmd(s)
                    \/ /\ sub[s].max # Unlimited
                       /\ sub[s].max - sub[s].received \in 1..MaxLimit
                       /\ c = UnsubCmd(s, sub[s].max - sub[s].received)
           /\ Count(SendSubscriptions, PingCmd) = 0
<1>1. PICK q : q = [s \in Sids |-> Restored(s)]
  BY Zenon
<1>2. SendSubscriptions = FlattenSeq(q)
  BY <1>1, Zenon DEF SendSubscriptions, Restored
<1>3. q \in [1..MaxSubs -> Seq(Commands)]
  <2>1. \A s \in Sids : Restored(s) \in Seq(Commands)
    BY RestoredIs
  <2> QED
    BY <1>1, <2>1 DEF Sids
<1>4. q \in Seq(Seq(Commands)) /\ DOMAIN q = Sids
  BY <1>3, SubscriptionsAssumption DEF Sids
<1>5. SendSubscriptions \in Seq(Commands)
  BY <1>2, <1>4, FlattenType
<1>6. \A c : c \in ToSet(SendSubscriptions) <=> \E s \in Sids : c \in ToSet(Restored(s))
  <2>1. \A c : c \in ToSet(FlattenSeq(q)) <=> \E e \in ToSet(q) : c \in ToSet(e)
    BY <1>4, InFlatten
  <2>2. \A e : e \in ToSet(q) <=> \E s \in Sids : e = Restored(s)
    BY <1>1, <1>4 DEF ToSet
  <2> QED
    BY <1>2, <2>1, <2>2, Zenon
<1>7. table \subseteq Sids
  BY SidsAre
<1>8. \A s \in table : SubCmd(s) \in ToSet(SendSubscriptions)
  BY <1>6, <1>7, RestoredIs
<1>9. ASSUME NEW c \in ToSet(SendSubscriptions)
      PROVE  \E s \in table :
                 /\ c # PingCmd
                 /\ \/ c = SubCmd(s)
                    \/ /\ sub[s].max # Unlimited
                       /\ sub[s].max - sub[s].received \in 1..MaxLimit
                       /\ c = UnsubCmd(s, sub[s].max - sub[s].received)
  <2>1. PICK s \in Sids : c \in ToSet(Restored(s))
    BY <1>6
  <2> QED
    BY <2>1, RestoredIs
<1>10. Count(SendSubscriptions, PingCmd) = 0
  <2>1. PingCmd \notin ToSet(SendSubscriptions)
    BY <1>9
  <2> QED
    BY <1>5, <2>1, CountNone
<1> QED
  BY <1>5, <1>8, <1>9, <1>10

\* What is left of the buffer: the SUBs go.
LEMMA StripPendingSubsIs ==
    ASSUME TypesInv
    PROVE  /\ StripPendingSubs(outbound) \in Seq(Commands)
           /\ \A c : c \in ToSet(StripPendingSubs(outbound)) <=> c \in ToSet(outbound) /\ c.op # "SUB"
           /\ Count(StripPendingSubs(outbound), PingCmd) = Count(outbound, PingCmd)
<1>1. PICK T : T = {c \in Commands : c.op # "SUB"}
  OBVIOUS
<1>2. outbound \in Seq(Commands)
  BY DEF TypesInv, WireTypes
<1>3. PICK q \in Seq(Commands) : q = outbound
  BY <1>2
<1>4. StripPendingSubs(outbound) = Among(q, T)
  BY <1>1, <1>3 DEF StripPendingSubs
<1>5. Among(q, T) \in Seq(Commands)
  <2>1. Among(q, T) \in Seq(Commands \cap T)
    BY AmongType
  <2> QED
    BY <2>1
<1>6. ToSet(Among(q, T)) = ToSet(q) \cap T
  BY InAmong
<1>7. ToSet(q) \subseteq Commands
  BY DEF ToSet
<1>8. PingCmd \in T
  BY <1>1, CommandsAre
<1>9. Count(Among(q, T), PingCmd) = Count(q, PingCmd)
  BY <1>8, CountAmong
<1> QED
  BY <1>1, <1>3, <1>4, <1>5, <1>6, <1>7, <1>9

\* prepareConnection(): as many PINGs as callbacks.
LEMMA RedialDoes ==
    ASSUME TypesInv, Redial
    PROVE  /\ outbound' \in Seq({PingCmd}) /\ outbound' \in Seq(Commands)
           /\ pongs' \in Seq(Callbacks)
           /\ Len(outbound') = Len(pongs') /\ Len(pongs') <= Len(pongs)
           /\ \A i \in 1..Len(pongs') : pongs'[i] = pongs[i]
           /\ conn = "down" /\ conn' = "dialing" /\ infoReceived' = FALSE
           /\ UNCHANGED <<subs, server, history>>
<1>1. outbound \in Seq(Commands) /\ pongs \in Seq(Callbacks)
  BY DEF TypesInv, WireTypes
<1>2. PICK pings : pings = Among(outbound, {PingCmd})
  OBVIOUS
<1>3. pings \in Seq(Commands \cap {PingCmd})
  BY <1>1, <1>2, AmongType
<1>4. pings \in Seq({PingCmd}) /\ pings \in Seq(Commands)
  BY <1>3
<1>5. PICK kept \in Nat : /\ kept <= Len(pings) /\ kept <= Len(pongs)
                          /\ kept = IF Len(pings) < Len(pongs) THEN Len(pings) ELSE Len(pongs)
  <2>1. PICK m \in Nat, n \in Nat : m = Len(pings) /\ n = Len(pongs)
    BY <1>1, <1>4
  <2> QED
    BY <2>1
<1>6. outbound' = SubSeq(pings, 1, kept) /\ pongs' = SubSeq(pongs, 1, kept)
  BY <1>2, <1>5 DEF Redial
<1>7. SubSeq(pings, 1, kept) \in Seq({PingCmd}) /\ SubSeq(pings, 1, kept) \in Seq(Commands)
      /\ Len(SubSeq(pings, 1, kept)) = kept
  BY <1>4, <1>5
<1>8. SubSeq(pongs, 1, kept) \in Seq(Callbacks) /\ Len(SubSeq(pongs, 1, kept)) = kept
      /\ \A i \in 1..kept : SubSeq(pongs, 1, kept)[i] = pongs[i]
  BY <1>1, <1>5
<1>9. /\ conn = "down" /\ conn' = "dialing" /\ infoReceived' = FALSE
      /\ UNCHANGED <<subs, server, history>>
  BY DEF Redial
<1> QED
  BY <1>5, <1>6, <1>7, <1>8, <1>9

\* close().
LEMMA ClosedDoes ==
    ASSUME TypesInv, Closed
    PROVE  /\ conn' = "closed" /\ table' = {}
           /\ outbound' = << >> /\ pongs' = << >> /\ toServer' = << >> /\ toClient' = << >>
           /\ serverSubs' = {} /\ sent' = sent /\ limit' = limit /\ sidCounter' = sidCounter
           /\ infoReceived' = infoReceived
           /\ \A s \in Sids : Same(s)
<1>1. Cancel(table, sub) /\ sub \in [Sids -> SubRecords]
  BY DEF Closed, TypesInv, SubsInv, SubsOK
<1>2. table' = table \ table /\ \A s \in Sids : Same(s)
  BY <1>1, CancelKeeps DEF Same
<1> QED
  BY <1>2 DEF Closed

\* The PONG of a drain.
LEMMA SubscriptionDrainedDoes ==
    ASSUME TypesInv, NEW s \in Sids, SubscriptionDrained(s), UNCHANGED <<epoch, messages>>
    PROVE  /\ table' = table \ {s} /\ (\A t \in Sids : Same(t)) /\ Spoken(<< >>)
           /\ drained' = drained \cup {s} /\ sidCounter' = sidCounter
           /\ pongs' = Tail(pongs) /\ toClient' = Tail(toClient)
<1>1. Cancel({s}, sub) /\ sub \in [Sids -> SubRecords]
  BY DEF SubscriptionDrained, TypesInv, SubsInv, SubsOK
<1>2. table' = table \ {s} /\ \A t \in Sids : Same(t)
  BY <1>1, CancelKeeps DEF Same
<1>3. outbound \in Seq(Commands) /\ << >> \in Seq(Commands) /\ Cat(outbound, << >>) = outbound
  <2>1. outbound \in Seq(Commands)
    BY DEF TypesInv, WireTypes
  <2> QED
    BY <2>1, CatNil
<1>4. Spoken(<< >>)
  BY <1>3 DEF SubscriptionDrained, Spoken, Quiet
<1> QED
  BY <1>2, <1>4 DEF SubscriptionDrained

\* A PONG is for the first of the callbacks.
LEMMA ReceivePongDoes ==
    ASSUME TypesInv, ReceivePong
    PROVE  /\ toClient # << >> /\ Head(toClient) = Pong /\ pongs # << >>
           /\ UNCHANGED <<epoch, messages, raised, drainedOn>>
           /\ \/ Head(pongs) = Handshake /\ HandshakeDone
              \/ Head(pongs) \in Sids /\ SubscriptionDrained(Head(pongs))
              \/ Head(pongs) = ConnectionDrain /\ Closed /\ drained' = drained
<1>1. /\ toClient # << >> /\ Head(toClient).op = "PONG" /\ pongs # << >>
      /\ UNCHANGED <<epoch, messages, raised, drainedOn>>
      /\ \/ Head(pongs) = Handshake /\ HandshakeDone
         \/ Head(pongs) \in Sids /\ SubscriptionDrained(Head(pongs))
         \/ Head(pongs) = ConnectionDrain /\ Closed /\ drained' = drained
  BY DEF ReceivePong
<1>2. toClient \in Seq(Replies)
  BY DEF TypesInv, WireTypes
<1>3. Head(toClient) \in Replies
  BY <1>1, <1>2
<1>4. Head(toClient) = Pong
  BY <1>1, <1>3, RepliesAre
<1> QED
  BY <1>1, <1>4

\* The last flush of drain().
LEMMA DrainFlushDoes ==
    ASSUME TypesInv, DrainFlush
    PROVE  /\ conn # "closed" /\ PingCmd \in Commands
           /\ Spoken(<<PingCmd>>) /\ pongs' = Append(pongs, ConnectionDrain)
           /\ UNCHANGED <<table, sub, sidCounter, toClient, raised, drained, drainedOn>>
<1>1. PingCmd \in Commands
  BY CommandsAre
<1>2. <<PingCmd>> \in Seq(Commands)
  BY <1>1, OneIs
<1> QED
  BY <1>1, <1>2 DEF DrainFlush, Spoken, Quiet, SendCommands, Cat, server, history

LEMMA TailsAre ==
    ASSUME TypesInv
    PROVE  /\ toClient # << >> => /\ Tail(toClient) \in Seq(Replies)
                                  /\ \A s \in Sids : Head(toClient) = Pong =>
                                        Count(Tail(toClient), Msg(s)) = Unread(s)
           /\ pongs # << >> => Tail(pongs) \in Seq(Callbacks)
           /\ \A s \in Sids : Msg(s) # Pong
<1>1. toClient \in Seq(Replies) /\ pongs \in Seq(Callbacks)
  BY DEF TypesInv, WireTypes
<1>2. \A s \in Sids : Msg(s) # Pong
  <2>1. \A s \in Sids : Pong.op = "PONG" /\ Msg(s).op = "MSG"
    BY RepliesAre
  <2> QED
    BY <2>1
<1>3. ASSUME toClient # << >>, NEW s \in Sids, Head(toClient) = Pong
      PROVE  Count(Tail(toClient), Msg(s)) = Unread(s)
  <2>1. Count(toClient, Msg(s)) = (IF Head(toClient) = Msg(s) THEN 1 ELSE 0) + Count(Tail(toClient), Msg(s))
    BY <1>1, <1>3, CountTail
  <2>2. Tail(toClient) \in Seq(Replies)
    BY <1>1, <1>3
  <2>3. Count(Tail(toClient), Msg(s)) \in Nat
    BY <2>2, CountType
  <2> QED
    BY <1>2, <1>3, <2>1, <2>3 DEF Unread
<1> QED
  BY <1>1, <1>2, <1>3

\* A step after which nothing more is received, sent or to be read.
LEMMA NumbersKept ==
    ASSUME TypesInv, messages' = messages, sent' = sent,
           \A s \in Sids : sub'[s].received = sub[s].received /\ Unread(s)' <= Unread(s)
                             /\ Unread(s)' \in Nat
    PROVE  Numbers'
<1>1. \A s \in Sids : /\ sub[s].received \in Nat /\ Unread(s) \in Nat
                      /\ sub[s].received + Unread(s) <= messages /\ sent[s] <= messages
  BY UnreadIs DEF TypesInv, Numbers
<1>2. messages \in Nat
  BY SubscriptionsAssumption DEF TypesInv, OtherTypes
<1>3. ASSUME NEW s \in Sids
      PROVE  sub'[s].received + Unread(s)' <= messages' /\ sent'[s] <= messages'
  BY <1>1, <1>2
<1> QED
  BY <1>3 DEF Numbers

LEMMA UnreadNone ==
    ASSUME TypesInv, toClient' = << >>
    PROVE  \A s \in Sids : Unread(s)' = 0 /\ Unread(s)' <= Unread(s) /\ Unread(s)' \in Nat
<1>1. \A s \in Sids : Count(<< >>, Msg(s)) = 0
  BY CountNil
<1>2. \A s \in Sids : Unread(s)' = 0
  BY <1>1, Zenon DEF Unread
<1>3. \A s \in Sids : Unread(s) \in Nat
  BY UnreadIs
<1> QED
  BY <1>2, <1>3

WN == WireTypes /\ Numbers /\ table \subseteq 1..sidCounter

LEMMA SpeakingTypes ==
    ASSUME TypesInv, SubsInv',
           \/ \E max \in 0..MaxLimit : Subscribe(max)
           \/ \E s \in Sids, max \in 0..MaxLimit : Unsubscribe(s, max)
           \/ \E s \in Sids : Timeout(s)
    PROVE  WN'
<1>0. /\ sidCounter \in Nat /\ table \subseteq 1..sidCounter /\ table \subseteq Sids
      /\ toClient \in Seq(Replies) /\ pongs \in Seq(Callbacks)
      /\ \A s \in Sids : sub[s].max \in 0..MaxLimit
      /\ Unlimited \in 0..MaxLimit
  BY SidsAre, SubscriptionsAssumption DEF TypesInv, WireTypes, Unlimited
<1>1. ASSUME NEW max \in 0..MaxLimit, Subscribe(max)
      PROVE  WN'
  <2>1. PICK n, w : Subscribed(n, max, w)
    BY <1>1, SubscribeDoes
  <2>2. toClient' = toClient /\ pongs' = pongs
    BY <1>1, SubscribeDoes
  <2>3. \A s \in Sids : /\ sub'[s].max \in 0..MaxLimit
                        /\ sub'[s].received = sub[s].received \/ sub'[s].received = 0
    BY <1>0, <2>1 DEF Subscribed, Same
  <2>4. WireTypes'
    BY <1>0, <2>1, <2>2, <2>3, SpokenTypes DEF Subscribed
  <2>5. Numbers'
    BY <2>1, <2>2, <2>3, SpokenNumbers DEF Subscribed, Spoken
  <2>6. table' \subseteq 1..sidCounter'
    BY <1>0, <2>1 DEF Subscribed
  <2> QED
    BY <2>4, <2>5, <2>6 DEF WN
<1>2. ASSUME NEW s \in Sids, NEW max \in 0..MaxLimit, Limited(s, max, sub),
             toClient' = toClient, pongs' = pongs, sidCounter' = sidCounter
      PROVE  WN'
  <2>1. \A t \in Sids : sub'[t].max \in 0..MaxLimit /\ sub'[t].received = sub[t].received
    BY <1>0, <1>2 DEF Limited
  <2>2. Spoken(<<UnsubCmd(s, max)>>)
    BY <1>2 DEF Limited
  <2>3. WireTypes'
    BY <1>0, <1>2, <2>1, <2>2, SpokenTypes
  <2>4. Numbers'
    BY <1>2, <2>1, <2>2, SpokenNumbers DEF Spoken
  <2>5. table' \subseteq 1..sidCounter'
    BY <1>0, <1>2 DEF Limited
  <2> QED
    BY <2>3, <2>4, <2>5 DEF WN
<1>3. ASSUME NEW s \in Sids, NEW max \in 0..MaxLimit, Unsubscribe(s, max)
      PROVE  WN'
  BY <1>2, <1>3, UnsubscribeDoes
<1>4. ASSUME NEW s \in Sids, Timeout(s)
      PROVE  WN'
  BY <1>0, <1>2, <1>4, TimeoutDoes
<1> QED
  BY <1>1, <1>3, <1>4

LEMMA DrainingTypes ==
    ASSUME TypesInv, SubsInv',
           (\E s \in Sids : DrainSubscription(s)) \/ Drain \/ DrainFlush
    PROVE  WN'
<1>0. /\ table \subseteq 1..sidCounter
      /\ toClient \in Seq(Replies) /\ pongs \in Seq(Callbacks)
      /\ \A s \in Sids : sub[s].max \in 0..MaxLimit
  BY DEF TypesInv, WireTypes
<1>1. ASSUME (\E s \in Sids : DrainSubscription(s)) \/ Drain
      PROVE  WN'
  <2>1. PICK S, D, O : S \in SUBSET table /\ Draining(S, D, O)
    BY <1>1, DrainDoes
  <2>2. UNCHANGED <<table, sidCounter, toClient>>
    BY <1>1, DrainDoes
  <2>3. \A t \in Sids : sub'[t].max = sub[t].max /\ sub'[t].received = sub[t].received
    BY <2>1 DEF Draining
  <2>4. pongs' \in Seq(Callbacks)
    <3>1. O \in Seq(Sids \cap S) /\ pongs' = Cat(pongs, O)
      BY <2>1 DEF Draining, Drains
    <3>2. O \in Seq(Callbacks)
      BY <3>1 DEF Callbacks
    <3> QED
      BY <1>0, <3>1, <3>2, CatSeq
  <2>5. Spoken(D)
    BY <2>1 DEF Draining
  <2>6. WireTypes'
    BY <1>0, <2>2, <2>3, <2>4, <2>5, SpokenTypes
  <2>7. Numbers'
    BY <2>2, <2>3, <2>5, SpokenNumbers DEF Spoken
  <2> QED
    BY <1>0, <2>2, <2>6, <2>7 DEF WN
<1>2. ASSUME DrainFlush
      PROVE  WN'
  <2>1. /\ Spoken(<<PingCmd>>) /\ pongs' = Append(pongs, ConnectionDrain)
        /\ UNCHANGED <<table, sub, sidCounter, toClient>>
    BY <1>2, DrainFlushDoes
  <2>2. ConnectionDrain \in Callbacks
    BY DEF Callbacks
  <2>3. pongs' \in Seq(Callbacks)
    BY <1>0, <2>1, <2>2
  <2>4. WireTypes'
    BY <1>0, <2>1, <2>3, SpokenTypes
  <2>5. Numbers'
    BY <2>1, SpokenNumbers DEF Spoken
  <2> QED
    BY <1>0, <2>1, <2>4, <2>5 DEF WN
<1> QED
  BY <1>1, <1>2

LEMMA ReceiveMsgTypes ==
    ASSUME TypesInv, SubsInv', ReceiveMsg
    PROVE  WN'
<1>0. /\ table \subseteq 1..sidCounter
      /\ toClient \in Seq(Replies) /\ pongs \in Seq(Callbacks)
      /\ \A t \in Sids : sub[t].max \in 0..MaxLimit
      /\ Unlimited \in 0..MaxLimit
  BY SubscriptionsAssumption DEF TypesInv, WireTypes, Unlimited
<1>1. PICK s \in Sids : Head(toClient) = Msg(s) /\ (Dropped(s) \/ Delivered(s) \/ LastOne(s))
  BY ReceiveMsgDoes
<1>2. /\ toClient # << >> /\ toClient' = Tail(toClient)
      /\ UNCHANGED <<sidCounter, pongs>>
  BY ReceiveMsgDoes
<1>3. PICK w : Spoken(w)
  BY <1>1, Zenon DEF Dropped, Delivered, LastOne
<1>4. /\ \A t \in Sids : sub'[t].max \in 0..MaxLimit
      /\ \A t \in Sids : t # s => sub'[t].received = sub[t].received
      /\ sub'[s].received = sub[s].received \/ sub'[s].received = sub[s].received + 1
      /\ table' \subseteq table
  BY <1>0, <1>1 DEF Dropped, Delivered, LastOne, Counted, Same
<1>5. WireTypes'
  BY <1>0, <1>2, <1>3, <1>4, SpokenTypes
<1>6. Numbers'
  <2>1. ASSUME NEW t \in Sids
        PROVE  Unread(t) = (IF Msg(s) = Msg(t) THEN 1 ELSE 0) + Unread(t)' /\ Unread(t)' \in Nat
    <3>1. Count(toClient, Msg(t)) = (IF Head(toClient) = Msg(t) THEN 1 ELSE 0) + Count(Tail(toClient), Msg(t))
      BY <1>0, <1>2, CountTail
    <3>2. Tail(toClient) \in Seq(Replies)
      BY <1>0, <1>2
    <3>3. Count(Tail(toClient), Msg(t)) \in Nat
      BY <3>2, CountType
    <3> QED
      BY <1>1, <1>2, <3>1, <3>3 DEF Unread
  <2>2. Quiet
    BY <1>3 DEF Spoken
  <2>3. messages \in Nat
    BY SubscriptionsAssumption DEF TypesInv, OtherTypes
  <2>4. ASSUME NEW t \in Sids
        PROVE  sub'[t].received + Unread(t)' <= messages' /\ sent'[t] <= messages'
    <3>1. /\ sub[t].received \in Nat /\ Unread(t) \in Nat
          /\ sub[t].received + Unread(t) <= messages /\ sent[t] <= messages
      BY UnreadIs DEF TypesInv, Numbers
    <3>2. messages' = messages /\ sent' = sent
      BY <2>2 DEF Quiet
    <3>3. CASE t = s
      <4>1. Unread(s) = 1 + Unread(s)' /\ Unread(s)' \in Nat
        BY <2>1
      <4>2. sub'[s].received + Unread(s)' <= messages
        BY <1>4, <2>3, <3>1, <3>3, <4>1
      <4> QED
        BY <3>1, <3>2, <3>3, <4>2
    <3>4. CASE t # s
      <4>1. Unread(t)' <= Unread(t) /\ Unread(t)' \in Nat
        BY <2>1, <3>1
      <4> QED
        BY <1>4, <2>3, <3>1, <3>2, <3>4, <4>1
    <3> QED
      BY <3>3, <3>4
  <2> QED
    BY <2>4 DEF Numbers
<1> QED
  BY <1>0, <1>2, <1>4, <1>5, <1>6 DEF WN

LEMMA ReceivePongTypes ==
    ASSUME TypesInv, SubsInv', ReceivePong
    PROVE  WN'
<1>0. /\ table \subseteq 1..sidCounter
      /\ toClient \in Seq(Replies) /\ pongs \in Seq(Callbacks)
      /\ outbound \in Seq(Commands) /\ toServer \in Seq(Commands)
      /\ serverSubs \subseteq Sids /\ sent \in [Sids -> Nat] /\ limit \in [Sids -> 0..MaxLimit]
      /\ \A t \in Sids : sub[t].max \in 0..MaxLimit
  BY DEF TypesInv, WireTypes
<1>1. /\ toClient # << >> /\ Head(toClient) = Pong /\ pongs # << >> /\ messages' = messages
      /\ epoch' = epoch
  BY ReceivePongDoes
<1>2. /\ Tail(toClient) \in Seq(Replies) /\ Tail(pongs) \in Seq(Callbacks)
      /\ \A s \in Sids : Count(Tail(toClient), Msg(s)) = Unread(s) /\ Unread(s) \in Nat
  BY <1>1, TailsAre, UnreadIs
<1>3. CASE HandshakeDone
  <2>1. /\ toServer' = Cat(toServer, SendSubscriptions) /\ outbound' = StripPendingSubs(outbound)
        /\ pongs' = Tail(pongs) /\ toClient' = Tail(toClient)
        /\ UNCHANGED <<table, sub, sidCounter, serverSubs, sent, limit>>
    BY <1>3 DEF HandshakeDone, subs, Cat
  <2>2. SendSubscriptions \in Seq(Commands) /\ StripPendingSubs(outbound) \in Seq(Commands)
    BY SendSubscriptionsAre, StripPendingSubsIs
  <2>3. toServer' \in Seq(Commands)
    BY <1>0, <2>1, <2>2, CatSeq
  <2>4. WireTypes'
    BY <1>0, <1>2, <2>1, <2>2, <2>3 DEF WireTypes
  <2>5. \A s \in Sids : Unread(s)' <= Unread(s) /\ Unread(s)' \in Nat
    BY <1>2, <2>1 DEF Unread
  <2>6. Numbers'
    BY <1>1, <2>1, <2>5, NumbersKept
  <2> QED
    BY <1>0, <2>1, <2>4, <2>6 DEF WN
<1>4. ASSUME NEW s \in Sids, SubscriptionDrained(s)
      PROVE  WN'
  <2>1. /\ table' = table \ {s} /\ (\A t \in Sids : Same(t)) /\ Spoken(<< >>)
        /\ sidCounter' = sidCounter
        /\ pongs' = Tail(pongs) /\ toClient' = Tail(toClient)
    BY <1>1, <1>4, SubscriptionDrainedDoes
  <2>2. \A t \in Sids : Unread(t)' <= Unread(t) /\ Unread(t)' \in Nat
    BY <1>2, <2>1 DEF Unread
  <2>3. sent' = sent
    BY <2>1 DEF Spoken, Quiet
  <2>4. Numbers'
    BY <1>1, <2>1, <2>2, <2>3, NumbersKept DEF Same
  <2>5. \A t \in Sids : sub'[t].max \in 0..MaxLimit
    BY <1>0, <2>1 DEF Same
  <2>6. WireTypes'
    BY <1>2, <2>1, <2>5, SpokenTypes
  <2> QED
    BY <1>0, <2>1, <2>4, <2>6 DEF WN
<1>5. ASSUME Closed, messages' = messages
      PROVE  WN'
  <2>1. /\ outbound' = << >> /\ pongs' = << >> /\ toServer' = << >> /\ toClient' = << >>
        /\ serverSubs' = {} /\ sent' = sent /\ limit' = limit /\ table' = {}
        /\ \A s \in Sids : Same(s)
    BY <1>5, ClosedDoes
  <2>2. Numbers'
    BY <1>5, <2>1, UnreadNone, NumbersKept DEF Same
  <2>3. /\ << >> \in Seq(Commands) /\ << >> \in Seq(Replies) /\ << >> \in Seq(Callbacks)
    OBVIOUS
  <2>4. /\ outbound' \in Seq(Commands) /\ toServer' \in Seq(Commands)
        /\ toClient' \in Seq(Replies) /\ pongs' \in Seq(Callbacks)
    BY <2>1, <2>3, Zenon
  <2>5. \A t \in Sids : sub'[t].max \in 0..MaxLimit
    BY <1>0, <2>1 DEF Same
  <2>6. WireTypes'
    BY <1>0, <2>1, <2>4, <2>5 DEF WireTypes
  <2> QED
    BY <2>1, <2>2, <2>6 DEF WN
<1> QED
  BY <1>1, <1>3, <1>4, <1>5, ReceivePongDoes

LEMMA CloseTypes ==
    ASSUME TypesInv, SubsInv', Close
    PROVE  WN'
<1>1. Closed /\ messages' = messages
  BY DEF Close
<1>2. /\ outbound' = << >> /\ pongs' = << >> /\ toServer' = << >> /\ toClient' = << >>
      /\ serverSubs' = {} /\ sent' = sent /\ limit' = limit /\ table' = {}
      /\ \A s \in Sids : Same(s)
  BY <1>1, ClosedDoes
<1>3. Numbers'
  BY <1>1, <1>2, UnreadNone, NumbersKept DEF Same
<1>4. /\ << >> \in Seq(Commands) /\ << >> \in Seq(Replies) /\ << >> \in Seq(Callbacks)
  OBVIOUS
<1>5. /\ outbound' \in Seq(Commands) /\ toServer' \in Seq(Commands)
      /\ toClient' \in Seq(Replies) /\ pongs' \in Seq(Callbacks)
  BY <1>2, <1>4, Zenon
<1>6. WireTypes'
  BY <1>2, <1>5 DEF WireTypes, TypesInv, Same
<1> QED
  BY <1>2, <1>3, <1>6 DEF WN

LEMMA ConnectionTypes ==
    ASSUME TypesInv, SubsInv',
           FlushPending \/ ReceiveInfo \/ Lose \/ Redial \/ DialOk \/ DialFailed
    PROVE  WN'
<1>0. /\ table \subseteq 1..sidCounter
      /\ toClient \in Seq(Replies) /\ pongs \in Seq(Callbacks)
      /\ outbound \in Seq(Commands) /\ toServer \in Seq(Commands)
      /\ serverSubs \subseteq Sids /\ sent \in [Sids -> Nat] /\ limit \in [Sids -> 0..MaxLimit]
      /\ \A t \in Sids : sub[t].max \in 0..MaxLimit
  BY DEF TypesInv, WireTypes
<1>1. UNCHANGED <<table, sub, sidCounter, sent, limit, messages>>
  BY DEF FlushPending, ReceiveInfo, Lose, Redial, DialOk, DialFailed, subs, server, history
<1>2. << >> \in Seq(Commands) /\ << >> \in Seq(Replies) /\ << >> \in Seq(Callbacks)
  OBVIOUS
<1>3. ASSUME outbound' \in Seq(Commands), toServer' \in Seq(Commands), pongs' \in Seq(Callbacks),
             \/ toClient' = toClient /\ serverSubs' = serverSubs
             \/ toClient' = << >> /\ serverSubs' = {}
      PROVE  WN'
  <2>1. WireTypes'
    <3>1. toClient' \in Seq(Replies) /\ serverSubs' \subseteq Sids
      BY <1>0, <1>2, <1>3
    <3> QED
      BY <1>0, <1>1, <1>3, <3>1 DEF WireTypes
  <2>2. \A s \in Sids : Unread(s)' <= Unread(s) /\ Unread(s)' \in Nat
    <3>1. CASE toClient' = << >>
      BY <3>1, UnreadNone
    <3>2. CASE toClient' = toClient
      <4>1. \A s \in Sids : Unread(s)' = Unread(s) /\ Unread(s) \in Nat
        BY <3>2, UnreadIs DEF Unread
      <4> QED
        BY <4>1
    <3> QED
      BY <1>3, <3>1, <3>2
  <2>3. Numbers'
    BY <1>1, <2>2, NumbersKept
  <2> QED
    BY <1>0, <1>1, <2>1, <2>3 DEF WN
<1>4. CASE FlushPending
  <2>1. /\ outbound' = << >> /\ pongs' = pongs /\ toClient' = toClient /\ serverSubs' = serverSubs
        /\ toServer' = toServer \/ toServer' = Cat(toServer, outbound)
    BY <1>4 DEF FlushPending, Cat
  <2>2. toServer' \in Seq(Commands)
    BY <1>0, <2>1, CatSeq
  <2> QED
    BY <1>0, <1>2, <1>3, <2>1, <2>2
<1>5. CASE ReceiveInfo
  <2>1. /\ outbound' = outbound /\ toServer' = Append(toServer, PingCmd)
        /\ pongs' = Cat(<<Handshake>>, pongs)
        /\ toClient' = toClient /\ serverSubs' = serverSubs
    BY <1>5 DEF ReceiveInfo, Cat
  <2>2. PingCmd \in Commands /\ Handshake \in Callbacks
    BY CommandsAre DEF Callbacks
  <2>3. toServer' \in Seq(Commands)
    BY <1>0, <2>1, <2>2
  <2>4. <<Handshake>> \in Seq(Callbacks)
    BY <2>2
  <2>5. pongs' \in Seq(Callbacks)
    BY <1>0, <2>1, <2>4, CatSeq
  <2> QED
    BY <1>0, <1>3, <2>1, <2>3, <2>5
<1>6. CASE Lose
  BY <1>0, <1>2, <1>3, <1>6 DEF Lose
<1>7. CASE Redial
  <2>1. outbound' \in Seq(Commands) /\ pongs' \in Seq(Callbacks) /\ UNCHANGED server
    BY <1>7, RedialDoes
  <2> QED
    BY <1>0, <1>3, <2>1 DEF server
<1>8. CASE DialOk \/ DialFailed
  BY <1>0, <1>3, <1>8 DEF DialOk, DialFailed, server
<1> QED
  BY <1>4, <1>5, <1>6, <1>7, <1>8

\* What the server makes of the first command.
LEMMA ServerReadDoes ==
    ASSUME TypesInv, ServerRead
    PROVE  /\ toServer # << >> /\ toServer' = Tail(toServer) /\ Tail(toServer) \in Seq(Commands)
           /\ UNCHANGED <<subs, client, messages, epoch, raised, drained, drainedOn>>
           /\ \/ Head(toServer) = PingCmd /\ ServerPing
              \/ \E s \in Sids : Head(toServer) = SubCmd(s) /\ ServerSub(s)
              \/ \E s \in Sids, max \in 0..MaxLimit :
                    Head(toServer) = UnsubCmd(s, max) /\ ServerUnsub(s, max)
<1>1. toServer # << >> /\ toServer \in Seq(Commands)
  BY DEF ServerRead, TypesInv, WireTypes
<1>2. PICK c \in Commands : c = Head(toServer)
  BY <1>1
<1>3. \/ c.op = "SUB" /\ ServerSub(c.sid)
      \/ c.op = "UNSUB" /\ ServerUnsub(c.sid, c.max)
      \/ c.op = "PING" /\ ServerPing
  BY <1>2 DEF ServerRead
<1>4. \/ c = PingCmd /\ c.op = "PING"
      \/ c.op = "SUB" /\ c.sid \in Sids /\ c = SubCmd(c.sid)
      \/ /\ c.op = "UNSUB" /\ c.sid \in Sids /\ c.max \in 0..MaxLimit
         /\ c = UnsubCmd(c.sid, c.max)
  BY CommandsAre
<1>5. \/ c = PingCmd /\ ServerPing
      \/ \E s \in Sids : c = SubCmd(s) /\ ServerSub(s)
      \/ \E s \in Sids, max \in 0..MaxLimit : c = UnsubCmd(s, max) /\ ServerUnsub(s, max)
  BY <1>3, <1>4
<1>6. /\ toServer' = Tail(toServer)
      /\ UNCHANGED <<subs, client, messages, epoch, raised, drained, drainedOn>>
  BY DEF ServerRead
<1>7. Tail(toServer) \in Seq(Commands)
  BY <1>1
<1> QED
  BY <1>1, <1>2, <1>5, <1>6, <1>7

LEMMA ServerTypes ==
    ASSUME TypesInv, SubsInv',
           ServerRead \/ \E s \in Sids : ServerSend(s)
    PROVE  WN'
<1>0. /\ table \subseteq 1..sidCounter
      /\ toClient \in Seq(Replies) /\ pongs \in Seq(Callbacks)
      /\ outbound \in Seq(Commands) /\ toServer \in Seq(Commands)
      /\ serverSubs \subseteq Sids /\ sent \in [Sids -> Nat] /\ limit \in [Sids -> 0..MaxLimit]
      /\ \A t \in Sids : sub[t].max \in 0..MaxLimit
      /\ messages \in Nat /\ Unlimited \in 0..MaxLimit
  BY SubscriptionsAssumption DEF TypesInv, WireTypes, OtherTypes, Unlimited
<1>a. \A t \in Sids : /\ sub[t].received \in Nat /\ Unread(t) \in Nat
                      /\ sub[t].received + Unread(t) <= messages /\ sent[t] <= messages
  BY UnreadIs DEF TypesInv, Numbers
<1>1. CASE ServerRead
  <2>1. /\ toServer' \in Seq(Commands)
        /\ UNCHANGED <<table, sub, sidCounter, outbound, pongs, messages>>
    BY <1>1, ServerReadDoes DEF subs, client
  <2>2. CASE ServerPing
    <3>1. toClient' = Append(toClient, Pong) /\ UNCHANGED <<serverSubs, sent, limit>>
      BY <2>2 DEF ServerPing
    <3>2. Pong \in Replies
      BY RepliesAre
    <3>3. toClient' \in Seq(Replies)
      BY <1>0, <3>1, <3>2
    <3>4. \A s \in Sids : Unread(s)' = Unread(s)
      <4>1. ASSUME NEW s \in Sids
            PROVE  Unread(s)' = Unread(s)
        <5>1. Count(Append(toClient, Pong), Msg(s)) =
                IF Pong = Msg(s) THEN Count(toClient, Msg(s)) + 1 ELSE Count(toClient, Msg(s))
          BY <1>0, <3>2, CountAppend
        <5>2. Msg(s) # Pong
          BY TailsAre
        <5> QED
          BY <3>1, <5>1, <5>2 DEF Unread
      <4> QED
        BY <4>1
    <3>5. WireTypes'
      BY <1>0, <2>1, <3>1, <3>3 DEF WireTypes
    <3>6. Numbers'
      BY <1>a, <2>1, <3>1, <3>4, NumbersKept
    <3> QED
      BY <1>0, <2>1, <3>5, <3>6 DEF WN
  <2>3. ASSUME NEW s \in Sids, ServerSub(s)
        PROVE  WN'
    <3>1. /\ serverSubs' \subseteq Sids /\ toClient' = toClient
          /\ sent' \in [Sids -> Nat] /\ limit' \in [Sids -> 0..MaxLimit]
          /\ \A t \in Sids : sent'[t] = sent[t] \/ sent'[t] = 0
      BY <1>0, <2>3 DEF ServerSub
    <3>2. WireTypes'
      BY <1>0, <2>1, <3>1 DEF WireTypes
    <3>3. \A t \in Sids : Unread(t)' = Unread(t)
      BY <3>1 DEF Unread
    <3>4. Numbers'
      <4>1. ASSUME NEW t \in Sids
            PROVE  sub'[t].received + Unread(t)' <= messages' /\ sent'[t] <= messages'
        <5>1. sub'[t].received = sub[t].received /\ Unread(t)' = Unread(t) /\ messages' = messages
          BY <2>1, <3>3
        <5>2. /\ sent'[t] = sent[t] \/ sent'[t] = 0
              /\ messages \in Nat /\ sent[t] <= messages
              /\ sub[t].received + Unread(t) <= messages
          BY <1>0, <1>a, <3>1
        <5> QED
          BY <5>1, <5>2
      <4> QED
        BY <4>1 DEF Numbers
    <3> QED
      BY <1>0, <2>1, <3>2, <3>4 DEF WN
  <2>4. ASSUME NEW s \in Sids, NEW max \in 0..MaxLimit, ServerUnsub(s, max)
        PROVE  WN'
    <3>1. /\ serverSubs' \subseteq Sids /\ toClient' = toClient
          /\ sent' = sent /\ limit' \in [Sids -> 0..MaxLimit]
      BY <1>0, <2>4 DEF ServerUnsub
    <3>2. WireTypes'
      BY <1>0, <2>1, <3>1 DEF WireTypes
    <3>3. \A t \in Sids : Unread(t)' = Unread(t)
      BY <3>1 DEF Unread
    <3>4. Numbers'
      BY <1>0, <1>a, <2>1, <3>1, <3>3 DEF Numbers
    <3> QED
      BY <1>0, <2>1, <3>2, <3>4 DEF WN
  <2> QED
    BY <1>1, <2>2, <2>3, <2>4, ServerReadDoes
<1>2. ASSUME NEW s \in Sids, ServerSend(s)
      PROVE  WN'
  <2>1. /\ messages' = messages + 1 /\ toClient' = Append(toClient, Msg(s))
        /\ sent' = [sent EXCEPT ![s] = @ + 1] /\ serverSubs' \subseteq serverSubs
        /\ UNCHANGED <<table, sub, sidCounter, outbound, pongs, toServer, limit>>
    BY <1>2 DEF ServerSend, subs, client
  <2>2. Msg(s) \in Replies
    BY RepliesAre
  <2>3. toClient' \in Seq(Replies)
    BY <1>0, <2>1, <2>2
  <2>4. sent' \in [Sids -> Nat] /\ \A t \in Sids : sent'[t] <= sent[t] + 1 /\ sent'[t] \in Nat
    <3>1. ASSUME NEW t \in Sids
          PROVE  sent'[t] <= sent[t] + 1 /\ sent'[t] \in Nat
      <4>1. sent[t] \in Nat
        BY <1>0
      <4>2. sent'[t] = IF t = s THEN sent[t] + 1 ELSE sent[t]
        BY <1>0, <2>1
      <4> QED
        BY <4>1, <4>2
    <3> QED
      BY <1>0, <2>1, <3>1
  <2>5. WireTypes'
    BY <1>0, <2>1, <2>3, <2>4 DEF WireTypes
  <2>6. ASSUME NEW t \in Sids
        PROVE  sub'[t].received + Unread(t)' <= messages' /\ sent'[t] <= messages'
    <3>1. Count(Append(toClient, Msg(s)), Msg(t)) =
            IF Msg(s) = Msg(t) THEN Count(toClient, Msg(t)) + 1 ELSE Count(toClient, Msg(t))
      BY <1>0, <2>2, CountAppend
    <3>2. Unread(t)' = Unread(t) \/ Unread(t)' = Unread(t) + 1
      BY <2>1, <3>1 DEF Unread
    <3>3. /\ sub[t].received \in Nat /\ Unread(t) \in Nat
          /\ sub[t].received + Unread(t) <= messages /\ sent[t] <= messages
          /\ sent'[t] <= sent[t] + 1 /\ sent'[t] \in Nat /\ sent[t] \in Nat
      BY <1>0, <1>a, <2>4
    <3>4. messages' = messages + 1 /\ messages \in Nat /\ sub' = sub
      BY <1>0, <2>1
    <3> QED
      BY <3>2, <3>3, <3>4
  <2>7. Numbers'
    BY <2>6 DEF Numbers
  <2> QED
    BY <1>0, <2>1, <2>5, <2>7 DEF WN
<1> QED
  BY <1>1, <1>2

LEMMA TypesNext == TypesInv /\ [Next]_vars => TypesInv'
<1> SUFFICES ASSUME TypesInv, [Next]_vars PROVE TypesInv'
  OBVIOUS
<1>1. SubsInv'
  BY SubsNext DEF TypesInv
<1>2. CASE UNCHANGED vars
  BY <1>2 DEF vars, subs, client, server, history, TypesInv, SubsInv, SubsOK, Sound, WireTypes,
     OtherTypes, Numbers, Unread
<1>3. CASE Next
  <2>1. OtherTypes'
    BY <1>3, OtherTypesNext
  <2>2. ASSUME NEW s \in Sids, SetTimeout(s) \/ CancelTimeout(s)
        PROVE  WN'
    <3>1. /\ \A t \in Sids : Same(t)
          /\ UNCHANGED <<table, sidCounter, client, server, messages>>
      BY <2>2, TimersDo
    <3>2. WireTypes'
      BY <3>1 DEF TypesInv, WireTypes, client, server, Same
    <3>3. Numbers'
      BY <3>1 DEF TypesInv, Numbers, Unread, server, Same
    <3> QED
      BY <3>1, <3>2, <3>3 DEF WN, TypesInv
  <2>3. Application => WN'
    BY <1>1, <2>2, SpeakingTypes, DrainingTypes, CloseTypes DEF Application
  <2>4. Reading => WN'
    BY <1>1, ReceiveMsgTypes, ReceivePongTypes, ConnectionTypes DEF Reading
  <2>5. WN'
    BY <1>1, <1>3, <2>3, <2>4, SpeakingTypes, DrainingTypes, ConnectionTypes, ServerTypes DEF Next
  <2> QED
    BY <1>1, <2>1, <2>5 DEF TypesInv, WN
<1> QED
  BY <1>2, <1>3

\* The types of the table, of the buffers and of the server (TypeOK), for any
\* number of subscriptions, calls, messages and connections: no commands or
\* messages but the ones of the protocol, nothing in the table before
\* subscribe() has made it, and no more received than was sent.
THEOREM SubscriptionTypes == Spec => []TypeOK
<1>1. TypesInv => TypeOK
  <2> SUFFICES ASSUME TypesInv PROVE TypeOK
    OBVIOUS
  <2>1. sub \in [Sids -> [received : 0..MaxMessages, max : 0..MaxLimit,
                          draining : BOOLEAN, timer : BOOLEAN]]
    <3>1. ASSUME NEW s \in Sids
          PROVE  sub[s] \in [received : 0..MaxMessages, max : 0..MaxLimit,
                             draining : BOOLEAN, timer : BOOLEAN]
      <4>1. sub[s] \in SubRecords /\ sub[s].max \in 0..MaxLimit
        BY DEF TypesInv, SubsInv, SubsOK, WireTypes
      <4>2. sub[s].received \in 0..MaxMessages
        <5>1. /\ sub[s].received \in Nat /\ Unread(s) \in Nat /\ messages \in 0..MaxMessages
              /\ sub[s].received + Unread(s) <= messages
          BY UnreadIs DEF TypesInv, Numbers, OtherTypes
        <5> QED
          BY <5>1, SubscriptionsAssumption
      <4> QED
        BY <4>1, <4>2 DEF SubRecords
    <3> QED
      BY <3>1 DEF TypesInv, SubsInv, SubsOK
  <2>2. sent \in [Sids -> 0..MaxMessages]
    <3>1. \A s \in Sids : sent[s] \in 0..MaxMessages
      <4>1. ASSUME NEW s \in Sids
            PROVE  sent[s] \in 0..MaxMessages
        <5>1. sent[s] \in Nat /\ sent[s] <= messages /\ messages \in 0..MaxMessages
          BY UnreadIs DEF TypesInv, Numbers, OtherTypes
        <5> QED
          BY <5>1, SubscriptionsAssumption
      <4> QED
        BY <4>1
    <3> QED
      BY <3>1 DEF TypesInv, WireTypes
  <2>3. pongs \in Seq(Sids \cup {Handshake, ConnectionDrain})
    BY DEF TypesInv, WireTypes, Callbacks
  <2> QED
    BY <2>1, <2>2, <2>3 DEF TypesInv, TypeOK, SubsInv, SubsOK, WireTypes, OtherTypes
<1> QED
  BY <1>1, TypesInit, TypesNext, PTL DEF Spec

-----------------------------------------------------------------------------
(* The connection                                                           *)

\* The steps that queue commands, and no others: calls, timers, drains and
\* what is read.
Speaking ==
    \/ \E max \in 0..MaxLimit : Subscribe(max)
    \/ \E s \in Sids, max \in 0..MaxLimit : Unsubscribe(s, max)
    \/ \E s \in Sids : SetTimeout(s) \/ CancelTimeout(s)
    \/ (\E s \in Sids : DrainSubscription(s)) \/ Drain \/ DrainFlush
    \/ \E s \in Sids : Timeout(s)
    \/ ReceiveMsg

LEMMA NothingSpoken ==
    ASSUME TypesInv, outbound' = outbound, Quiet
    PROVE  Spoken(<< >>)
<1>1. outbound \in Seq(Commands)
  BY DEF TypesInv, WireTypes
<1>2. << >> \in Seq(Commands) /\ Cat(outbound, << >>) = outbound
  BY <1>1, CatNil
<1> QED
  BY <1>2 DEF Spoken

\* The steps of the program, in three groups.
LEMMA StepsAre ==
    ASSUME [Next]_vars
    PROVE  \/ Speaking
           \/ Close \/ ReceivePong
           \/ FlushPending \/ ReceiveInfo \/ Lose \/ Redial \/ DialOk \/ DialFailed
           \/ ServerRead \/ \E s \in Sids : ServerSend(s)
           \/ UNCHANGED vars
BY DEF Next, Application, Reading, Speaking

LEMMA SpeakingDoes ==
    ASSUME TypesInv, Connection, Speaking
    PROVE  /\ conn # "closed" /\ \E w : Spoken(w)
           /\ toClient' = toClient \/ (toClient # << >> /\ toClient' = Tail(toClient))
<1>1. ASSUME NEW max \in 0..MaxLimit, Subscribe(max)
      PROVE  /\ conn # "closed" /\ \E w : Spoken(w)
             /\ toClient' = toClient
  BY <1>1, SubscribeDoes DEF Subscribed, Subscribe, Call
<1>2. ASSUME NEW s \in Sids, NEW max \in 0..MaxLimit, Unsubscribe(s, max)
      PROVE  /\ conn # "closed" /\ \E w : Spoken(w)
             /\ toClient' = toClient
  BY <1>2, UnsubscribeDoes DEF Limited, Unsubscribe, Call
<1>3. ASSUME NEW s \in Sids, SetTimeout(s) \/ CancelTimeout(s)
      PROVE  /\ conn # "closed" /\ \E w : Spoken(w)
             /\ toClient' = toClient
  <2>1. UNCHANGED <<client, server, messages, epoch>>
    BY <1>3, TimersDo
  <2>2. Spoken(<< >>)
    BY <2>1, NothingSpoken DEF client, server, Quiet
  <2> QED
    BY <1>3, <2>1, <2>2 DEF SetTimeout, CancelTimeout, Call, server
<1>4. ASSUME (\E s \in Sids : DrainSubscription(s)) \/ Drain
      PROVE  /\ conn # "closed" /\ \E w : Spoken(w)
             /\ toClient' = toClient
  BY <1>4, DrainDoes DEF Draining
<1>5. ASSUME DrainFlush
      PROVE  /\ conn # "closed" /\ \E w : Spoken(w)
             /\ toClient' = toClient
  BY <1>5, DrainFlushDoes
<1>6. ASSUME NEW s \in Sids, Timeout(s)
      PROVE  /\ conn # "closed" /\ \E w : Spoken(w)
             /\ toClient' = toClient
  <2>1. s \in table /\ Limited(s, Unlimited, sub) /\ toClient' = toClient
    BY <1>6, TimeoutDoes
  <2> QED
    BY <2>1 DEF Connection, Limited
<1>7. ASSUME ReceiveMsg
      PROVE  /\ conn # "closed" /\ \E w : Spoken(w)
             /\ toClient # << >> /\ toClient' = Tail(toClient)
  <2>1. toClient # << >> /\ toClient' = Tail(toClient)
    BY <1>7, ReceiveMsgDoes
  <2>2. \E w : Spoken(w)
    BY <1>7, ReceiveMsgDoes DEF Dropped, Delivered, LastOne
  <2>3. conn # "closed"
    BY <2>1 DEF Connection
  <2> QED
    BY <2>1, <2>2, <2>3
<1> QED
  BY <1>1, <1>2, <1>3, <1>4, <1>5, <1>6, <1>7 DEF Speaking

\* Nothing is flushed before INFO, and nothing is on a connection that is gone.
LEMMA ConnectionNext ==
    ASSUME TypesInv, Connection, [Next]_vars
    PROVE  Connection'
<1>1. CASE Speaking
  <2>1. /\ conn # "closed" /\ Quiet
        /\ toClient' = toClient \/ toClient # << >>
    BY <1>1, SpeakingDoes DEF Spoken
  <2> QED
    BY <2>1 DEF Connection, Quiet
<1>2. ASSUME Closed
      PROVE  Connection'
  BY <1>2, ClosedDoes DEF Connection
<1>3. CASE ReceivePong
  <2>1. /\ toClient # << >>
        /\ \/ HandshakeDone
           \/ \E s \in Sids : SubscriptionDrained(s)
           \/ Closed
    BY <1>3, ReceivePongDoes
  <2>2. CASE HandshakeDone
    BY <2>2 DEF HandshakeDone, Connection
  <2>3. ASSUME NEW s \in Sids, SubscriptionDrained(s)
        PROVE  Connection'
    BY <2>1, <2>3 DEF SubscriptionDrained, Connection
  <2> QED
    BY <1>2, <2>1, <2>2, <2>3
<1>4. CASE Close
  BY <1>2, <1>4 DEF Close
<1>5. CASE FlushPending
  BY <1>5 DEF FlushPending, Connection, subs
<1>6. CASE ReceiveInfo \/ Lose \/ DialOk \/ DialFailed
  BY <1>6 DEF ReceiveInfo, Lose, DialOk, DialFailed, Connection, subs, server
<1>7. CASE Redial
  BY <1>7 DEF Redial, Connection, subs, server
<1>8. CASE ServerRead
  <2>1. toServer # << >> /\ conn' = conn /\ infoReceived' = infoReceived
    BY <1>8 DEF ServerRead, client
  <2> QED
    BY <2>1 DEF Connection
<1>9. ASSUME NEW s \in Sids, ServerSend(s)
      PROVE  Connection'
  <2>1. s \in serverSubs /\ conn' = conn /\ infoReceived' = infoReceived
    BY <1>9 DEF ServerSend, client
  <2> QED
    BY <2>1 DEF Connection
<1>10. CASE UNCHANGED vars
  BY <1>10 DEF vars, subs, client, server, Connection
<1> QED
  BY <1>1, <1>3, <1>4, <1>5, <1>6, <1>7, <1>8, <1>9, <1>10, StepsAre

-----------------------------------------------------------------------------
(* No orphans                                                               *)

LEMMA EndedMore ==
    ASSUME NEW q, NEW s \in Sids, Ended(q, s), NEW w \in Seq(Commands), SubCmd(s) \notin ToSet(w)
    PROVE  Ended(Cat(q, w), s)
<1>1. PICK p \in Seq(Commands), r \in Seq(Commands), max \in 0..MaxLimit :
         Split(q, p, UnsubCmd(s, max), r) /\ SubCmd(s) \notin ToSet(r)
  BY DEF Ended
<1>2. PICK x \in Commands : x = UnsubCmd(s, max)
  BY CommandsAre
<1>3. Split(Cat(q, w), p, x, Cat(r, w)) /\ Cat(r, w) \in Seq(Commands)
  BY <1>1, <1>2, SplitMore
<1>4. ToSet(Cat(r, w)) = ToSet(r) \cup ToSet(w)
  BY InConcat DEF Cat
<1> QED
  BY <1>1, <1>2, <1>3, <1>4 DEF Ended

LEMMA EndedBefore ==
    ASSUME NEW q \in Seq(Commands), NEW s \in Sids, Ended(q, s), NEW w \in Seq(Commands)
    PROVE  Ended(Cat(w, q), s)
<1>1. PICK p \in Seq(Commands), r \in Seq(Commands), max \in 0..MaxLimit :
         Split(q, p, UnsubCmd(s, max), r) /\ SubCmd(s) \notin ToSet(r)
  BY DEF Ended
<1>2. PICK x \in Commands : x = UnsubCmd(s, max)
  BY CommandsAre
<1>3. Split(Cat(w, q), Cat(w, p), x, r) /\ Cat(w, p) \in Seq(Commands)
  BY <1>1, <1>2, SplitBefore
<1> QED
  BY <1>1, <1>2, <1>3 DEF Ended

LEMMA EndedFound ==
    ASSUME NEW q \in Seq(Commands), NEW s \in Sids, NEW max \in 0..MaxLimit,
           UnsubCmd(s, max) \in ToSet(q), SubCmd(s) \notin ToSet(q)
    PROVE  Ended(q, s)
<1>1. PICK x \in Commands : x = UnsubCmd(s, max)
  BY CommandsAre
<1>2. PICK p \in Seq(Commands), r \in Seq(Commands) : Split(q, p, x, r)
  BY <1>1, SplitFound
<1>3. ToSet(q) = (ToSet(p) \cup {x}) \cup ToSet(r)
  BY <1>2, SplitElements
<1> QED
  BY <1>1, <1>2, <1>3 DEF Ended

LEMMA EndedHere ==
    ASSUME NEW q \in Seq(Commands), NEW s \in Sids, NEW max \in 0..MaxLimit
    PROVE  Ended(Cat(q, <<UnsubCmd(s, max)>>), s)
<1>1. PICK x \in Commands : x = UnsubCmd(s, max) /\ x # SubCmd(s)
  <2>1. /\ UnsubCmd(s, max) \in Commands /\ UnsubCmd(s, max).op = "UNSUB"
        /\ SubCmd(s).op = "SUB"
    BY CommandsAre
  <2> QED
    BY <2>1
<1>2. PICK w \in Seq(Commands) : w = <<x>> /\ ToSet(w) = {x}
  BY OneIs
<1>3. Ended(w, s)
  BY <1>1, <1>2, EndedFound
<1>4. Ended(Cat(q, w), s)
  BY <1>3, EndedBefore
<1> QED
  BY <1>1, <1>2, <1>4, Zenon

LEMMA EndedTail ==
    ASSUME NEW q, NEW s \in Sids, Ended(q, s)
    PROVE  /\ q \in Seq(Commands) /\ q # << >>
           /\ \E max \in 0..MaxLimit : UnsubCmd(s, max) \in ToSet(q)
           /\ \/ Ended(Tail(q), s)
              \/ /\ \E max \in 0..MaxLimit : Head(q) = UnsubCmd(s, max)
                 /\ SubCmd(s) \notin ToSet(Tail(q))
<1>1. PICK p \in Seq(Commands), r \in Seq(Commands), max \in 0..MaxLimit :
         Split(q, p, UnsubCmd(s, max), r) /\ SubCmd(s) \notin ToSet(r)
  BY DEF Ended
<1>2. PICK x \in Commands : x = UnsubCmd(s, max)
  BY CommandsAre
<1>3. /\ q \in Seq(Commands) /\ q # << >>
      /\ \/ p = << >> /\ Head(q) = x /\ Tail(q) = r
         \/ p # << >> /\ Head(q) = Head(p) /\ Tail(p) \in Seq(Commands)
                      /\ Split(Tail(q), Tail(p), x, r)
  BY <1>1, <1>2, SplitTail
<1>4. ToSet(q) = (ToSet(p) \cup {x}) \cup ToSet(r)
  BY <1>1, <1>2, SplitElements
<1> QED
  BY <1>1, <1>2, <1>3, <1>4 DEF Ended

\* What holds of a subscription that is cancelled and not drained.
ForgottenOne(s) ==
    \/ Ended(outbound, s)
    \/ /\ SubCmd(s) \notin ToSet(outbound)
       /\ \/ Ended(toServer, s)
          \/ /\ SubCmd(s) \notin ToSet(toServer)
             /\ s \in serverSubs => limit[s] # Unlimited

LEMMA ForgottenIs == Forgotten <=> \A s \in Sids \ (table \cup drained) : ForgottenOne(s)
  BY DEF Forgotten, ForgottenOne

\* Anything but SUB may be queued.
LEMMA ForgottenSpoken ==
    ASSUME TypesInv, NEW w, Spoken(w), NEW s \in Sids, SubCmd(s) \notin ToSet(w), ForgottenOne(s)
    PROVE  ForgottenOne(s)'
<1>1. /\ outbound \in Seq(Commands) /\ w \in Seq(Commands) /\ outbound' = Cat(outbound, w)
      /\ UNCHANGED <<toServer, serverSubs, limit>>
  BY DEF TypesInv, WireTypes, Spoken, Quiet
<1>2. ToSet(outbound') = ToSet(outbound) \cup ToSet(w)
  BY <1>1, InConcat DEF Cat
<1>3. CASE Ended(outbound, s)
  BY <1>1, <1>3, EndedMore DEF ForgottenOne
<1>4. CASE ~Ended(outbound, s)
  <2>1. /\ SubCmd(s) \notin ToSet(outbound)
        /\ \/ Ended(toServer, s)
           \/ /\ SubCmd(s) \notin ToSet(toServer)
              /\ s \in serverSubs => limit[s] # Unlimited
    BY <1>4 DEF ForgottenOne
  <2>2. SubCmd(s) \notin ToSet(outbound')
    BY <1>2, <2>1
  <2> QED
    BY <1>1, <2>1, <2>2 DEF ForgottenOne
<1> QED
  BY <1>3, <1>4

\* unsubscribe() queues the UNSUB.
LEMMA ForgottenUnsub ==
    ASSUME TypesInv, NEW s \in Sids, NEW max \in 0..MaxLimit, Spoken(<<UnsubCmd(s, max)>>)
    PROVE  /\ ForgottenOne(s)'
           /\ \A t \in Sids : SubCmd(t) \notin ToSet(<<UnsubCmd(s, max)>>)
<1>1. outbound \in Seq(Commands) /\ outbound' = Cat(outbound, <<UnsubCmd(s, max)>>)
  BY DEF TypesInv, WireTypes, Spoken
<1>2. Ended(outbound', s)
  BY <1>1, EndedHere
<1>3. PICK x \in Commands : x = UnsubCmd(s, max) /\ x.op = "UNSUB"
  BY CommandsAre
<1>4. ToSet(<<x>>) = {x}
  BY OneIs
<1>5. \A t \in Sids : SubCmd(t).op = "SUB"
  BY CommandsAre
<1> QED
  BY <1>2, <1>3, <1>4, <1>5 DEF ForgottenOne

LEMMA NotInNone == \A x : x \notin ToSet(<< >>)
BY DEF ToSet

LEMMA ForgottenSpeaking ==
    ASSUME TypesInv, Forgotten, Speaking
    PROVE  Forgotten'
<1> DEFINE Goal == \A s \in Sids \ (table' \cup drained') : ForgottenOne(s)'
<1>0. \A s \in Sids \ (table \cup drained) : ForgottenOne(s)
  BY ForgottenIs
<1>a. Goal => Forgotten'
  BY DEF Forgotten, ForgottenOne
<1> HIDE DEF Goal
<1>1. ASSUME NEW max \in 0..MaxLimit, Subscribe(max)
      PROVE  Goal
  <2>1. PICK n, w : Subscribed(n, max, w)
    BY <1>1, SubscribeDoes
  <2>2. drained' = drained
    BY <1>1, SubscribeDoes
  <2>3. /\ n \in Sids /\ Spoken(w) /\ table' = table \cup {n}
        /\ ToSet(w) \subseteq {SubCmd(n), UnsubCmd(n, max)}
    BY <2>1 DEF Subscribed
  <2>4. ASSUME NEW s \in Sids, s # n
        PROVE  SubCmd(s) \notin ToSet(w)
    <3>1. /\ SubCmd(s).op = "SUB" /\ SubCmd(s).sid = s /\ SubCmd(n).sid = n
          /\ UnsubCmd(n, max).op = "UNSUB"
      BY <2>3, CommandsAre
    <3> QED
      BY <2>3, <2>4, <3>1
  <2>5. ASSUME NEW s \in Sids \ (table' \cup drained')
        PROVE  ForgottenOne(s)'
    <3>1. s \in Sids \ (table \cup drained) /\ s # n
      BY <2>2, <2>3, <2>5
    <3> QED
      BY <1>0, <2>3, <2>4, <3>1, ForgottenSpoken
  <2> QED
    BY <2>5 DEF Goal
<1>2. ASSUME NEW s \in Sids, NEW max \in 0..MaxLimit, Spoken(<<UnsubCmd(s, max)>>),
             \A t \in table : t # s => t \in table', drained' = drained
      PROVE  Goal
  <2>1. ASSUME NEW t \in Sids \ (table' \cup drained')
        PROVE  ForgottenOne(t)'
    <3>1. CASE t = s
      BY <1>2, <3>1, ForgottenUnsub
    <3>2. CASE t # s
      <4>1. ForgottenOne(t)
        BY <1>0, <1>2, <2>1, <3>2
      <4>2. SubCmd(t) \notin ToSet(<<UnsubCmd(s, max)>>)
        BY <1>2, ForgottenUnsub
      <4> QED
        BY <1>2, <4>1, <4>2, ForgottenSpoken
    <3> QED
      BY <3>1, <3>2
  <2> QED
    BY <2>1 DEF Goal
<1>3. ASSUME NEW w, Spoken(w), \A s \in Sids : SubCmd(s) \notin ToSet(w),
             table' = table, drained' = drained
      PROVE  Goal
  BY <1>0, <1>3, ForgottenSpoken DEF Goal
<1>4. ASSUME NEW s \in Sids, NEW max \in 0..MaxLimit, Unsubscribe(s, max)
      PROVE  Goal
  BY <1>2, <1>4, UnsubscribeDoes DEF Limited
<1>5. Unlimited \in 0..MaxLimit
  BY SubscriptionsAssumption DEF Unlimited
<1>6. ASSUME NEW s \in Sids, Timeout(s)
      PROVE  Goal
  BY <1>2, <1>5, <1>6, TimeoutDoes DEF Limited
<1>7. ASSUME NEW s \in Sids, SetTimeout(s) \/ CancelTimeout(s)
      PROVE  Goal
  <2>1. UNCHANGED <<table, client, server, messages, epoch, drained>>
    BY <1>7, TimersDo
  <2>2. Spoken(<< >>)
    BY <2>1, NothingSpoken DEF client, server, Quiet
  <2> QED
    BY <1>3, <2>1, <2>2, NotInNone
<1>8. ASSUME (\E s \in Sids : DrainSubscription(s)) \/ Drain
      PROVE  Goal
  <2>1. PICK S, D, O : S \in SUBSET table /\ Draining(S, D, O)
    BY <1>8, DrainDoes
  <2>2. UNCHANGED <<table, drained>>
    BY <1>8, DrainDoes
  <2>3. S \subseteq Sids
    BY <2>1, SidsAre
  <2>4. \A s \in Sids : SubCmd(s) \notin ToSet(D)
    <3>1. \A c \in ToSet(D) : c = PingCmd \/ \E t \in S : c = UnsubCmd(t, Unlimited)
      BY <2>1 DEF Draining, Drains
    <3>2. /\ PingCmd.op = "PING" /\ \A s \in Sids : SubCmd(s).op = "SUB"
          /\ \A t \in Sids : UnsubCmd(t, Unlimited).op = "UNSUB"
      BY <1>5, CommandsAre
    <3> QED
      BY <2>3, <3>1, <3>2
  <2>5. Spoken(D)
    BY <2>1 DEF Draining
  <2> QED
    BY <1>3, <2>2, <2>4, <2>5
<1>9. ASSUME DrainFlush
      PROVE  Goal
  <2>1. PingCmd \in Commands /\ Spoken(<<PingCmd>>) /\ UNCHANGED <<table, drained>>
    BY <1>9, DrainFlushDoes
  <2>2. ToSet(<<PingCmd>>) = {PingCmd}
    BY <2>1, OneIs
  <2>3. \A s \in Sids : SubCmd(s) \notin ToSet(<<PingCmd>>)
    <3>1. PingCmd.op = "PING" /\ \A s \in Sids : SubCmd(s).op = "SUB"
      BY CommandsAre
    <3> QED
      BY <2>2, <3>1
  <2> QED
    BY <1>3, <2>1, <2>3
<1>10. ASSUME ReceiveMsg
       PROVE  Goal
  <2>1. PICK s \in Sids : Dropped(s) \/ Delivered(s) \/ LastOne(s)
    BY <1>10, ReceiveMsgDoes
  <2>2. drained' = drained
    BY <1>10, ReceiveMsgDoes
  <2>3. CASE Dropped(s) \/ Delivered(s)
    BY <1>3, <2>2, <2>3, NotInNone DEF Dropped, Delivered
  <2>4. CASE LastOne(s)
    BY <1>2, <1>5, <2>2, <2>4 DEF LastOne
  <2> QED
    BY <2>1, <2>3, <2>4
<1> QED
  BY <1>a, <1>1, <1>4, <1>6, <1>7, <1>8, <1>9, <1>10 DEF Speaking

\* What the server reads: it forgets s with the UNSUB of s, or has a limit for it.
LEMMA ForgottenRead ==
    ASSUME TypesInv, ServerRead, NEW s \in Sids, ForgottenOne(s)
    PROVE  ForgottenOne(s)'
<1>0. /\ toServer \in Seq(Commands) /\ limit \in [Sids -> 0..MaxLimit]
  BY DEF TypesInv, WireTypes
<1>1. /\ toServer # << >> /\ toServer' = Tail(toServer) /\ Tail(toServer) \in Seq(Commands)
      /\ outbound' = outbound
      /\ \/ Head(toServer) = PingCmd /\ ServerPing
         \/ \E t \in Sids : Head(toServer) = SubCmd(t) /\ ServerSub(t)
         \/ \E t \in Sids, max \in 0..MaxLimit :
               Head(toServer) = UnsubCmd(t, max) /\ ServerUnsub(t, max)
  BY ServerReadDoes DEF client
<1>2. CASE Ended(outbound, s)
  BY <1>1, <1>2 DEF ForgottenOne
<1>3. CASE ~Ended(outbound, s) /\ Ended(toServer, s)
  <2>1. SubCmd(s) \notin ToSet(outbound)
    BY <1>3 DEF ForgottenOne
  <2>2. CASE Ended(Tail(toServer), s)
    BY <1>1, <2>1, <2>2 DEF ForgottenOne
  <2>3. ASSUME NEW max \in 0..MaxLimit, Head(toServer) = UnsubCmd(s, max),
               SubCmd(s) \notin ToSet(Tail(toServer))
        PROVE  ForgottenOne(s)'
    <3>1. ServerUnsub(s, max)
      <4>1. /\ UnsubCmd(s, max).op = "UNSUB" /\ UnsubCmd(s, max).sid = s
            /\ UnsubCmd(s, max).max = max /\ PingCmd.op = "PING"
            /\ \A t \in Sids : SubCmd(t).op = "SUB"
            /\ \A t \in Sids, m \in 0..MaxLimit :
                  UnsubCmd(t, m).sid = t /\ UnsubCmd(t, m).max = m
        BY CommandsAre
      <4>2. Head(toServer) # PingCmd /\ \A t \in Sids : Head(toServer) # SubCmd(t)
        BY <2>3, <4>1
      <4>3. PICK t \in Sids, m \in 0..MaxLimit :
               Head(toServer) = UnsubCmd(t, m) /\ ServerUnsub(t, m)
        BY <1>1, <4>2
      <4>4. t = s /\ m = max
        BY <2>3, <4>1, <4>3
      <4> QED
        BY <4>3, <4>4
    <3>2. s \in serverSubs' => limit'[s] # Unlimited
      BY <1>0, <3>1 DEF ServerUnsub
    <3> QED
      BY <1>1, <2>1, <2>3, <3>2 DEF ForgottenOne
  <2> QED
    BY <1>3, <2>2, <2>3, EndedTail
<1>4. CASE ~Ended(outbound, s) /\ ~Ended(toServer, s)
  <2>1. /\ SubCmd(s) \notin ToSet(outbound) /\ SubCmd(s) \notin ToSet(toServer)
        /\ s \in serverSubs => limit[s] # Unlimited
    BY <1>4 DEF ForgottenOne
  <2>2. ToSet(toServer) = {Head(toServer)} \cup ToSet(Tail(toServer))
    BY <1>0, <1>1, HeadTail
  <2>3. s \in serverSubs' => limit'[s] # Unlimited
    <3>1. CASE ServerPing
      BY <2>1, <3>1 DEF ServerPing
    <3>2. ASSUME NEW t \in Sids, Head(toServer) = SubCmd(t), ServerSub(t)
          PROVE  s \in serverSubs' => limit'[s] # Unlimited
      BY <1>0, <2>1, <2>2, <3>2 DEF ServerSub
    <3>3. ASSUME NEW t \in Sids, NEW max \in 0..MaxLimit, ServerUnsub(t, max)
          PROVE  s \in serverSubs' => limit'[s] # Unlimited
      BY <1>0, <2>1, <3>3 DEF ServerUnsub
    <3> QED
      BY <1>1, <3>1, <3>2, <3>3
  <2> QED
    BY <1>1, <2>1, <2>2, <2>3 DEF ForgottenOne
<1> QED
  BY <1>2, <1>3, <1>4

LEMMA ForgottenNext ==
    ASSUME TypesInv, Connection, Forgotten, [Next]_vars
    PROVE  Forgotten'
<1>0. /\ outbound \in Seq(Commands) /\ toServer \in Seq(Commands)
      /\ \A s \in Sids \ (table \cup drained) : ForgottenOne(s)
  BY ForgottenIs DEF TypesInv, WireTypes
<1>a. ASSUME \A s \in Sids \ (table' \cup drained') : ForgottenOne(s)'
      PROVE  Forgotten'
  BY <1>a DEF Forgotten, ForgottenOne
<1>1. CASE Speaking
  BY <1>1, ForgottenSpeaking
<1>2. ASSUME Closed
      PROVE  Forgotten'
  <2>1. outbound' = << >> /\ toServer' = << >> /\ serverSubs' = {}
    BY <1>2, ClosedDoes
  <2>2. \A s \in Sids : SubCmd(s) \notin ToSet(outbound') /\ SubCmd(s) \notin ToSet(toServer')
    BY <2>1, NotInNone, Zenon
  <2> QED
    BY <2>1, <2>2 DEF Forgotten
<1>3. CASE Close
  BY <1>2, <1>3 DEF Close
<1>4. CASE HandshakeDone
  <2>1. /\ toServer' = Cat(toServer, SendSubscriptions) /\ outbound' = StripPendingSubs(outbound)
        /\ UNCHANGED <<table, drained, serverSubs, limit>>
    BY <1>4 DEF HandshakeDone, subs, Cat
  <2>2. /\ SendSubscriptions \in Seq(Commands) /\ outbound' \in Seq(Commands)
        /\ \A c : c \in ToSet(outbound') <=> c \in ToSet(outbound) /\ c.op # "SUB"
    BY <2>1, SendSubscriptionsAre, StripPendingSubsIs
  <2>3. ASSUME NEW s \in Sids \ (table' \cup drained')
        PROVE  ForgottenOne(s)'
    <3>1. s \in Sids /\ s \notin table /\ ForgottenOne(s)
      BY <1>0, <2>1
    <3>2. SubCmd(s) \notin ToSet(SendSubscriptions)
      <4>1. SubCmd(s).op = "SUB" /\ SubCmd(s).sid = s
        BY <3>1, CommandsAre
      <4>2. ASSUME SubCmd(s) \in ToSet(SendSubscriptions)
            PROVE  FALSE
        <5>1. PICK t \in table, m \in 0..MaxLimit : SubCmd(s) = SubCmd(t) \/ SubCmd(s) = UnsubCmd(t, m)
          <6>1. PICK t \in table :
                   \/ SubCmd(s) = SubCmd(t)
                   \/ /\ sub[t].max - sub[t].received \in 1..MaxLimit
                      /\ SubCmd(s) = UnsubCmd(t, sub[t].max - sub[t].received)
            BY <4>2, SendSubscriptionsAre
          <6>2. 0 \in 0..MaxLimit /\ 1..MaxLimit \subseteq 0..MaxLimit
            BY SubscriptionsAssumption
          <6> QED
            BY <6>1, <6>2
        <5>2. t \in Sids
          BY SidsAre
        <5>3. SubCmd(t).sid = t /\ UnsubCmd(t, m).op = "UNSUB"
          BY <5>2, CommandsAre
        <5> QED
          BY <3>1, <4>1, <5>1, <5>3
      <4> QED
        BY <4>2
    <3>3. SubCmd(s) \notin ToSet(outbound')
      <4>1. SubCmd(s).op = "SUB"
        BY <3>1, CommandsAre
      <4> QED
        BY <2>2, <4>1
    <3>4. CASE Ended(outbound, s)
      <4>1. PICK max \in 0..MaxLimit : UnsubCmd(s, max) \in ToSet(outbound)
        BY <3>1, <3>4, EndedTail
      <4>2. UnsubCmd(s, max).op = "UNSUB"
        BY <3>1, CommandsAre
      <4>3. UnsubCmd(s, max) \in ToSet(outbound')
        BY <2>2, <4>1, <4>2
      <4> QED
        BY <2>2, <3>1, <3>3, <4>3, EndedFound DEF ForgottenOne
    <3>5. CASE ~Ended(outbound, s) /\ Ended(toServer, s)
      BY <2>1, <2>2, <3>1, <3>2, <3>3, <3>5, EndedMore DEF ForgottenOne
    <3>6. CASE ~Ended(outbound, s) /\ ~Ended(toServer, s)
      <4>1. SubCmd(s) \notin ToSet(toServer) /\ (s \in serverSubs => limit[s] # Unlimited)
        BY <3>1, <3>6 DEF ForgottenOne
      <4>2. ToSet(toServer') = ToSet(toServer) \cup ToSet(SendSubscriptions)
        BY <1>0, <2>1, <2>2, InConcat DEF Cat
      <4> QED
        BY <2>1, <3>2, <3>3, <4>1, <4>2 DEF ForgottenOne
    <3> QED
      BY <3>4, <3>5, <3>6
  <2> QED
    BY <1>a, <2>3
<1>5. ASSUME NEW t \in Sids, SubscriptionDrained(t), UNCHANGED <<epoch, messages>>
      PROVE  Forgotten'
  <2>1. table' = table \ {t} /\ drained' = drained \cup {t} /\ Spoken(<< >>)
    BY <1>5, SubscriptionDrainedDoes
  <2>2. \A s \in Sids \ (table' \cup drained') : ForgottenOne(s)'
    BY <1>0, <2>1, ForgottenSpoken, NotInNone
  <2> QED
    BY <1>a, <2>2
<1>6. CASE ReceivePong
  BY <1>2, <1>4, <1>5, <1>6, ReceivePongDoes
<1>7. CASE FlushPending
  <2>1. /\ outbound # << >> /\ outbound' = << >>
        /\ toServer' = IF conn = "down" THEN toServer ELSE Cat(toServer, outbound)
        /\ UNCHANGED <<table, drained, serverSubs, limit>>
    BY <1>7 DEF FlushPending, subs, history, Cat
  <2>2. ASSUME NEW s \in Sids \ (table' \cup drained')
        PROVE  ForgottenOne(s)'
    <3>1. s \in Sids /\ ForgottenOne(s)
      BY <1>0, <2>1
    <3>2. SubCmd(s) \notin ToSet(outbound')
      BY <2>1, NotInNone, Zenon
    <3>3. CASE conn = "down"
      <4>1. toServer' = << >> /\ serverSubs' = {}
        BY <2>1, <3>3 DEF Connection
      <4>2. SubCmd(s) \notin ToSet(toServer')
        BY <4>1, NotInNone, Zenon
      <4> QED
        BY <3>2, <4>1, <4>2 DEF ForgottenOne
    <3>4. CASE conn # "down"
      <4>1. toServer' = Cat(toServer, outbound)
        BY <2>1, <3>4
      <4>2. CASE Ended(outbound, s)
        BY <1>0, <3>1, <3>2, <4>1, <4>2, EndedBefore DEF ForgottenOne
      <4>3. CASE ~Ended(outbound, s) /\ Ended(toServer, s)
        BY <1>0, <3>1, <3>2, <4>1, <4>3, EndedMore DEF ForgottenOne
      <4>4. CASE ~Ended(outbound, s) /\ ~Ended(toServer, s)
        <5>1. ToSet(toServer') = ToSet(toServer) \cup ToSet(outbound)
          BY <1>0, <4>1, InConcat DEF Cat
        <5> QED
          BY <2>1, <3>1, <3>2, <4>4, <5>1 DEF ForgottenOne
      <4> QED
        BY <4>2, <4>3, <4>4
    <3> QED
      BY <3>3, <3>4
  <2> QED
    BY <1>a, <2>2
<1>8. CASE ReceiveInfo
  <2>1. /\ toServer' = Append(toServer, PingCmd)
        /\ UNCHANGED <<table, drained, outbound, serverSubs, limit>>
    BY <1>8 DEF ReceiveInfo, subs, history
  <2>2. PingCmd \in Commands /\ <<PingCmd>> \in Seq(Commands) /\ ToSet(<<PingCmd>>) = {PingCmd}
    BY CommandsAre, OneIs
  <2>3. toServer' = Cat(toServer, <<PingCmd>>) /\ ToSet(toServer') = ToSet(toServer) \cup {PingCmd}
    <3>1. toServer' = Cat(toServer, <<PingCmd>>)
      BY <1>0, <2>1, <2>2 DEF Cat
    <3>2. ToSet(toServer') = ToSet(toServer) \cup {PingCmd}
      BY <1>0, <2>1, <2>2, InAppend
    <3> QED
      BY <3>1, <3>2
  <2>4. ASSUME NEW s \in Sids \ (table' \cup drained')
        PROVE  ForgottenOne(s)'
    <3>1. s \in Sids /\ ForgottenOne(s)
      BY <1>0, <2>1
    <3>2. SubCmd(s) # PingCmd
      <4>1. SubCmd(s).op = "SUB" /\ PingCmd.op = "PING"
        BY <3>1, CommandsAre
      <4> QED
        BY <4>1
    <3>3. SubCmd(s) \notin ToSet(<<PingCmd>>)
      BY <2>2, <3>2
    <3>4. Ended(toServer, s) => Ended(toServer', s)
      BY <2>2, <2>3, <3>1, <3>3, EndedMore
    <3> QED
      BY <2>1, <2>3, <3>1, <3>2, <3>4 DEF ForgottenOne
  <2> QED
    BY <1>a, <2>4
<1>9. CASE Lose
  <2>1. /\ toServer' = << >> /\ serverSubs' = {} /\ UNCHANGED <<table, drained, outbound>>
    BY <1>9 DEF Lose, subs
  <2>2. \A s \in Sids : SubCmd(s) \notin ToSet(toServer')
    BY <2>1, NotInNone, Zenon
  <2> QED
    BY <1>0, <1>a, <2>1, <2>2 DEF ForgottenOne
<1>10. CASE Redial
  <2>1. /\ outbound' \in Seq({PingCmd}) /\ conn = "down"
        /\ UNCHANGED <<table, drained, toServer, serverSubs, limit>>
    BY <1>10, RedialDoes DEF subs, server, history
  <2>2. toServer' = << >> /\ serverSubs' = {}
    BY <2>1 DEF Connection
  <2>3. \A s \in Sids : SubCmd(s) \notin ToSet(toServer')
    BY <2>2, NotInNone, Zenon
  <2>4. \A s \in Sids : SubCmd(s) \notin ToSet(outbound')
    <3>1. ToSet(outbound') \subseteq {PingCmd}
      BY <2>1 DEF ToSet
    <3>2. PingCmd.op = "PING" /\ \A s \in Sids : SubCmd(s).op = "SUB"
      BY CommandsAre
    <3> QED
      BY <3>1, <3>2
  <2> QED
    BY <1>a, <2>2, <2>3, <2>4 DEF ForgottenOne
<1>11. CASE DialOk \/ DialFailed
  BY <1>0, <1>a, <1>11 DEF DialOk, DialFailed, subs, server, history, ForgottenOne
<1>12. CASE ServerRead
  <2>1. table' = table /\ drained' = drained
    BY <1>12 DEF ServerRead, subs
  <2> QED
    BY <1>0, <1>a, <1>12, <2>1, ForgottenRead
<1>13. ASSUME NEW s \in Sids, ServerSend(s)
       PROVE  Forgotten'
  BY <1>0, <1>a, <1>13 DEF ServerSend, subs, client, ForgottenOne
<1>14. CASE UNCHANGED vars
  BY <1>0, <1>a, <1>14 DEF vars, subs, client, server, history, ForgottenOne
<1> QED
  BY <1>1, <1>3, <1>6, <1>7, <1>8, <1>9, <1>10, <1>11, <1>12, <1>13, <1>14, StepsAre

\* No subscription that the client has cancelled stays on the server for ever
\* (NoOrphans): the last that is said of it is UNSUB, through the buffer, the
\* rewriting of the buffer by a reconnect and the restoring of the others.
THEOREM NoneLeft == Spec => []NoOrphans
<1> DEFINE IInv == TypesInv /\ Connection /\ Forgotten
<1>1. Init => IInv
  <2>1. Init => TypesInv
    BY TypesInit
  <2>2. Init => Connection
    BY DEF Init, Connection
  <2>3. ASSUME Init PROVE Forgotten
    <3>1. outbound = << >> /\ toServer = << >> /\ serverSubs = {}
      BY <2>3 DEF Init
    <3>2. \A s \in Sids : SubCmd(s) \notin ToSet(outbound) /\ SubCmd(s) \notin ToSet(toServer)
      BY <3>1, NotInNone, Zenon
    <3> QED
      BY <3>1, <3>2 DEF Forgotten
  <2> QED
    BY <2>1, <2>2, <2>3
<1>2. IInv /\ [Next]_vars => IInv'
  BY TypesNext, ConnectionNext, ForgottenNext
<1>3. IInv => NoOrphans
  <2> SUFFICES ASSUME IInv, Quiescent, NEW s \in serverSubs \ (table \cup drained)
               PROVE  limit[s] # Unlimited
    BY DEF NoOrphans
  <2>1. s \in Sids
    BY DEF TypesInv, WireTypes
  <2>2. outbound = << >> /\ toServer = << >>
    BY DEF Quiescent
  <2>3. ~Ended(outbound, s) /\ ~Ended(toServer, s)
    BY <2>1, <2>2, EndedTail
  <2> QED
    BY <2>1, <2>3 DEF Forgotten
<1> QED
  BY <1>1, <1>2, <1>3, PTL DEF Spec

-----------------------------------------------------------------------------
(* What is issued                                                           *)

LEMMA IssuedSpoken ==
    ASSUME TypesInv, NEW w, Spoken(w)
    PROVE  Issued' = Issued \cup ToSet(w) /\ Line' = Cat(Line, w) /\ Line \in Seq(Commands)
<1>1. /\ outbound \in Seq(Commands) /\ toServer \in Seq(Commands) /\ w \in Seq(Commands)
      /\ outbound' = Cat(outbound, w) /\ toServer' = toServer
  BY DEF TypesInv, WireTypes, Spoken, Quiet
<1>2. ToSet(outbound') = ToSet(outbound) \cup ToSet(w)
  BY <1>1, InConcat DEF Cat
<1>3. Cat(Cat(toServer, outbound), w) = Cat(toServer, Cat(outbound, w))
  BY <1>1, CatAssoc
<1>4. Line \in Seq(Commands)
  BY <1>1, CatSeq DEF Line
<1>5. Line' = Cat(Line, w)
  BY <1>1, <1>3, Zenon DEF Line
<1>6. Issued' = Issued \cup ToSet(w)
  BY <1>1, <1>2 DEF Issued
<1> QED
  BY <1>4, <1>5, <1>6

LEMMA IssuedIs ==
    ASSUME TypesInv
    PROVE  Issued \subseteq Commands /\ Issued = ToSet(Line) /\ Line \in Seq(Commands)
<1>1. outbound \in Seq(Commands) /\ toServer \in Seq(Commands)
  BY DEF TypesInv, WireTypes
<1>2. ToSet(outbound) \subseteq Commands /\ ToSet(toServer) \subseteq Commands
  BY <1>1 DEF ToSet
<1>3. ToSet(Cat(toServer, outbound)) = ToSet(toServer) \cup ToSet(outbound)
  BY <1>1, InConcat DEF Cat
<1>4. Cat(toServer, outbound) \in Seq(Commands)
  BY <1>1, CatSeq
<1> QED
  BY <1>2, <1>3, <1>4 DEF Issued, Line

\* A flush moves the commands, unless there is no stream.
LEMMA FlushDoes ==
    ASSUME TypesInv, Connection, FlushPending
    PROVE  /\ UNCHANGED <<subs, conn, pongs, toClient, serverSubs, sent, limit, history>>
           /\ conn = "down" => Issued' = {}
           /\ conn # "down" => Issued' = Issued /\ Line' = Line /\ toServer' = Cat(toServer, outbound)
<1>0. outbound \in Seq(Commands) /\ toServer \in Seq(Commands)
  BY DEF TypesInv, WireTypes
<1>1. /\ outbound' = << >>
      /\ toServer' = IF conn = "down" THEN toServer ELSE Cat(toServer, outbound)
      /\ UNCHANGED <<subs, conn, pongs, toClient, serverSubs, sent, limit, history>>
  BY DEF FlushPending, Cat
<1>2. ToSet(outbound') = {}
  BY <1>1, NotInNone, Zenon
<1>3. CASE conn = "down"
  <2>1. toServer' = << >>
    BY <1>1, <1>3 DEF Connection
  <2>2. ToSet(toServer') = {}
    BY <2>1, NotInNone, Zenon
  <2> QED
    BY <1>1, <1>2, <1>3, <2>2 DEF Issued
<1>4. CASE conn # "down"
  <2>1. toServer' = Cat(toServer, outbound)
    BY <1>1, <1>4
  <2>2. ToSet(Cat(toServer, outbound)) = ToSet(toServer) \cup ToSet(outbound)
    BY <1>0, InConcat DEF Cat
  <2>3. Issued' = Issued
    BY <1>2, <2>1, <2>2 DEF Issued
  <2>4. Cat(toServer, outbound) \in Seq(Commands)
    BY <1>0, CatSeq
  <2>5. Cat(Cat(toServer, outbound), << >>) = Cat(toServer, outbound)
    BY <2>4, CatNil
  <2>6. Line' = Line
    BY <1>1, <2>1, <2>5, Zenon DEF Line
  <2> QED
    BY <1>1, <1>4, <2>1, <2>3, <2>6
<1> QED
  BY <1>3, <1>4

\* The PONG of the handshake: the SUBs of the buffer give way to the ones of
\* the table.
LEMMA HandshakeDoes ==
    ASSUME TypesInv, HandshakeDone
    PROVE  /\ Issued' \subseteq Issued \cup ToSet(SendSubscriptions)
           /\ ToSet(SendSubscriptions) \subseteq Issued'
           /\ Count(Line', PingCmd) = Count(Line, PingCmd)
<1>0. outbound \in Seq(Commands) /\ toServer \in Seq(Commands)
  BY DEF TypesInv, WireTypes
<1>1. toServer' = Cat(toServer, SendSubscriptions) /\ outbound' = StripPendingSubs(outbound)
  BY DEF HandshakeDone, Cat
<1>2. PICK q \in Seq(Commands) : q = SendSubscriptions /\ Count(q, PingCmd) = 0
  BY SendSubscriptionsAre
<1>3. PICK r \in Seq(Commands) : /\ r = StripPendingSubs(outbound)
                                /\ ToSet(r) \subseteq ToSet(outbound)
                                /\ Count(r, PingCmd) = Count(outbound, PingCmd)
  BY StripPendingSubsIs
<1>4. ToSet(Cat(toServer, q)) = ToSet(toServer) \cup ToSet(q) /\ Cat(toServer, q) \in Seq(Commands)
  BY <1>0, InConcat, CatSeq DEF Cat
<1>5. Issued' = (ToSet(toServer) \cup ToSet(q)) \cup ToSet(r)
  BY <1>1, <1>2, <1>3, <1>4, Zenon DEF Issued
<1>6. Count(Line', PingCmd) = Count(Line, PingCmd)
  <2>1. Count(Cat(toServer, outbound), PingCmd) = Count(toServer, PingCmd) + Count(outbound, PingCmd)
    BY <1>0, CountCat
  <2>2. Count(Cat(toServer, q), PingCmd) = Count(toServer, PingCmd) + Count(q, PingCmd)
    BY <1>0, CountCat
  <2>3. Count(Cat(Cat(toServer, q), r), PingCmd) = Count(Cat(toServer, q), PingCmd) + Count(r, PingCmd)
    BY <1>4, CountCat
  <2>4. Count(toServer, PingCmd) \in Nat /\ Count(outbound, PingCmd) \in Nat
    BY <1>0, CountType
  <2>5. Line' = Cat(Cat(toServer, q), r) /\ Line = Cat(toServer, outbound)
    BY <1>1, <1>2, <1>3, Zenon DEF Line
  <2> QED
    BY <1>2, <1>3, <2>1, <2>2, <2>3, <2>4, <2>5
<1> QED
  BY <1>2, <1>3, <1>5, <1>6 DEF Issued

\* INFO: one PING more.
LEMMA InfoDoes ==
    ASSUME TypesInv, ReceiveInfo
    PROVE  /\ Issued' = Issued \cup {PingCmd} /\ Count(Line', PingCmd) = Count(Line, PingCmd) + 1
           /\ toServer' = Append(toServer, PingCmd) /\ pongs' = Cat(<<Handshake>>, pongs)
           /\ conn = "tcp" /\ conn' = "info"
           /\ UNCHANGED <<subs, outbound, toClient, serverSubs, sent, limit, history>>
<1>0. outbound \in Seq(Commands) /\ toServer \in Seq(Commands) /\ PingCmd \in Commands
  BY CommandsAre DEF TypesInv, WireTypes
<1>1. /\ toServer' = Append(toServer, PingCmd) /\ pongs' = Cat(<<Handshake>>, pongs)
      /\ conn = "tcp" /\ conn' = "info"
      /\ UNCHANGED <<subs, outbound, toClient, serverSubs, sent, limit, history>>
  BY DEF ReceiveInfo, Cat
<1>2. PICK g \in Commands : g = PingCmd
  BY <1>0
<1>3. PICK q \in Seq(Commands) : q = Append(toServer, g)
  <2>1. Append(toServer, g) \in Seq(Commands)
    BY <1>0
  <2> QED
    BY <2>1, Zenon
<1>4. ToSet(q) = ToSet(toServer) \cup {g}
  BY <1>0, <1>3, InAppend
<1>5. Issued' = Issued \cup {PingCmd}
  BY <1>1, <1>2, <1>3, <1>4 DEF Issued
<1>6. Count(q, g) = Count(toServer, g) + 1
  <2>1. Count(Append(toServer, g), g) = IF g = g THEN Count(toServer, g) + 1 ELSE Count(toServer, g)
    BY <1>0, CountAppend
  <2> QED
    BY <1>3, <2>1
<1>7. Count(Cat(q, outbound), g) = Count(q, g) + Count(outbound, g)
      /\ Count(Cat(toServer, outbound), g) = Count(toServer, g) + Count(outbound, g)
  BY <1>0, CountCat
<1>8. Count(toServer, g) \in Nat /\ Count(outbound, g) \in Nat
  BY <1>0, CountType
<1>9. Line' = Cat(q, outbound) /\ Line = Cat(toServer, outbound)
  BY <1>1, <1>2, <1>3, Zenon DEF Line
<1> QED
  BY <1>1, <1>2, <1>5, <1>6, <1>7, <1>8, <1>9

\* The server reads the first of what is issued.
LEMMA ReadDoes ==
    ASSUME TypesInv, ServerRead
    PROVE  /\ Head(toServer) \in Commands
           /\ Issued = {Head(toServer)} \cup Issued' /\ Issued' \subseteq Issued
           /\ Line # << >> /\ Head(Line) = Head(toServer) /\ Line' = Tail(Line)
           /\ outbound' = outbound
<1>0. outbound \in Seq(Commands) /\ toServer \in Seq(Commands)
  BY DEF TypesInv, WireTypes
<1>1. toServer # << >> /\ toServer' = Tail(toServer) /\ outbound' = outbound
  BY ServerReadDoes DEF client
<1>2. Head(toServer) \in Commands /\ ToSet(toServer) = {Head(toServer)} \cup ToSet(Tail(toServer))
  BY <1>0, <1>1, HeadTail
<1>3. /\ Cat(toServer, outbound) # << >> /\ Head(Cat(toServer, outbound)) = Head(toServer)
      /\ Tail(Cat(toServer, outbound)) = Cat(Tail(toServer), outbound)
  BY <1>0, <1>1, CatTail
<1>4. Issued = {Head(toServer)} \cup Issued'
  BY <1>1, <1>2 DEF Issued
<1>5. Line # << >> /\ Head(Line) = Head(toServer) /\ Line' = Tail(Line)
  BY <1>1, <1>3, Zenon DEF Line
<1> QED
  BY <1>1, <1>2, <1>4, <1>5
\* Nothing issued, nothing about anyone.
LEMMA NothingIssued ==
    ASSUME outbound' = << >>, toServer' = << >>
    PROVE  Issued' = {}
<1>1. ToSet(outbound') = {} /\ ToSet(toServer') = {}
  BY NotInNone, Zenon
<1> QED
  BY <1>1 DEF Issued

\* The steps that queue commands name only subscriptions that are made.
LEMMA SpeakingSays ==
    ASSUME TypesInv, Speaking
    PROVE  \E w : /\ Spoken(w) /\ sidCounter' \in Nat /\ sidCounter <= sidCounter'
                  /\ \A c \in ToSet(w) : c.sid \in Sids => c.sid <= sidCounter'
<1> DEFINE Says == \E w : /\ Spoken(w) /\ sidCounter' \in Nat /\ sidCounter <= sidCounter'
                          /\ \A c \in ToSet(w) : c.sid \in Sids => c.sid <= sidCounter'
<1>0. Unlimited \in 0..MaxLimit /\ sidCounter \in Nat /\ table \subseteq Sids
      /\ \A s \in table : s <= sidCounter
  BY SidsAre, SubscriptionsAssumption DEF Unlimited, TypesInv
<1>1. ASSUME NEW max \in 0..MaxLimit, NEW n, NEW w, Subscribed(n, max, w)
      PROVE  /\ Spoken(w) /\ sidCounter' \in Nat /\ sidCounter <= sidCounter'
             /\ \A c \in ToSet(w) : c.sid \in Sids => c.sid <= sidCounter'
  <2>1. /\ n \in Sids /\ Spoken(w) /\ sidCounter' = n /\ n = sidCounter + 1
        /\ ToSet(w) \subseteq {SubCmd(n), UnsubCmd(n, max)}
    BY <1>1 DEF Subscribed
  <2>2. SubCmd(n).sid = n /\ UnsubCmd(n, max).sid = n
    BY <2>1, CommandsAre
  <2>3. n \in Nat /\ n <= n
    BY <1>0, <2>1
  <2> QED
    BY <1>0, <2>1, <2>2, <2>3
<1>2. ASSUME NEW max \in 0..MaxLimit, Subscribe(max)
      PROVE  Says
  <2>1. PICK n, w : Subscribed(n, max, w)
    BY <1>2, SubscribeDoes
  <2> QED
    BY <1>1, <2>1
<1>3. ASSUME NEW s \in table, NEW max \in 0..MaxLimit, Spoken(<<UnsubCmd(s, max)>>),
             sidCounter' = sidCounter
      PROVE  Says
  <2>1. PICK x \in Commands : x = UnsubCmd(s, max) /\ x.sid = s
    BY <1>0, <1>3, CommandsAre
  <2>2. ToSet(<<x>>) = {x}
    BY OneIs
  <2> QED
    BY <1>0, <1>3, <2>1, <2>2
<1>4. ASSUME Spoken(<< >>), sidCounter' = sidCounter
      PROVE  Says
  BY <1>0, <1>4, NotInNone
<1>5. ASSUME NEW s \in Sids, NEW max \in 0..MaxLimit, Unsubscribe(s, max)
      PROVE  Says
  <2>1. s \in table /\ Spoken(<<UnsubCmd(s, max)>>) /\ sidCounter' = sidCounter
    BY <1>5, UnsubscribeDoes DEF Limited
  <2> QED
    BY <1>3, <2>1
<1>6. ASSUME NEW s \in Sids, Timeout(s)
      PROVE  Says
  <2>1. s \in table /\ Spoken(<<UnsubCmd(s, Unlimited)>>) /\ sidCounter' = sidCounter
    BY <1>6, TimeoutDoes DEF Limited
  <2> QED
    BY <1>0, <1>3, <2>1
<1>7. ASSUME NEW s \in Sids, SetTimeout(s) \/ CancelTimeout(s)
      PROVE  Says
  <2>1. UNCHANGED <<sidCounter, client, server, messages, epoch>>
    BY <1>7, TimersDo
  <2>2. Spoken(<< >>)
    BY <2>1, NothingSpoken DEF client, server, Quiet
  <2> QED
    BY <1>4, <2>1, <2>2
<1>8. ASSUME (\E s \in Sids : DrainSubscription(s)) \/ Drain
      PROVE  Says
  <2>1. PICK S, D, O : S \in SUBSET table /\ Draining(S, D, O)
    BY <1>8, DrainDoes
  <2>2. sidCounter' = sidCounter
    BY <1>8, DrainDoes
  <2>3. Spoken(D) /\ \A c \in ToSet(D) : c = PingCmd \/ \E t \in S : c = UnsubCmd(t, Unlimited)
    BY <2>1 DEF Draining, Drains
  <2>4. PingCmd.sid \notin Sids /\ \A t \in Sids : UnsubCmd(t, Unlimited).sid = t
    BY <1>0, CommandsAre
  <2>5. \A c \in ToSet(D) : c.sid \in Sids => c.sid <= sidCounter'
    BY <1>0, <2>1, <2>2, <2>3, <2>4
  <2>6. sidCounter' \in Nat /\ sidCounter <= sidCounter'
    BY <1>0, <2>2
  <2> QED
    BY <2>3, <2>5, <2>6
<1>9. ASSUME DrainFlush
      PROVE  Says
  <2>1. PingCmd \in Commands /\ Spoken(<<PingCmd>>) /\ sidCounter' = sidCounter
    BY <1>9, DrainFlushDoes
  <2>2. ToSet(<<PingCmd>>) = {PingCmd} /\ PingCmd.sid \notin Sids
    BY <2>1, OneIs, CommandsAre
  <2> QED
    BY <1>0, <2>1, <2>2
<1>10. ASSUME ReceiveMsg
       PROVE  Says
  <2>1. PICK s \in Sids : Dropped(s) \/ Delivered(s) \/ LastOne(s)
    BY <1>10, ReceiveMsgDoes
  <2>2. sidCounter' = sidCounter
    BY <1>10, ReceiveMsgDoes
  <2>3. \/ Spoken(<< >>)
        \/ s \in table /\ Spoken(<<UnsubCmd(s, Unlimited)>>)
    BY <2>1 DEF Dropped, Delivered, LastOne
  <2> QED
    BY <1>0, <1>3, <1>4, <2>2, <2>3
<1> QED
  BY <1>2, <1>5, <1>6, <1>7, <1>8, <1>9, <1>10 DEF Speaking
\* The other steps issue what was issued, a PING, or what the table restores.
LEMMA OthersIssue ==
    ASSUME TypesInv, Connection,
           \/ Close \/ ReceivePong
           \/ FlushPending \/ ReceiveInfo \/ Lose \/ Redial \/ DialOk \/ DialFailed
           \/ ServerRead \/ (\E s \in Sids : ServerSend(s))
           \/ UNCHANGED vars
    PROVE  /\ sidCounter' = sidCounter
           /\ \A c \in Issued' : c \in Issued \/ c = PingCmd \/ c \in ToSet(SendSubscriptions)
           /\ \A s \in serverSubs' : s \in serverSubs \/ SubCmd(s) \in Issued
<1> DEFINE Said == \A c \in Issued' : c \in Issued \/ c = PingCmd \/ c \in ToSet(SendSubscriptions)
           Kept == \A s \in serverSubs' : s \in serverSubs \/ SubCmd(s) \in Issued
           Goal == sidCounter' = sidCounter /\ Said /\ Kept
<1>1. ASSUME Closed
      PROVE  Goal
  <2>1. outbound' = << >> /\ toServer' = << >> /\ serverSubs' = {} /\ sidCounter' = sidCounter
    BY <1>1, ClosedDoes
  <2> QED
    BY <2>1, NothingIssued
<1>2. ASSUME HandshakeDone
      PROVE  Goal
  <2>1. serverSubs' = serverSubs /\ sidCounter' = sidCounter
    BY <1>2 DEF HandshakeDone, subs
  <2> QED
    BY <1>2, <2>1, HandshakeDoes
<1>3. ASSUME Spoken(<< >>), sidCounter' = sidCounter
      PROVE  Goal
  <2>1. Issued' = Issued \cup ToSet(<< >>) /\ serverSubs' = serverSubs
    BY <1>3, IssuedSpoken DEF Spoken, Quiet
  <2> QED
    BY <1>3, <2>1, NotInNone
<1>4. CASE ReceivePong
  BY <1>1, <1>2, <1>3, <1>4, ReceivePongDoes, SubscriptionDrainedDoes
<1>5. CASE Close
  BY <1>1, <1>5 DEF Close
<1>6. CASE FlushPending
  <2>1. /\ UNCHANGED <<subs, serverSubs>>
        /\ Issued' = {} \/ Issued' = Issued
    BY <1>6, FlushDoes
  <2> QED
    BY <2>1 DEF subs
<1>7. CASE ReceiveInfo
  <2>1. UNCHANGED <<subs, serverSubs>> /\ Issued' = Issued \cup {PingCmd}
    BY <1>7, InfoDoes
  <2> QED
    BY <2>1 DEF subs
<1>8. CASE Lose
  <2>1. toServer' = << >> /\ outbound' = outbound /\ serverSubs' = {} /\ UNCHANGED subs
    BY <1>8 DEF Lose
  <2>2. ToSet(toServer') = {}
    BY <2>1, NotInNone, Zenon
  <2>3. Issued' \subseteq Issued
    BY <2>1, <2>2 DEF Issued
  <2> QED
    BY <2>1, <2>3 DEF subs
<1>9. CASE Redial
  <2>1. UNCHANGED <<subs, server>> /\ outbound' \in Seq({PingCmd})
    BY <1>9, RedialDoes
  <2>2. ToSet(outbound') \subseteq {PingCmd}
    BY <2>1 DEF ToSet
  <2>3. toServer' = toServer /\ serverSubs' = serverSubs /\ sidCounter' = sidCounter
    BY <2>1 DEF server, subs
  <2>4. Said
    BY <2>2, <2>3 DEF Issued
  <2> QED
    BY <2>3, <2>4
<1>10. CASE DialOk \/ DialFailed
  BY <1>10 DEF DialOk, DialFailed, server, subs, Issued
<1>11. CASE ServerRead
  <2>1. /\ UNCHANGED subs
        /\ \/ ServerPing
           \/ \E s \in Sids : Head(toServer) = SubCmd(s) /\ ServerSub(s)
           \/ \E s \in Sids, max \in 0..MaxLimit : ServerUnsub(s, max)
    BY <1>11, ServerReadDoes
  <2>2. Head(toServer) \in Issued /\ Issued' \subseteq Issued
    BY <1>11, ReadDoes
  <2>3. Kept
    BY <2>1, <2>2 DEF ServerPing, ServerSub, ServerUnsub
  <2> QED
    BY <2>1, <2>2, <2>3 DEF subs
<1>12. ASSUME NEW s \in Sids, ServerSend(s)
       PROVE  Goal
  <2>1. UNCHANGED <<toServer, outbound, sidCounter>> /\ serverSubs' \subseteq serverSubs
    BY <1>12 DEF ServerSend, subs, client
  <2> QED
    BY <2>1 DEF Issued
<1>13. CASE UNCHANGED vars
  BY <1>13 DEF vars, subs, client, server, Issued
<1> QED
  BY <1>4, <1>5, <1>6, <1>7, <1>8, <1>9, <1>10, <1>11, <1>12, <1>13

LEMMA KnownNext ==
    ASSUME TypesInv, Connection, Known, [Next]_vars
    PROVE  Known'
<1>0. /\ serverSubs \subseteq 1..sidCounter /\ sidCounter \in Nat /\ 1..sidCounter \subseteq Sids
      /\ \A c \in Issued : c.sid \in Sids => c.sid <= sidCounter
  BY SidsAre DEF Known
<1>1. CASE Speaking
  <2>1. PICK w : /\ Spoken(w) /\ sidCounter' \in Nat /\ sidCounter <= sidCounter'
                 /\ \A c \in ToSet(w) : c.sid \in Sids => c.sid <= sidCounter'
    BY <1>1, SpeakingSays
  <2>2. Issued' = Issued \cup ToSet(w) /\ serverSubs' = serverSubs
    BY <2>1, IssuedSpoken DEF Spoken, Quiet
  <2>3. serverSubs' \subseteq 1..sidCounter'
    BY <1>0, <2>1, <2>2
  <2>4. ASSUME NEW c \in Issued', c.sid \in Sids
        PROVE  c.sid <= sidCounter'
    <3>1. c.sid \in Nat
      BY <2>4, SidsAre
    <3>2. CASE c \in Issued
      <4>1. c.sid <= sidCounter
        BY <1>0, <2>4, <3>2
      <4> QED
        BY <1>0, <2>1, <3>1, <4>1
    <3>3. CASE c \in ToSet(w)
      BY <2>1, <2>4, <3>3
    <3> QED
      BY <2>2, <3>2, <3>3
  <2> QED
    BY <2>3, <2>4 DEF Known
<1>2. CASE ~Speaking
  <2>1. /\ sidCounter' = sidCounter
        /\ \A c \in Issued' : c \in Issued \/ c = PingCmd \/ c \in ToSet(SendSubscriptions)
        /\ \A s \in serverSubs' : s \in serverSubs \/ SubCmd(s) \in Issued
    BY <1>2, StepsAre, OthersIssue
  <2>2. serverSubs' \subseteq Sids
    <3>1. TypesInv'
      BY TypesNext
    <3> QED
      BY <3>1 DEF TypesInv, WireTypes
  <2>3. ASSUME NEW s \in serverSubs'
        PROVE  s \in 1..sidCounter
    <3>1. s \in Sids /\ SubCmd(s).sid = s /\ s \in Nat \ {0}
      BY <2>2, CommandsAre, SidsAre
    <3>2. s \in serverSubs \/ s <= sidCounter
      BY <1>0, <2>1, <3>1
    <3> QED
      BY <1>0, <3>1, <3>2
  <2>4. ASSUME NEW c \in Issued', c.sid \in Sids
        PROVE  c.sid <= sidCounter
    <3>1. c # PingCmd
      BY <2>4, CommandsAre
    <3>2. CASE c \in ToSet(SendSubscriptions)
      <4>1. PICK t \in table, m \in 0..MaxLimit : c = SubCmd(t) \/ c = UnsubCmd(t, m)
        <5>1. PICK t \in table :
                 \/ c = SubCmd(t)
                 \/ /\ sub[t].max - sub[t].received \in 1..MaxLimit
                    /\ c = UnsubCmd(t, sub[t].max - sub[t].received)
          BY <3>2, SendSubscriptionsAre
        <5>2. 0 \in 0..MaxLimit /\ 1..MaxLimit \subseteq 0..MaxLimit
          BY SubscriptionsAssumption
        <5> QED
          BY <5>1, <5>2
      <4>2. t \in Sids /\ t <= sidCounter
        BY <1>0, SidsAre DEF TypesInv
      <4>3. c.sid = t
        BY <4>1, <4>2, CommandsAre
      <4> QED
        BY <4>2, <4>3
    <3> QED
      BY <1>0, <2>1, <2>4, <3>1, <3>2
  <2> QED
    BY <2>1, <2>3, <2>4 DEF Known
<1> QED
  BY <1>1, <1>2
-----------------------------------------------------------------------------
(* The handshake                                                            *)

\* The steps that queue commands leave Handshake alone.
LEMMA SpeakingAwaits ==
    ASSUME TypesInv, Speaking
    PROVE  /\ Quiet
           /\ \E O \in Seq(Callbacks) : pongs' = Cat(pongs, O) /\ Handshake \notin ToSet(O)
           /\ \/ toClient' = toClient
              \/ toClient # << >> /\ \E s \in Sids : Head(toClient) = Msg(s)
<1> DEFINE More == \E O \in Seq(Callbacks) : pongs' = Cat(pongs, O) /\ Handshake \notin ToSet(O)
<1>0. pongs \in Seq(Callbacks) /\ ConnectionDrain # Handshake
  BY DEF TypesInv, WireTypes, ConnectionDrain, Handshake
<1>1. ASSUME pongs' = pongs
      PROVE  More
  <2>1. << >> \in Seq(Callbacks) /\ pongs' = Cat(pongs, << >>)
    BY <1>0, <1>1, CatNil
  <2> QED
    BY <2>1, NotInNone
<1>2. ASSUME NEW max \in 0..MaxLimit, Subscribe(max)
      PROVE  Quiet /\ More /\ toClient' = toClient
  <2>1. PICK n, w : Subscribed(n, max, w)
    BY <1>2, SubscribeDoes
  <2> QED
    BY <1>1, <1>2, <2>1, SubscribeDoes DEF Subscribed, Spoken
<1>3. ASSUME NEW s \in Sids, NEW max \in 0..MaxLimit, Unsubscribe(s, max)
      PROVE  Quiet /\ More /\ toClient' = toClient
  BY <1>1, <1>3, UnsubscribeDoes DEF Limited, Spoken
<1>4. ASSUME NEW s \in Sids, Timeout(s)
      PROVE  Quiet /\ More /\ toClient' = toClient
  BY <1>1, <1>4, TimeoutDoes DEF Limited, Spoken
<1>5. ASSUME NEW s \in Sids, SetTimeout(s) \/ CancelTimeout(s)
      PROVE  Quiet /\ More /\ toClient' = toClient
  <2>1. UNCHANGED <<client, server, messages, epoch>>
    BY <1>5, TimersDo
  <2> QED
    BY <1>1, <2>1 DEF client, server, Quiet
<1>6. ASSUME (\E s \in Sids : DrainSubscription(s)) \/ Drain
      PROVE  Quiet /\ More /\ toClient' = toClient
  <2>1. PICK S, D, O : S \in SUBSET table /\ Draining(S, D, O)
    BY <1>6, DrainDoes
  <2>2. toClient' = toClient
    BY <1>6, DrainDoes
  <2>3. Quiet /\ pongs' = Cat(pongs, O) /\ O \in Seq(Sids \cap S)
    BY <2>1 DEF Draining, Drains, Spoken
  <2>4. O \in Seq(Callbacks)
    BY <2>3 DEF Callbacks
  <2>5. Handshake \notin ToSet(O)
    <3>1. ToSet(O) \subseteq Sids
      BY <2>3 DEF ToSet
    <3> QED
      BY <3>1, SidsAre
  <2> QED
    BY <2>2, <2>3, <2>4, <2>5
<1>7. ASSUME DrainFlush
      PROVE  Quiet /\ More /\ toClient' = toClient
  <2>1. Spoken(<<PingCmd>>) /\ pongs' = Append(pongs, ConnectionDrain) /\ toClient' = toClient
    BY <1>7, DrainFlushDoes
  <2>2. ConnectionDrain \in Callbacks
    BY DEF Callbacks
  <2>3. <<ConnectionDrain>> \in Seq(Callbacks) /\ ToSet(<<ConnectionDrain>>) = {ConnectionDrain}
    BY <2>2, OneIs
  <2>4. pongs' = Cat(pongs, <<ConnectionDrain>>)
    <3>1. PICK d \in Callbacks : d = ConnectionDrain
      BY <2>2
    <3>2. PICK e \in Seq(Callbacks) : e = << >> /\ Cat(pongs, e) = pongs
      <4>1. << >> \in Seq(Callbacks) /\ Cat(pongs, << >>) = pongs
        BY <1>0, CatNil
      <4> QED
        BY <4>1, Zenon
    <3>3. Cat(pongs, Append(e, d)) = Append(Cat(pongs, e), d)
      BY <1>0, CatAppend
    <3>4. <<d>> = Append(e, d)
      BY <3>2, OneIs
    <3> QED
      BY <2>1, <3>1, <3>2, <3>3, <3>4
  <2> QED
    BY <1>0, <2>1, <2>3, <2>4 DEF Spoken
<1>8. ASSUME ReceiveMsg
      PROVE  Quiet /\ More /\ toClient # << >> /\ \E s \in Sids : Head(toClient) = Msg(s)
  BY <1>1, <1>8, ReceiveMsgDoes DEF Dropped, Delivered, LastOne, Spoken
<1> QED
  BY <1>2, <1>3, <1>4, <1>5, <1>6, <1>7, <1>8 DEF Speaking

LEMMA GreetingSpeaking ==
    ASSUME TypesInv, Greeting, Speaking
    PROVE  Greeting'
<1>1. /\ UNCHANGED <<conn, toServer, serverSubs, sent>>
      /\ \/ toClient' = toClient
         \/ toClient # << >> /\ \E s \in Sids : Head(toClient) = Msg(s)
  BY SpeakingAwaits DEF Quiet
<1>2. PICK O \in Seq(Callbacks) : pongs' = Cat(pongs, O) /\ Handshake \notin ToSet(O)
  BY SpeakingAwaits
<1>3. pongs \in Seq(Callbacks) /\ \A s \in Sids : Msg(s) # Pong
  BY TailsAre DEF TypesInv, WireTypes
<1>4. CASE conn # "info"
  <2>1. ToSet(Cat(pongs, O)) = ToSet(pongs) \cup ToSet(O)
    BY <1>3, InConcat DEF Cat
  <2> QED
    BY <1>1, <1>2, <1>4, <2>1 DEF Greeting
<1>5. CASE conn = "info"
  <2>1. pongs # << >> /\ Head(pongs) = Handshake /\ Handshake \notin ToSet(Tail(pongs))
    BY <1>5 DEF Greeting
  <2>2. /\ Cat(pongs, O) # << >> /\ Head(Cat(pongs, O)) = Head(pongs)
        /\ Tail(Cat(pongs, O)) = Cat(Tail(pongs), O) /\ Tail(pongs) \in Seq(Callbacks)
    BY <1>3, <2>1, CatTail, HeadTail
  <2>3. ToSet(Cat(Tail(pongs), O)) = ToSet(Tail(pongs)) \cup ToSet(O)
    <3>1. PICK q \in Seq(Callbacks) : q = Tail(pongs)
      BY <2>2, Zenon
    <3>2. ToSet(Cat(q, O)) = ToSet(q) \cup ToSet(O)
      BY InConcat DEF Cat
    <3> QED
      BY <3>1, <3>2, Zenon
  <2>4. pongs' # << >> /\ Head(pongs') = Handshake /\ Handshake \notin ToSet(Tail(pongs'))
    BY <1>2, <2>1, <2>2, <2>3
  <2>5. toClient' = toClient
    BY <1>1, <1>3, <1>5 DEF Greeting
  <2> QED
    BY <1>1, <1>5, <2>4, <2>5 DEF Greeting, Unread
<1> QED
  BY <1>4, <1>5

\* What the server reads and sends comes behind the PONG of the handshake.
LEMMA GreetingServer ==
    ASSUME TypesInv, Greeting, ServerRead \/ \E s \in Sids : ServerSend(s)
    PROVE  Greeting'
<1>0. /\ toServer \in Seq(Commands) /\ toClient \in Seq(Replies) /\ sent \in [Sids -> Nat]
      /\ serverSubs \subseteq Sids /\ \A s \in Sids : Unread(s) \in Nat
      /\ Pong \in Replies /\ \A s \in Sids : Msg(s) \in Replies /\ Msg(s) # Pong
  BY UnreadIs, RepliesAre, TailsAre DEF TypesInv, WireTypes
<1>1. CASE ServerRead
  <2>1. /\ toServer # << >> /\ UNCHANGED <<conn, pongs>>
        /\ \/ Head(toServer) = PingCmd /\ ServerPing
           \/ \E s \in Sids : Head(toServer) = SubCmd(s) /\ ServerSub(s)
           \/ \E s \in Sids, max \in 0..MaxLimit :
                 Head(toServer) = UnsubCmd(s, max) /\ ServerUnsub(s, max)
    BY <1>1, ServerReadDoes DEF client
  <2>2. CASE conn # "info"
    BY <2>1, <2>2 DEF Greeting
  <2>3. ASSUME conn = "info", Head(toServer) = PingCmd, toClient = << >>, serverSubs = {}
        PROVE  Greeting'
    <3>1. /\ PingCmd.op = "PING" /\ \A s \in Sids : SubCmd(s).op = "SUB"
          /\ \A s \in Sids, max \in 0..MaxLimit : UnsubCmd(s, max).op = "UNSUB"
      BY CommandsAre
    <3>2. ServerPing
      BY <2>1, <2>3, <3>1
    <3>3. toClient' = <<Pong>> /\ serverSubs' = {}
      BY <2>3, <3>2 DEF ServerPing
    <3>4. toClient' # << >> /\ Head(toClient') = Pong
      BY <3>3
    <3> QED
      BY <2>1, <2>3, <3>3, <3>4 DEF Greeting
  <2>4. ASSUME conn = "info", toClient # << >>, Head(toClient) = Pong,
               \A s \in serverSubs : sent[s] <= Unread(s)
        PROVE  Greeting'
    <3>1. CASE ServerPing
      <4>1. toClient' = Append(toClient, Pong) /\ UNCHANGED <<serverSubs, sent>>
        BY <3>1 DEF ServerPing
      <4>2. Append(toClient, Pong) # << >> /\ Head(Append(toClient, Pong)) = Pong
        BY <1>0, <2>4, TailAppend
      <4>3. ASSUME NEW s \in Sids
            PROVE  Unread(s)' = Unread(s)
        <5>1. Count(Append(toClient, Pong), Msg(s)) = Count(toClient, Msg(s))
          BY <1>0, CountAppend
        <5> QED
          BY <4>1, <5>1 DEF Unread
      <4>4. \A s \in serverSubs' : sent'[s] <= Unread(s)'
        BY <1>0, <2>4, <4>1, <4>3
      <4> QED
        BY <2>1, <2>4, <4>1, <4>2, <4>4 DEF Greeting
    <3>2. ASSUME NEW t \in Sids, ServerSub(t) \/ \E max \in 0..MaxLimit : ServerUnsub(t, max)
          PROVE  Greeting'
      <4>1. toClient' = toClient
        BY <3>2 DEF ServerSub, ServerUnsub
      <4>2. \A s \in Sids : Unread(s)' = Unread(s)
        BY <4>1 DEF Unread
      <4>3. ASSUME NEW s \in serverSubs'
            PROVE  s \in Sids /\ (sent'[s] = 0 \/ (s \in serverSubs /\ sent'[s] = sent[s]))
        <5>1. CASE ServerSub(t)
          <6>1. serverSubs' = serverSubs \cup {t}
                /\ sent' = IF t \in serverSubs THEN sent ELSE [sent EXCEPT ![t] = 0]
            BY <5>1 DEF ServerSub
          <6>2. s \in Sids /\ (s = t \/ s \in serverSubs)
            BY <1>0, <6>1
          <6>3. CASE t \in serverSubs
            BY <6>1, <6>2, <6>3
          <6>4. CASE t \notin serverSubs
            <7>1. sent' = [sent EXCEPT ![t] = 0]
              BY <6>1, <6>4
            <7>2. s = t => sent'[s] = 0
              BY <1>0, <7>1
            <7>3. s # t => sent'[s] = sent[s]
              BY <1>0, <6>2, <7>1
            <7> QED
              BY <6>2, <7>2, <7>3
          <6> QED
            BY <6>3, <6>4
        <5>2. CASE \E max \in 0..MaxLimit : ServerUnsub(t, max)
          <6>1. serverSubs' \subseteq serverSubs /\ sent' = sent
            BY <5>2 DEF ServerUnsub
          <6> QED
            BY <1>0, <6>1
        <5> QED
          BY <3>2, <5>1, <5>2
      <4>4. \A s \in serverSubs' : sent'[s] <= Unread(s)'
        BY <1>0, <2>4, <4>2, <4>3
      <4> QED
        BY <2>1, <2>4, <4>1, <4>4 DEF Greeting
    <3> QED
      BY <2>1, <3>1, <3>2
  <2> QED
    BY <2>2, <2>3, <2>4 DEF Greeting
<1>2. ASSUME NEW t \in Sids, ServerSend(t)
      PROVE  Greeting'
  <2>1. /\ UNCHANGED <<conn, pongs>> /\ toClient' = Append(toClient, Msg(t)) /\ t \in serverSubs
        /\ sent' = [sent EXCEPT ![t] = @ + 1] /\ serverSubs' \subseteq serverSubs
    BY <1>2 DEF ServerSend, client
  <2>2. CASE conn # "info"
    BY <2>1, <2>2 DEF Greeting
  <2>3. CASE conn = "info"
    <3>1. /\ toClient # << >> /\ Head(toClient) = Pong
          /\ \A s \in serverSubs : sent[s] <= Unread(s)
      BY <2>1, <2>3 DEF Greeting
    <3>2. Append(toClient, Msg(t)) # << >> /\ Head(Append(toClient, Msg(t))) = Pong
      BY <1>0, <3>1, TailAppend
    <3>3. ASSUME NEW s \in serverSubs'
          PROVE  sent'[s] <= Unread(s)'
      <4>0. s \in Sids /\ sent[s] <= Unread(s) /\ sent[s] \in Nat
        BY <1>0, <2>1, <3>1
      <4>1. CASE s = t
        <5>1. Count(Append(toClient, Msg(t)), Msg(t)) = Count(toClient, Msg(t)) + 1
          <6>1. Count(Append(toClient, Msg(t)), Msg(t)) =
                   IF Msg(t) = Msg(t) THEN Count(toClient, Msg(t)) + 1 ELSE Count(toClient, Msg(t))
            BY <1>0, CountAppend
          <6> QED
            BY <6>1
        <5>2. Unread(t)' = Unread(t) + 1
          BY <2>1, <5>1 DEF Unread
        <5>3. sent'[t] = sent[t] + 1
          BY <1>0, <2>1
        <5> QED
          BY <1>0, <4>0, <4>1, <5>2, <5>3
      <4>2. CASE s # t
        <5>1. Msg(t) # Msg(s)
          BY <4>0, <4>2, RepliesAre
        <5>2. Count(Append(toClient, Msg(t)), Msg(s)) = Count(toClient, Msg(s))
          BY <1>0, <5>1, CountAppend
        <5>3. Unread(s)' = Unread(s)
          BY <2>1, <5>2 DEF Unread
        <5>4. sent'[s] = sent[s]
          BY <1>0, <2>1, <4>2
        <5> QED
          BY <4>0, <5>3, <5>4
      <4> QED
        BY <4>1, <4>2
    <3>4. pongs' # << >> /\ Head(pongs') = Handshake /\ Handshake \notin ToSet(Tail(pongs'))
      BY <2>1, <2>3 DEF Greeting
    <3> QED
      BY <2>1, <2>3, <3>2, <3>3, <3>4 DEF Greeting
  <2> QED
    BY <2>2, <2>3
<1> QED
  BY <1>1, <1>2
\* The handshake is the first of the callbacks, and is over with its PONG.
LEMMA GreetingOver ==
    ASSUME TypesInv, Greeting, pongs # << >>
    PROVE  Handshake \notin ToSet(Tail(pongs)) /\ (Head(pongs) \in Sids => conn # "info")
<1>1. ToSet(Tail(pongs)) \subseteq ToSet(pongs)
  BY HeadTail DEF TypesInv, WireTypes
<1>2. Handshake \notin Sids
  BY SidsAre
<1> QED
  BY <1>1, <1>2 DEF Greeting

LEMMA GreetingNext ==
    ASSUME TypesInv, Connection, Greeting, [Next]_vars
    PROVE  Greeting'
<1>0. toServer \in Seq(Commands) /\ outbound \in Seq(Commands) /\ pongs \in Seq(Callbacks)
  BY DEF TypesInv, WireTypes
<1>1. CASE Speaking
  BY <1>1, GreetingSpeaking
<1>2. ASSUME conn' # "info", pongs' = << >>
      PROVE  Greeting'
  <2>1. Handshake \notin ToSet(pongs')
    BY <1>2, NotInNone, Zenon
  <2> QED
    BY <1>2, <2>1 DEF Greeting
<1>3. ASSUME pongs # << >>, pongs' = Tail(pongs), conn' # "info"
      PROVE  Greeting'
  BY <1>3, GreetingOver DEF Greeting
<1>4. CASE Close
  BY <1>2, <1>4, ClosedDoes DEF Close
<1>5. CASE ReceivePong
  <2>1. /\ pongs # << >>
        /\ \/ HandshakeDone
           \/ Head(pongs) \in Sids /\ SubscriptionDrained(Head(pongs)) /\ UNCHANGED <<epoch, messages>>
           \/ Closed
    BY <1>5, ReceivePongDoes
  <2>2. CASE HandshakeDone
    BY <1>3, <2>1, <2>2 DEF HandshakeDone
  <2>3. CASE Head(pongs) \in Sids /\ SubscriptionDrained(Head(pongs)) /\ UNCHANGED <<epoch, messages>>
    <3>1. conn' = conn /\ pongs' = Tail(pongs)
      BY <2>3, SubscriptionDrainedDoes DEF Spoken, Quiet
    <3> QED
      BY <1>3, <2>1, <2>3, <3>1, GreetingOver
  <2>4. CASE Closed
    BY <1>2, <2>4, ClosedDoes
  <2> QED
    BY <2>1, <2>2, <2>3, <2>4
<1>6. CASE FlushPending
  <2>1. UNCHANGED <<conn, pongs, toClient, serverSubs, sent>>
    BY <1>6, FlushDoes
  <2>2. CASE conn # "info"
    BY <2>1, <2>2 DEF Greeting
  <2>3. CASE conn = "info"
    <3>1. toServer' = Cat(toServer, outbound)
      BY <1>6, <2>3, FlushDoes
    <3>2. toServer # << >> => toServer' # << >> /\ Head(toServer') = Head(toServer)
      BY <1>0, <3>1, CatTail
    <3> QED
      BY <2>1, <2>3, <3>2 DEF Greeting, Unread
  <2> QED
    BY <2>2, <2>3
<1>7. CASE ReceiveInfo
  <2>1. /\ toServer' = Append(toServer, PingCmd) /\ pongs' = Cat(<<Handshake>>, pongs)
        /\ conn = "tcp" /\ conn' = "info" /\ UNCHANGED <<toClient, serverSubs>>
    BY <1>7, InfoDoes
  <2>2. toServer = << >> /\ toClient = << >> /\ serverSubs = {}
    BY <2>1 DEF Connection
  <2>3. toServer' # << >> /\ Head(toServer') = PingCmd
    BY <2>1, <2>2
  <2>4. Handshake \in Callbacks
    BY DEF Callbacks
  <2>5. PICK h \in Seq(Callbacks) : h = <<Handshake>> /\ h # << >> /\ Head(h) = Handshake
                                    /\ Tail(h) = << >>
    <3>1. /\ <<Handshake>> \in Seq(Callbacks) /\ <<Handshake>> # << >>
          /\ Head(<<Handshake>>) = Handshake /\ Tail(<<Handshake>>) = << >>
      BY <2>4
    <3> QED
      BY <3>1, Zenon
  <2>6. /\ Cat(h, pongs) # << >> /\ Head(Cat(h, pongs)) = Handshake
        /\ Tail(Cat(h, pongs)) = Cat(Tail(h), pongs)
    BY <1>0, <2>5, CatTail
  <2>7. Cat(<< >>, pongs) = pongs
    BY <1>0, CatNil
  <2>8. pongs' # << >> /\ Head(pongs') = Handshake /\ Tail(pongs') = pongs
    BY <2>1, <2>5, <2>6, <2>7, Zenon
  <2>9. Handshake \notin ToSet(pongs)
    BY <2>1 DEF Greeting
  <2>10. toClient' = << >> /\ serverSubs' = {}
    BY <2>1, <2>2
  <2> QED
    BY <2>1, <2>3, <2>8, <2>9, <2>10 DEF Greeting
<1>8. CASE Lose
  BY <1>2, <1>8 DEF Lose
<1>9. CASE Redial
  <2>1. /\ pongs' \in Seq(Callbacks) /\ Len(pongs') <= Len(pongs)
        /\ \A i \in 1..Len(pongs') : pongs'[i] = pongs[i]
        /\ conn = "down" /\ conn' = "dialing"
    BY <1>9, RedialDoes
  <2>2. \A i \in 1..Len(pongs) : pongs[i] # Handshake
    BY <1>0, <2>1 DEF Greeting, ToSet
  <2>3. Handshake \notin ToSet(pongs')
    BY <1>0, <2>1, <2>2 DEF ToSet
  <2> QED
    BY <2>1, <2>3 DEF Greeting
<1>10. CASE DialOk \/ DialFailed
  BY <1>10 DEF DialOk, DialFailed, Greeting
<1>11. CASE ServerRead \/ \E s \in Sids : ServerSend(s)
  BY <1>11, GreetingServer
<1>12. CASE UNCHANGED vars
  BY <1>12 DEF vars, client, server, Greeting, Unread
<1> QED
  BY <1>1, <1>4, <1>5, <1>6, <1>7, <1>8, <1>9, <1>10, <1>11, <1>12, StepsAre
-----------------------------------------------------------------------------
(* Who is supplied                                                          *)

CountsOf(s) ==
    /\ Served(s) \in Nat /\ Expected(s) \in Int /\ Unread(s) \in Nat
    /\ sub[s].received \in Nat /\ sub[s].max \in Nat
    /\ sent[s] \in Nat /\ limit[s] \in Nat
    /\ Expected(s) = sub[s].max - (sub[s].received + Unread(s))
    /\ s \in serverSubs => Served(s) = sent[s]
    /\ s \notin serverSubs => Served(s) = 0

LEMMA CountsAre == TypesInv => \A s \in Sids : CountsOf(s)
BY UnreadIs DEF CountsOf, Served, Expected

LEMMA CountsPrimed == TypesInv' => (\A s \in Sids : CountsOf(s))'
BY CountsAre, PTL

\* Steps that change nothing for s but where its SUB is.
LEMMA SuppliedKept ==
    ASSUME TypesInv, TypesInv', NEW s \in Sids, Supplied(s),
           conn' = conn \/ (conn # "down" /\ conn' # "ready"),
           sub'[s].max = sub[s].max,
           sub'[s].received + Unread(s)' = sub[s].received + Unread(s),
           s \in serverSubs' <=> s \in serverSubs, sent'[s] = sent[s], limit'[s] = limit[s],
           SubCmd(s) \in Issued => SubCmd(s) \in Issued',
           \A max \in 0..MaxLimit : UnsubCmd(s, max) \in Issued' => UnsubCmd(s, max) \in Issued
    PROVE  Supplied(s)'
<1>1. Served(s)' = Served(s) /\ Expected(s)' = Expected(s)
  BY DEF Served, Expected
<1>2. conn' = "ready" =>
          \/ s \in serverSubs' \/ SubCmd(s) \in Issued'
          \/ sub'[s].max # Unlimited /\ Expected(s)' <= 0
  BY <1>1 DEF Supplied
<1>3. ASSUME conn' # "down", NEW max \in 0..MaxLimit, UnsubCmd(s, max) \in Issued'
      PROVE  max # Unlimited /\ sub'[s].max # Unlimited /\ max - Served(s)' >= Expected(s)'
  BY <1>1, <1>3 DEF Supplied
<1>4. s \in serverSubs' =>
          /\ sent'[s] <= sub'[s].received + Unread(s)'
          /\ limit'[s] # Unlimited => sub'[s].max # Unlimited /\ limit'[s] - sent'[s] >= Expected(s)'
  BY <1>1 DEF Supplied
<1> QED
  BY <1>2, <1>3, <1>4 DEF Supplied

\* Any commands but an UNSUB of s may be queued.
LEMMA SuppliedSpoken ==
    ASSUME TypesInv, TypesInv', NEW s \in Sids, Supplied(s), NEW w, Spoken(w),
           \A max \in 0..MaxLimit : UnsubCmd(s, max) \notin ToSet(w),
           sub'[s].max = sub[s].max,
           sub'[s].received + Unread(s)' = sub[s].received + Unread(s)
    PROVE  Supplied(s)'
<1>1. Issued' = Issued \cup ToSet(w)
  BY IssuedSpoken
<1>2. UNCHANGED <<conn, serverSubs, sent, limit>>
  BY DEF Spoken, Quiet
<1> QED
  BY <1>1, <1>2, SuppliedKept

\* A new subscription: its SUB goes first.
LEMMA SuppliedNew ==
    ASSUME TypesInv, TypesInv', Known, NEW max \in 0..MaxLimit, NEW n, NEW w, Subscribed(n, max, w)
    PROVE  Supplied(n)'
<1>1. /\ n \in Sids /\ n = sidCounter + 1 /\ Spoken(w)
      /\ ToSet(w) \subseteq {SubCmd(n), UnsubCmd(n, max)} /\ SubCmd(n) \in ToSet(w)
      /\ UnsubCmd(n, max) \in ToSet(w) => max # Unlimited
      /\ sub'[n].received = 0 /\ sub'[n].max = max
  BY DEF Subscribed
<1>2. Issued' = Issued \cup ToSet(w) /\ serverSubs' = serverSubs
  BY <1>1, IssuedSpoken DEF Spoken, Quiet
<1>3. sidCounter \in Nat /\ ~(n <= sidCounter)
  BY <1>1, SidsAre
<1>4. n \notin serverSubs
  <2>1. ASSUME n \in serverSubs
        PROVE  n \in 1..sidCounter
    BY <2>1 DEF Known
  <2> QED
    BY <1>3, <2>1
<1>5. ASSUME NEW m \in 0..MaxLimit, UnsubCmd(n, m) \in Issued'
      PROVE  m # Unlimited /\ m = max
  <2>1. UnsubCmd(n, m).sid = n /\ UnsubCmd(n, m).max = m /\ UnsubCmd(n, max).max = max
        /\ UnsubCmd(n, m).op = "UNSUB" /\ SubCmd(n).op = "SUB"
    BY <1>1, CommandsAre
  <2>2. UnsubCmd(n, m) \notin Issued
    BY <1>1, <1>3, <2>1 DEF Known
  <2>3. UnsubCmd(n, m) = UnsubCmd(n, max)
    BY <1>1, <1>2, <1>5, <2>1, <2>2
  <2> QED
    BY <1>1, <1>2, <1>5, <2>1, <2>2, <2>3
<1>6. /\ Served(n)' = 0 /\ Expected(n)' \in Int /\ Unread(n)' \in Nat
      /\ Expected(n)' = sub'[n].max - (sub'[n].received + Unread(n)')
  <2>1. CountsOf(n)'
    BY <1>1, CountsPrimed
  <2> QED
    BY <1>2, <1>4, <2>1 DEF CountsOf
<1>7. max \in Nat /\ Expected(n)' <= max
  BY <1>1, <1>6, SubscriptionsAssumption
<1>8. SubCmd(n) \in Issued'
  BY <1>1, <1>2
<1>9. ASSUME NEW m \in 0..MaxLimit, UnsubCmd(n, m) \in Issued'
      PROVE  m # Unlimited /\ sub'[n].max # Unlimited /\ m - Served(n)' >= Expected(n)'
  BY <1>1, <1>5, <1>6, <1>7, <1>9
<1> QED
  BY <1>2, <1>4, <1>8, <1>9 DEF Supplied
\* unsubscribe(s, max) that leaves s in the table and does not raise its limit:
\* the client waits for no more than it did, and the UNSUB is large enough for
\* what the server has sent.
LEMMA SuppliedUnsub ==
    ASSUME TypesInv, TypesInv', NEW s \in Sids, NEW max \in 0..MaxLimit, Supplied(s),
           Limited(s, max, sub), toClient' = toClient, s \in table',
           ~(sub[s].max # Unlimited /\ max > sub[s].max)
    PROVE  Supplied(s)'
<1>1. /\ max # Unlimited /\ sub'[s].max = max /\ sub'[s].received = sub[s].received
      /\ Spoken(<<UnsubCmd(s, max)>>)
  BY DEF Limited
<1>2. PICK x \in Commands : x = UnsubCmd(s, max)
  BY CommandsAre
<1>3. ToSet(<<x>>) = {x}
  BY OneIs
<1>4. Issued' = Issued \cup {UnsubCmd(s, max)}
  BY <1>1, <1>2, <1>3, IssuedSpoken
<1>5. UNCHANGED <<conn, serverSubs, sent, limit>> /\ Unread(s)' = Unread(s)
  BY <1>1 DEF Spoken, Quiet, Unread
<1>6. Served(s)' = Served(s)
  BY <1>5 DEF Served
<1>7. CountsOf(s) /\ CountsOf(s)' /\ max \in Nat
  BY CountsAre, CountsPrimed, SubscriptionsAssumption
<1>8. Expected(s)' = max - (sub[s].received + Unread(s))
  BY <1>1, <1>5, <1>7 DEF CountsOf
<1>9. sub[s].max # Unlimited => Expected(s)' <= Expected(s)
  BY <1>7, <1>8 DEF CountsOf
<1>10. Served(s) <= sub[s].received + Unread(s)
  BY <1>7 DEF CountsOf, Supplied
<1>11. ASSUME conn' # "down", NEW m \in 0..MaxLimit, UnsubCmd(s, m) \in Issued'
       PROVE  m # Unlimited /\ sub'[s].max # Unlimited /\ m - Served(s)' >= Expected(s)'
  <2>0. m \in Nat
    BY SubscriptionsAssumption
  <2>1. CASE UnsubCmd(s, m) \in Issued
    <3>1. m # Unlimited /\ sub[s].max # Unlimited /\ m - Served(s) >= Expected(s)
      BY <1>5, <1>11, <2>1 DEF Supplied
    <3> QED
      BY <1>1, <1>6, <1>7, <1>9, <2>0, <3>1 DEF CountsOf
  <2>2. CASE UnsubCmd(s, m) = UnsubCmd(s, max)
    <3>1. m = max
      BY <2>2, CommandsAre
    <3> QED
      BY <1>1, <1>6, <1>7, <1>8, <1>10, <3>1 DEF CountsOf
  <2> QED
    BY <1>4, <1>11, <2>1, <2>2
<1>12. conn' = "ready" =>
          \/ s \in serverSubs' \/ SubCmd(s) \in Issued'
          \/ sub'[s].max # Unlimited /\ Expected(s)' <= 0
  <2>1. ASSUME sub[s].max # Unlimited, Expected(s) <= 0
        PROVE  Expected(s)' <= 0
    BY <1>7, <1>9, <2>1 DEF CountsOf
  <2> QED
    BY <1>1, <1>4, <1>5, <2>1 DEF Supplied
<1>13. s \in serverSubs' =>
          /\ sent'[s] <= sub'[s].received + Unread(s)'
          /\ limit'[s] # Unlimited => sub'[s].max # Unlimited /\ limit'[s] - sent'[s] >= Expected(s)'
  <2>1. ASSUME s \in serverSubs, limit[s] # Unlimited
        PROVE  limit[s] - sent[s] >= Expected(s)'
    <3>1. sub[s].max # Unlimited /\ limit[s] - sent[s] >= Expected(s)
      BY <2>1 DEF Supplied
    <3> QED
      BY <1>7, <1>9, <3>1 DEF CountsOf
  <2> QED
    BY <1>1, <1>5, <2>1 DEF Supplied
<1> QED
  BY <1>11, <1>12, <1>13 DEF Supplied

\* An UNSUB names one subscription.
LEMMA OtherUnsub ==
    ASSUME NEW s \in Sids, NEW t \in Sids, t # s, NEW max \in 0..MaxLimit
    PROVE  \A m \in 0..MaxLimit : UnsubCmd(t, m) \notin ToSet(<<UnsubCmd(s, max)>>)
<1>1. PICK x \in Commands : x = UnsubCmd(s, max) /\ x.sid = s
  BY CommandsAre
<1>2. ToSet(<<x>>) = {x} /\ \A m \in 0..MaxLimit : UnsubCmd(t, m).sid = t
  BY OneIs, CommandsAre
<1> QED
  BY <1>1, <1>2

LEMMA SuppliedSpeaking ==
    ASSUME TypesInv, TypesInv', Known, AllSupplied, Speaking
    PROVE  AllSupplied'
<1>0. /\ table \subseteq Sids /\ \A s \in Live : Supplied(s)
      /\ Unlimited \in 0..MaxLimit
  BY SidsAre, SubscriptionsAssumption DEF AllSupplied, Unlimited
<1>a. ASSUME \A s \in Live' : Supplied(s)'
      PROVE  AllSupplied'
  BY <1>a DEF AllSupplied
<1>b. Live = {s \in table \ raised : ~sub[s].draining}
      /\ Live' = {s \in table' \ raised' : ~sub'[s].draining}
  BY DEF Live
<1>c. ASSUME NEW s \in Sids, Same(s), toClient' = toClient
      PROVE  /\ sub'[s].max = sub[s].max
             /\ sub'[s].received + Unread(s)' = sub[s].received + Unread(s)
  BY <1>c DEF Same, Unread
<1>1. ASSUME NEW max \in 0..MaxLimit, Subscribe(max)
      PROVE  AllSupplied'
  <2>1. PICK n, w : Subscribed(n, max, w)
    BY <1>1, SubscribeDoes
  <2>2. UNCHANGED <<toClient, raised>>
    BY <1>1, SubscribeDoes
  <2>3. /\ n \in Sids /\ table' = table \cup {n} /\ Spoken(w)
        /\ ToSet(w) \subseteq {SubCmd(n), UnsubCmd(n, max)}
        /\ \A t \in Sids : t # n => Same(t)
    BY <2>1 DEF Subscribed
  <2>4. ASSUME NEW s \in Live', s # n
        PROVE  Supplied(s)'
    <3>1. s \in Sids /\ s \in Live /\ Same(s)
      BY <1>0, <1>b, <2>2, <2>3, <2>4 DEF Same
    <3>2. \A m \in 0..MaxLimit : UnsubCmd(s, m) \notin ToSet(w)
      <4>1. /\ \A m \in 0..MaxLimit : UnsubCmd(s, m).sid = s
            /\ SubCmd(n).sid = n /\ UnsubCmd(n, max).sid = n
        BY <2>3, <3>1, CommandsAre
      <4> QED
        BY <2>3, <2>4, <4>1
    <3> QED
      BY <1>0, <1>c, <2>2, <2>3, <3>1, <3>2, SuppliedSpoken
  <2> QED
    BY <1>a, <2>1, <2>4, SuppliedNew
<1>2. ASSUME NEW s \in Sids, NEW max \in 0..MaxLimit, Limited(s, max, sub),
             toClient' = toClient, raised \subseteq raised',
             s \in table' => (s \in raised' \/ ~(sub[s].max # Unlimited /\ max > sub[s].max))
      PROVE  AllSupplied'
  <2>1. ASSUME NEW t \in Live'
        PROVE  Supplied(t)'
    <3>1. t \in table' /\ t \notin raised' /\ ~sub'[t].draining /\ t \in table /\ t \in Sids
      BY <1>0, <1>2, <1>b DEF Limited
    <3>2. t \in Live
      BY <1>2, <1>b, <3>1 DEF Limited
    <3>3. CASE t = s
      BY <1>0, <1>2, <3>1, <3>2, <3>3, SuppliedUnsub
    <3>4. CASE t # s
      <4>1. /\ sub'[t].max = sub[t].max /\ sub'[t].received = sub[t].received
            /\ Spoken(<<UnsubCmd(s, max)>>)
        BY <1>2, <3>1, <3>4 DEF Limited
      <4>2. sub'[t].received + Unread(t)' = sub[t].received + Unread(t)
        BY <1>2, <4>1 DEF Unread
      <4>3. \A m \in 0..MaxLimit : UnsubCmd(t, m) \notin ToSet(<<UnsubCmd(s, max)>>)
        BY <3>1, <3>4, OtherUnsub
      <4> QED
        BY <1>0, <3>1, <3>2, <4>1, <4>2, <4>3, SuppliedSpoken
    <3> QED
      BY <3>3, <3>4
  <2> QED
    BY <1>a, <2>1
<1>3. ASSUME NEW s \in Sids, NEW max \in 0..MaxLimit, Unsubscribe(s, max)
      PROVE  AllSupplied'
  <2>1. /\ Limited(s, max, sub) /\ toClient' = toClient
        /\ raised' = IF sub[s].max # Unlimited /\ max > sub[s].max
                     THEN raised \cup {s} ELSE raised
    BY <1>3, UnsubscribeDoes
  <2> QED
    BY <1>2, <2>1
<1>4. ASSUME NEW s \in Sids, Timeout(s)
      PROVE  AllSupplied'
  <2>1. Limited(s, Unlimited, sub) /\ UNCHANGED <<toClient, raised>>
    BY <1>4, TimeoutDoes
  <2>2. s \notin table'
    BY <2>1 DEF Limited
  <2> QED
    BY <1>0, <1>2, <2>1, <2>2
<1>5. ASSUME NEW w, Spoken(w), toClient' = toClient, \A s \in Sids : Same(s), table' = table,
             raised' = raised, \A s \in Sids, m \in 0..MaxLimit : UnsubCmd(s, m) \notin ToSet(w)
      PROVE  AllSupplied'
  <2>1. ASSUME NEW s \in Live'
        PROVE  Supplied(s)'
    <3>1. s \in Sids /\ Same(s) /\ s \in Live
      BY <1>0, <1>5, <1>b DEF Same
    <3> QED
      BY <1>0, <1>5, <1>c, <3>1, SuppliedSpoken
  <2> QED
    BY <1>a, <2>1
<1>6. ASSUME NEW s \in Sids, SetTimeout(s) \/ CancelTimeout(s)
      PROVE  AllSupplied'
  <2>1. (\A t \in Sids : Same(t)) /\ UNCHANGED <<table, client, server, messages, epoch, raised>>
    BY <1>6, TimersDo
  <2>2. Spoken(<< >>) /\ toClient' = toClient
    BY <2>1, NothingSpoken DEF client, server, Quiet
  <2> QED
    BY <1>5, <2>1, <2>2, NotInNone
<1>7. ASSUME DrainFlush
      PROVE  AllSupplied'
  <2>1. /\ PingCmd \in Commands /\ Spoken(<<PingCmd>>)
        /\ UNCHANGED <<table, sub, toClient, raised>>
    BY <1>7, DrainFlushDoes
  <2>2. ToSet(<<PingCmd>>) = {PingCmd}
    BY <2>1, OneIs
  <2>3. \A s \in Sids, m \in 0..MaxLimit : UnsubCmd(s, m) \notin ToSet(<<PingCmd>>)
    <3>1. PingCmd.op = "PING" /\ \A s \in Sids, m \in 0..MaxLimit : UnsubCmd(s, m).op = "UNSUB"
      BY CommandsAre
    <3> QED
      BY <2>2, <3>1
  <2> QED
    BY <1>5, <2>1, <2>3 DEF Same
<1>8. ASSUME (\E s \in Sids : DrainSubscription(s)) \/ Drain
      PROVE  AllSupplied'
  <2>1. PICK S, D, O : S \in SUBSET table /\ Draining(S, D, O)
    BY <1>8, DrainDoes
  <2>2. UNCHANGED <<table, toClient, raised>>
    BY <1>8, DrainDoes
  <2>3. /\ Spoken(D) /\ \A c \in ToSet(D) : c = PingCmd \/ \E t \in S : c = UnsubCmd(t, Unlimited)
        /\ \A t \in Sids : /\ sub'[t].received = sub[t].received /\ sub'[t].max = sub[t].max
                           /\ sub'[t].draining = (sub[t].draining \/ t \in S)
    BY <2>1 DEF Draining, Drains
  <2>4. ASSUME NEW s \in Live'
        PROVE  Supplied(s)'
    <3>1. s \in Sids /\ s \in table /\ s \notin raised /\ ~sub'[s].draining
      BY <1>0, <1>b, <2>2
    <3>2. ~sub[s].draining /\ s \notin S
      BY <2>3, <3>1
    <3>3. s \in Live
      BY <1>b, <3>1, <3>2
    <3>4. \A m \in 0..MaxLimit : UnsubCmd(s, m) \notin ToSet(D)
      <4>1. /\ PingCmd.op = "PING"
            /\ \A m \in 0..MaxLimit : UnsubCmd(s, m).op = "UNSUB" /\ UnsubCmd(s, m).sid = s
            /\ \A t \in Sids : UnsubCmd(t, Unlimited).sid = t
        BY <1>0, <3>1, CommandsAre
      <4> QED
        BY <1>0, <2>1, <2>3, <3>2, <4>1
    <3>5. sub'[s].max = sub[s].max /\ sub'[s].received + Unread(s)' = sub[s].received + Unread(s)
      BY <2>2, <2>3, <3>1 DEF Unread
    <3> QED
      BY <1>0, <2>3, <3>1, <3>3, <3>4, <3>5, SuppliedSpoken
  <2> QED
    BY <1>a, <2>4
<1>9. ASSUME ReceiveMsg
      PROVE  AllSupplied'
  <2>1. PICK s \in Sids : Head(toClient) = Msg(s) /\ (Dropped(s) \/ Delivered(s) \/ LastOne(s))
    BY <1>9, ReceiveMsgDoes
  <2>2. toClient # << >> /\ toClient' = Tail(toClient) /\ raised' = raised
    BY <1>9, ReceiveMsgDoes
  <2>3. ASSUME NEW t \in Sids
        PROVE  /\ t = s => Unread(t) = Unread(t)' + 1
               /\ t # s => Unread(t)' = Unread(t)
               /\ Unread(t) \in Nat /\ Unread(t)' \in Nat /\ sub[t].received \in Nat
    <3>1. toClient \in Seq(Replies) /\ CountsOf(t) /\ CountsOf(t)'
      BY CountsAre, CountsPrimed DEF TypesInv, WireTypes
    <3>2. Count(toClient, Msg(t)) = (IF Head(toClient) = Msg(t) THEN 1 ELSE 0)
                                       + Count(Tail(toClient), Msg(t))
      BY <2>2, <3>1, CountTail
    <3>3. t # s => Msg(t) # Msg(s)
      BY RepliesAre
    <3>4. Unread(t) = (IF Msg(s) = Msg(t) THEN 1 ELSE 0) + Unread(t)'
      BY <2>1, <2>2, <3>2 DEF Unread
    <3> QED
      BY <3>1, <3>3, <3>4 DEF CountsOf
  <2>4. /\ table' = table \/ (LastOne(s) /\ table' = table \ {s})
        /\ \A t \in Sids : t # s => Same(t)
        /\ \/ Spoken(<< >>) /\ (s \in table' => Delivered(s))
           \/ Spoken(<<UnsubCmd(s, Unlimited)>>) /\ s \notin table'
    BY <2>1 DEF Dropped, Delivered, LastOne, Counted
  <2>5. ASSUME NEW t \in Live'
        PROVE  Supplied(t)'
    <3>1. t \in Sids /\ t \in table' /\ t \notin raised /\ ~sub'[t].draining /\ t \in table
      BY <1>0, <1>b, <2>2, <2>4
    <3>2. CASE t = s
      <4>1. Delivered(s) /\ Spoken(<< >>)
        BY <2>4, <3>1, <3>2
      <4>2. /\ sub'[s].received = sub[s].received + 1 /\ sub'[s].draining = sub[s].draining
            /\ sub'[s].max = sub[s].max
        BY <4>1 DEF Delivered, Counted
      <4>3. sub'[s].received + Unread(s)' = sub[s].received + Unread(s)
        BY <2>3, <4>2
      <4>4. s \in Live
        BY <1>b, <3>1, <3>2, <4>2
      <4> QED
        BY <1>0, <3>2, <4>1, <4>2, <4>3, <4>4, NotInNone, SuppliedSpoken
    <3>3. CASE t # s
      <4>1. Same(t) /\ Unread(t)' = Unread(t)
        BY <2>3, <2>4, <3>1, <3>3
      <4>2. t \in Live
        BY <1>b, <3>1, <4>1 DEF Same
      <4>3. sub'[t].max = sub[t].max /\ sub'[t].received + Unread(t)' = sub[t].received + Unread(t)
        BY <4>1 DEF Same
      <4>4. PICK w : Spoken(w) /\ (w = << >> \/ w = <<UnsubCmd(s, Unlimited)>>)
        BY <2>4
      <4>5. \A m \in 0..MaxLimit : UnsubCmd(t, m) \notin ToSet(w)
        BY <1>0, <3>1, <3>3, <4>4, NotInNone, OtherUnsub
      <4> QED
        BY <1>0, <3>1, <4>2, <4>3, <4>4, <4>5, SuppliedSpoken
    <3> QED
      BY <3>2, <3>3
  <2> QED
    BY <1>a, <2>5
<1> QED
  BY <1>1, <1>3, <1>4, <1>6, <1>7, <1>8, <1>9 DEF Speaking
\* The PONG of the handshake: the SUBs are restored, and a limit that is
\* restored is what the client waits for and what is unread.
LEMMA SuppliedHandshake ==
    ASSUME TypesInv, TypesInv', Greeting, NEW s \in table, Supplied(s),
           HandshakeDone, toClient # << >>, Head(toClient) = Pong, conn = "info"
    PROVE  Supplied(s)'
<1>0. s \in Sids /\ CountsOf(s) /\ CountsOf(s)'
  BY SidsAre, CountsAre, CountsPrimed
<1>1. /\ toClient' = Tail(toClient) /\ UNCHANGED <<sub, serverSubs, sent, limit>>
  BY DEF HandshakeDone, subs
<1>2. Unread(s)' = Unread(s)
  BY <1>0, <1>1, TailsAre DEF Unread
<1>3. Served(s)' = Served(s) /\ Expected(s)' = Expected(s)
  BY <1>1, <1>2 DEF Served, Expected
<1>4. SubCmd(s) \in Issued'
  BY HandshakeDoes, SendSubscriptionsAre
<1>5. Served(s) <= Unread(s)
  <2>1. s \in serverSubs => sent[s] <= Unread(s)
    BY DEF Greeting
  <2> QED
    BY <1>0, <2>1 DEF CountsOf
<1>6. ASSUME NEW m \in 0..MaxLimit, UnsubCmd(s, m) \in Issued'
      PROVE  m # Unlimited /\ sub'[s].max # Unlimited /\ m - Served(s)' >= Expected(s)'
  <2>1. CASE UnsubCmd(s, m) \in Issued
    BY <1>1, <1>3, <2>1 DEF Supplied
  <2>2. CASE UnsubCmd(s, m) \in ToSet(SendSubscriptions)
    <3>1. PICK t \in table :
             \/ UnsubCmd(s, m) = SubCmd(t)
             \/ /\ sub[t].max # Unlimited
                /\ sub[t].max - sub[t].received \in 1..MaxLimit
                /\ UnsubCmd(s, m) = UnsubCmd(t, sub[t].max - sub[t].received)
      BY <2>2, SendSubscriptionsAre
    <3>2. t \in Sids
      BY SidsAre
    <3>3. UnsubCmd(s, m) # SubCmd(t)
      <4>1. UnsubCmd(s, m).op = "UNSUB" /\ SubCmd(t).op = "SUB"
        BY <1>0, <3>2, CommandsAre
      <4> QED
        BY <4>1
    <3>4. PICK k \in 1..MaxLimit : /\ k = sub[t].max - sub[t].received
                                   /\ UnsubCmd(s, m) = UnsubCmd(t, k)
                                   /\ sub[t].max # Unlimited
      BY <3>1, <3>3
    <3>5. k \in 0..MaxLimit /\ k # Unlimited /\ k \in Int
      BY SubscriptionsAssumption DEF Unlimited
    <3>6. t = s /\ k = m
      BY <1>0, <3>2, <3>4, <3>5, CommandsAre
    <3>7. m - Served(s) >= Expected(s)
      <4>1. /\ Served(s) \in Nat /\ Unread(s) \in Nat /\ sub[s].received \in Nat /\ sub[s].max \in Nat
            /\ Expected(s) = sub[s].max - (sub[s].received + Unread(s))
        BY <1>0 DEF CountsOf
      <4>2. m = sub[s].max - sub[s].received
        BY <3>4, <3>6
      <4>3. PICK a \in Nat, b \in Nat : a = sub[s].max /\ b = sub[s].received
        BY <4>1
      <4>4. PICK d \in Nat, u \in Nat : d = Served(s) /\ u = Unread(s)
        BY <4>1
      <4>5. m = a - b /\ d <= u /\ Expected(s) = a - (b + u)
        BY <1>5, <4>1, <4>2, <4>3, <4>4
      <4>6. m - d >= Expected(s)
        BY <4>5
      <4> QED
        BY <4>4, <4>6
    <3> QED
      BY <1>1, <1>3, <3>4, <3>5, <3>6, <3>7
  <2> QED
    BY <1>6, <2>1, <2>2, HandshakeDoes
<1>7. s \in serverSubs' =>
          /\ sent'[s] <= sub'[s].received + Unread(s)'
          /\ limit'[s] # Unlimited => sub'[s].max # Unlimited /\ limit'[s] - sent'[s] >= Expected(s)'
  BY <1>1, <1>2, <1>3 DEF Supplied
<1> QED
  BY <1>4, <1>6, <1>7 DEF Supplied

\* The server reads a command: it forgets s for an UNSUB of s only if it has
\* sent what the client waits for.
LEMMA SuppliedRead ==
    ASSUME TypesInv, TypesInv', Connection, ServerRead, NEW s \in Sids, Supplied(s)
    PROVE  Supplied(s)'
<1>0. /\ toClient \in Seq(Replies) /\ sent \in [Sids -> Nat] /\ limit \in [Sids -> 0..MaxLimit]
      /\ Pong \in Replies /\ Msg(s) # Pong /\ CountsOf(s) /\ CountsOf(s)'
  BY RepliesAre, TailsAre, CountsAre, CountsPrimed DEF TypesInv, WireTypes
<1>1. /\ toServer # << >> /\ UNCHANGED <<conn, sub>>
      /\ \/ Head(toServer) = PingCmd /\ ServerPing
         \/ \E t \in Sids : Head(toServer) = SubCmd(t) /\ ServerSub(t)
         \/ \E t \in Sids, max \in 0..MaxLimit :
               Head(toServer) = UnsubCmd(t, max) /\ ServerUnsub(t, max)
  BY ServerReadDoes DEF client, subs
<1>2. Issued = {Head(toServer)} \cup Issued' /\ Issued' \subseteq Issued
  BY ReadDoes
<1>3. conn # "down"
  BY <1>1 DEF Connection
<1>4. Unread(s)' = Unread(s)
  <2>1. CASE ServerPing
    <3>1. Count(Append(toClient, Pong), Msg(s)) = Count(toClient, Msg(s))
      BY <1>0, CountAppend
    <3> QED
      BY <2>1, <3>1 DEF ServerPing, Unread
  <2>2. CASE toClient' = toClient
    BY <2>2 DEF Unread
  <2> QED
    BY <1>1, <2>1, <2>2 DEF ServerSub, ServerUnsub
<1>5. Expected(s)' = Expected(s) /\ sub' = sub
  BY <1>1, <1>4 DEF Expected
<1>6. ASSUME SubCmd(s) # Head(toServer),
             s \in serverSubs' <=> s \in serverSubs, sent'[s] = sent[s], limit'[s] = limit[s]
      PROVE  Supplied(s)'
  <2>1. SubCmd(s) \in Issued => SubCmd(s) \in Issued'
    BY <1>2, <1>6
  <2>2. \A max \in 0..MaxLimit : UnsubCmd(s, max) \in Issued' => UnsubCmd(s, max) \in Issued
    BY <1>2
  <2>3. sub'[s].max = sub[s].max /\ sub'[s].received + Unread(s)' = sub[s].received + Unread(s)
    BY <1>1, <1>4
  <2>4. conn' = conn
    BY <1>1
  <2> QED
    BY <1>6, <2>1, <2>2, <2>3, <2>4, SuppliedKept
<1>7. CASE Head(toServer) = PingCmd /\ ServerPing
  <2>1. SubCmd(s).op = "SUB" /\ PingCmd.op = "PING"
    BY CommandsAre
  <2>2. UNCHANGED <<serverSubs, sent, limit>>
    BY <1>7 DEF ServerPing
  <2> QED
    BY <1>6, <1>7, <2>1, <2>2
<1>8. ASSUME NEW t \in Sids, Head(toServer) = SubCmd(t), ServerSub(t)
      PROVE  Supplied(s)'
  <2>1. /\ serverSubs' = serverSubs \cup {t}
        /\ t \in serverSubs => sent' = sent /\ limit' = limit
        /\ t \notin serverSubs => /\ sent' = [sent EXCEPT ![t] = 0]
                                  /\ limit' = [limit EXCEPT ![t] = Unlimited]
    BY <1>8 DEF ServerSub
  <2>2. CASE t # s
    <3>1. SubCmd(s).sid = s /\ SubCmd(t).sid = t
      BY CommandsAre
    <3>2. SubCmd(s) # Head(toServer)
      BY <1>8, <2>2, <3>1
    <3>3. sent'[s] = sent[s] /\ limit'[s] = limit[s]
      BY <1>0, <2>1, <2>2
    <3>4. s \in serverSubs' <=> s \in serverSubs
      BY <2>1, <2>2
    <3> QED
      BY <1>6, <3>2, <3>3, <3>4
  <2>3. CASE t = s
    <3>1. s \in serverSubs'
      BY <2>1, <2>3
    <3>2. /\ s \in serverSubs => sent'[s] = sent[s] /\ limit'[s] = limit[s]
          /\ s \notin serverSubs => sent'[s] = 0 /\ limit'[s] = Unlimited
      BY <1>0, <2>1, <2>3
    <3>3. Served(s)' = Served(s)
      BY <3>1, <3>2 DEF Served
    <3>4. \A m \in 0..MaxLimit : UnsubCmd(s, m) \in Issued' =>
              m # Unlimited /\ sub'[s].max # Unlimited /\ m - Served(s)' >= Expected(s)'
      BY <1>2, <1>3, <1>5, <3>3 DEF Supplied
    <3>5. sent'[s] <= sub'[s].received + Unread(s)'
      <4>1. CASE s \in serverSubs
        BY <1>4, <1>5, <3>2, <4>1 DEF Supplied
      <4>2. CASE s \notin serverSubs
        <5>1. sent'[s] = 0 /\ sub'[s].received \in Nat /\ Unread(s)' \in Nat
          BY <1>0, <3>2, <4>2 DEF CountsOf
        <5> QED
          BY <5>1
      <4> QED
        BY <4>1, <4>2
    <3>6. limit'[s] # Unlimited => sub'[s].max # Unlimited /\ limit'[s] - sent'[s] >= Expected(s)'
      BY <1>5, <3>2 DEF Supplied
    <3> QED
      BY <3>1, <3>4, <3>5, <3>6 DEF Supplied
  <2> QED
    BY <2>2, <2>3
<1>9. ASSUME NEW t \in Sids, NEW max \in 0..MaxLimit, Head(toServer) = UnsubCmd(t, max),
             ServerUnsub(t, max)
      PROVE  Supplied(s)'
  <2>0. /\ UnsubCmd(t, max).op = "UNSUB" /\ UnsubCmd(t, max).sid = t /\ SubCmd(s).op = "SUB"
        /\ max \in Nat
    BY SubscriptionsAssumption, CommandsAre
  <2>1. /\ serverSubs' = IF max = Unlimited \/ sent[t] >= max THEN serverSubs \ {t} ELSE serverSubs
        /\ limit' = [limit EXCEPT ![t] = max] /\ sent' = sent
    BY <1>9 DEF ServerUnsub
  <2>2. SubCmd(s) # Head(toServer)
    BY <1>9, <2>0
  <2>3. CASE t # s
    <3>1. limit'[s] = limit[s]
      BY <1>0, <2>1, <2>3
    <3> QED
      BY <1>6, <2>1, <2>2, <2>3, <3>1
  <2>4. CASE t = s
    <3>1. /\ max # Unlimited /\ sub[s].max # Unlimited /\ max - Served(s) >= Expected(s)
      BY <1>2, <1>3, <1>9, <2>4 DEF Supplied
    <3>2. limit'[s] = max /\ sent'[s] = sent[s] /\ (s \in serverSubs' => s \in serverSubs)
      BY <1>0, <2>1, <2>4
    <3>3. s \in serverSubs => (s \notin serverSubs' => sent[s] >= max)
      BY <2>1, <2>4, <3>1
    <3>4. Served(s)' <= Served(s)
      <4>1. Served(s)' = IF s \in serverSubs' THEN sent[s] ELSE 0
        BY <3>2 DEF Served
      <4>2. Served(s) \in Nat /\ (s \in serverSubs' => Served(s) = sent[s])
        BY <1>0, <3>2 DEF CountsOf
      <4> QED
        BY <4>1, <4>2
    <3>5. SubCmd(s) \in Issued => SubCmd(s) \in Issued'
      BY <1>2, <2>2
    <3>6. conn' = "ready" =>
             \/ s \in serverSubs' \/ SubCmd(s) \in Issued'
             \/ sub'[s].max # Unlimited /\ Expected(s)' <= 0
      <4>1. ASSUME s \in serverSubs, s \notin serverSubs'
            PROVE  Expected(s) <= 0
        <5>1. Served(s) = sent[s] /\ Served(s) \in Nat /\ Expected(s) \in Int
          BY <1>0, <4>1 DEF CountsOf
        <5> QED
          BY <2>0, <3>1, <3>3, <4>1, <5>1
      <4> QED
        BY <1>1, <1>5, <3>1, <3>5, <4>1 DEF Supplied
    <3>7. ASSUME NEW m \in 0..MaxLimit, UnsubCmd(s, m) \in Issued'
          PROVE  m # Unlimited /\ sub'[s].max # Unlimited /\ m - Served(s)' >= Expected(s)'
      <4>1. m # Unlimited /\ m - Served(s) >= Expected(s)
        BY <1>2, <1>3, <3>7 DEF Supplied
      <4>2. m \in Int /\ Served(s) \in Nat /\ Served(s)' \in Nat /\ Expected(s) \in Int
        BY <1>0 DEF CountsOf
      <4> QED
        BY <1>5, <3>1, <3>4, <4>1, <4>2
    <3>8. s \in serverSubs' =>
              /\ sent'[s] <= sub'[s].received + Unread(s)'
              /\ limit'[s] # Unlimited => sub'[s].max # Unlimited /\ limit'[s] - sent'[s] >= Expected(s)'
      BY <1>0, <1>4, <1>5, <3>1, <3>2 DEF Supplied, CountsOf
    <3> QED
      BY <3>6, <3>7, <3>8 DEF Supplied
  <2> QED
    BY <2>3, <2>4
<1> QED
  BY <1>1, <1>7, <1>8, <1>9

\* The server sends a message: what it has sent and what is unread grow
\* together, and it forgets s only with the last that the client waits for.
LEMMA SuppliedSend ==
    ASSUME TypesInv, TypesInv', NEW t \in Sids, ServerSend(t), NEW s \in Sids, Supplied(s)
    PROVE  Supplied(s)'
<1>0. /\ toClient \in Seq(Replies) /\ sent \in [Sids -> Nat] /\ limit \in [Sids -> 0..MaxLimit]
      /\ Msg(s) \in Replies /\ Msg(t) \in Replies /\ CountsOf(s) /\ CountsOf(s)'
  BY RepliesAre, CountsAre, CountsPrimed DEF TypesInv, WireTypes
<1>1. /\ t \in serverSubs /\ toClient' = Append(toClient, Msg(t))
      /\ sent' = [sent EXCEPT ![t] = @ + 1]
      /\ serverSubs' = IF limit[t] # Unlimited /\ sent[t] + 1 >= limit[t]
                       THEN serverSubs \ {t} ELSE serverSubs
      /\ UNCHANGED <<conn, sub, outbound, toServer, limit>>
  BY DEF ServerSend, subs, client
<1>2. Issued' = Issued
  BY <1>1 DEF Issued
<1>3. CASE t # s
  <2>1. Msg(t) # Msg(s)
    BY <1>3, RepliesAre
  <2>2. Count(Append(toClient, Msg(t)), Msg(s)) = Count(toClient, Msg(s))
    BY <1>0, <2>1, CountAppend
  <2>3. Unread(s)' = Unread(s)
    BY <1>1, <2>2 DEF Unread
  <2>4. sent'[s] = sent[s] /\ limit'[s] = limit[s] /\ (s \in serverSubs' <=> s \in serverSubs)
    BY <1>0, <1>1, <1>3
  <2>5. conn' = conn /\ sub' = sub
    BY <1>1
  <2> QED
    BY <1>2, <2>3, <2>4, <2>5, SuppliedKept
<1>4. CASE t = s
  <2>1. Count(Append(toClient, Msg(t)), Msg(s)) = Count(toClient, Msg(s)) + 1
    <3>1. Count(Append(toClient, Msg(t)), Msg(s)) =
             IF Msg(t) = Msg(s) THEN Count(toClient, Msg(s)) + 1 ELSE Count(toClient, Msg(s))
      BY <1>0, CountAppend
    <3> QED
      BY <1>4, <3>1
  <2>2. Unread(s)' = Unread(s) + 1
    BY <1>1, <2>1 DEF Unread
  <2>3. sent'[s] = sent[s] + 1 /\ limit'[s] = limit[s] /\ sub' = sub /\ s \in serverSubs
    BY <1>0, <1>1, <1>4
  <2>4. s \notin serverSubs' => limit[s] # Unlimited /\ sent[s] + 1 >= limit[s]
    BY <1>1, <1>4
  <2>a. /\ Served(s) \in Nat /\ Expected(s) \in Int /\ Unread(s) \in Nat
        /\ sub[s].received \in Nat /\ sub[s].max \in Nat /\ sent[s] \in Nat /\ limit[s] \in Nat
        /\ Expected(s) = sub[s].max - (sub[s].received + Unread(s)) /\ Served(s) = sent[s]
    BY <1>0, <2>3 DEF CountsOf
  <2>5. Expected(s)' = Expected(s) - 1
    <3>1. Expected(s)' = sub[s].max - (sub[s].received + Unread(s)')
      BY <2>3 DEF Expected
    <3> QED
      BY <2>2, <2>a, <3>1
  <2>6. Served(s) = sent[s] /\ Served(s)' <= Served(s) + 1 /\ Served(s)' \in Nat
    <3>1. Served(s)' = IF s \in serverSubs' THEN sent[s] + 1 ELSE 0
      BY <2>3 DEF Served
    <3> QED
      BY <2>a, <3>1
  <2>7. /\ sent[s] <= sub[s].received + Unread(s)
        /\ limit[s] # Unlimited => sub[s].max # Unlimited /\ limit[s] - sent[s] >= Expected(s)
    BY <2>3 DEF Supplied
  <2>8. s \notin serverSubs' => sub'[s].max # Unlimited /\ Expected(s)' <= 0
    BY <2>3, <2>4, <2>5, <2>7, <2>a
  <2>9. ASSUME conn' # "down", NEW m \in 0..MaxLimit, UnsubCmd(s, m) \in Issued'
        PROVE  m # Unlimited /\ sub'[s].max # Unlimited /\ m - Served(s)' >= Expected(s)'
    <3>1. m # Unlimited /\ sub[s].max # Unlimited /\ m - Served(s) >= Expected(s)
      BY <1>1, <1>2, <2>9 DEF Supplied
    <3>2. m \in Int
      BY SubscriptionsAssumption
    <3> QED
      BY <2>3, <2>5, <2>6, <2>a, <3>1, <3>2
  <2>10. /\ sent'[s] <= sub'[s].received + Unread(s)'
         /\ limit'[s] # Unlimited => sub'[s].max # Unlimited /\ limit'[s] - sent'[s] >= Expected(s)'
    BY <2>2, <2>3, <2>5, <2>7, <2>a
  <2> QED
    BY <2>8, <2>9, <2>10 DEF Supplied
<1> QED
  BY <1>3, <1>4
LEMMA SuppliedNext ==
    ASSUME TypesInv, TypesInv', Connection, Known, Greeting, AllSupplied, [Next]_vars
    PROVE  AllSupplied'
<1>0. /\ table \subseteq Sids /\ \A s \in Live : s \in Sids /\ s \in table /\ Supplied(s)
  BY SidsAre DEF AllSupplied, Live
<1>a. ASSUME \A s \in Live' : Supplied(s)'
      PROVE  AllSupplied'
  BY <1>a DEF AllSupplied
<1>b. ASSUME raised' = raised, table' \subseteq table, \A s \in Sids : Same(s)
      PROVE  Live' \subseteq Live
  BY <1>0, <1>b DEF Live, Same
<1>c. ASSUME UNCHANGED <<table, sub, raised>>
      PROVE  Live' = Live
  BY <1>c DEF Live
<1>1. CASE Speaking
  BY <1>1, SuppliedSpeaking
<1>2. ASSUME Closed
      PROVE  AllSupplied'
  <2>1. table' = {}
    BY <1>2, ClosedDoes
  <2> QED
    BY <2>1 DEF AllSupplied, Live
<1>3. ASSUME NEW t \in Sids, SubscriptionDrained(t), UNCHANGED <<epoch, messages>>,
             toClient # << >>, Head(toClient) = Pong, raised' = raised
      PROVE  AllSupplied'
  <2>1. /\ table' = table \ {t} /\ (\A s \in Sids : Same(s)) /\ Spoken(<< >>)
        /\ toClient' = Tail(toClient)
    BY <1>3, SubscriptionDrainedDoes
  <2>2. Live' \subseteq Live
    BY <1>3, <1>b, <2>1
  <2>3. ASSUME NEW s \in Live'
        PROVE  Supplied(s)'
    <3>1. s \in Sids /\ Supplied(s) /\ Same(s)
      BY <1>0, <2>1, <2>2
    <3>2. Unread(s)' = Unread(s)
      BY <1>3, <2>1, <3>1, TailsAre DEF Unread
    <3>3. sub'[s].max = sub[s].max /\ sub'[s].received + Unread(s)' = sub[s].received + Unread(s)
      BY <3>1, <3>2 DEF Same
    <3> QED
      BY <2>1, <3>1, <3>3, NotInNone, SuppliedSpoken
  <2> QED
    BY <1>a, <2>3
<1>4. CASE ReceivePong
  <2>1. /\ toClient # << >> /\ Head(toClient) = Pong /\ pongs # << >>
        /\ UNCHANGED <<epoch, messages, raised>>
        /\ \/ Head(pongs) = Handshake /\ HandshakeDone
           \/ Head(pongs) \in Sids /\ SubscriptionDrained(Head(pongs))
           \/ Closed
    BY <1>4, ReceivePongDoes
  <2>2. CASE Head(pongs) = Handshake /\ HandshakeDone
    <3>1. Handshake \in ToSet(pongs)
      BY <2>1, <2>2, HeadTail DEF TypesInv, WireTypes
    <3>2. conn = "info"
      BY <3>1 DEF Greeting
    <3>3. UNCHANGED <<table, sub>>
      BY <2>2 DEF HandshakeDone, subs
    <3>4. Live' = Live
      BY <1>c, <2>1, <3>3
    <3> QED
      BY <1>0, <1>a, <2>1, <2>2, <3>2, <3>4, SuppliedHandshake
  <2>3. CASE Head(pongs) \in Sids /\ SubscriptionDrained(Head(pongs))
    BY <1>3, <2>1, <2>3
  <2> QED
    BY <1>2, <2>1, <2>2, <2>3
<1>5. CASE Close
  BY <1>2, <1>5 DEF Close
<1>6. CASE FlushPending
  <2>1. UNCHANGED <<subs, conn, toClient, serverSubs, sent, limit, history>>
    BY <1>6, FlushDoes
  <2>2. Live' = Live
    BY <1>c, <2>1 DEF subs, history
  <2>3. ASSUME NEW s \in Live'
        PROVE  Supplied(s)'
    <3>1. s \in Sids /\ Supplied(s)
      BY <1>0, <2>2, <2>3
    <3>2. sub'[s].max = sub[s].max /\ sub'[s].received + Unread(s)' = sub[s].received + Unread(s)
      BY <2>1 DEF subs, Unread
    <3>3. CASE conn = "down"
      <4>1. serverSubs' = {} /\ conn' = "down"
        BY <2>1, <3>3 DEF Connection
      <4> QED
        BY <4>1 DEF Supplied
    <3>4. CASE conn # "down"
      <4>1. Issued' = Issued
        BY <1>6, <3>4, FlushDoes
      <4> QED
        BY <2>1, <3>1, <3>2, <4>1, SuppliedKept
    <3> QED
      BY <3>3, <3>4
  <2> QED
    BY <1>a, <2>3
<1>7. CASE ReceiveInfo
  <2>1. /\ UNCHANGED <<subs, toClient, serverSubs, sent, limit, history>>
        /\ conn = "tcp" /\ conn' = "info" /\ Issued' = Issued \cup {PingCmd}
    BY <1>7, InfoDoes
  <2>2. Live' = Live
    BY <1>c, <2>1 DEF subs, history
  <2>3. ASSUME NEW s \in Live'
        PROVE  Supplied(s)'
    <3>1. s \in Sids /\ Supplied(s)
      BY <1>0, <2>2, <2>3
    <3>2. sub'[s].max = sub[s].max /\ sub'[s].received + Unread(s)' = sub[s].received + Unread(s)
      BY <2>1 DEF subs, Unread
    <3>3. PingCmd.op = "PING" /\ \A m \in 0..MaxLimit : UnsubCmd(s, m).op = "UNSUB"
      BY <3>1, CommandsAre
    <3>4. \A m \in 0..MaxLimit : UnsubCmd(s, m) \in Issued' => UnsubCmd(s, m) \in Issued
      BY <2>1, <3>3
    <3>5. SubCmd(s) \in Issued => SubCmd(s) \in Issued'
      BY <2>1
    <3> QED
      BY <2>1, <3>1, <3>2, <3>4, <3>5, SuppliedKept
  <2> QED
    BY <1>a, <2>3
<1>8. CASE Lose
  <2>1. serverSubs' = {} /\ conn' = "down"
    BY <1>8 DEF Lose
  <2> QED
    BY <1>a, <2>1 DEF Supplied
<1>9. CASE Redial
  <2>1. conn = "down" /\ conn' = "dialing" /\ UNCHANGED server /\ outbound' \in Seq({PingCmd})
    BY <1>9, RedialDoes
  <2>2. toServer' = << >> /\ serverSubs' = {}
    BY <2>1 DEF Connection, server
  <2>3. ToSet(outbound') \subseteq {PingCmd}
    BY <2>1 DEF ToSet
  <2>4. Issued' \subseteq {PingCmd}
    <3>1. ToSet(toServer') = {}
      BY <2>2, NotInNone, Zenon
    <3> QED
      BY <2>3, <3>1 DEF Issued
  <2>5. ASSUME NEW s \in Live', NEW m \in 0..MaxLimit
        PROVE  UnsubCmd(s, m) \notin Issued'
    <3>1. UnsubCmd(s, m).op = "UNSUB" /\ PingCmd.op = "PING"
      BY <2>5 DEF UnsubCmd, PingCmd
    <3> QED
      BY <2>4, <3>1
  <2> QED
    BY <1>a, <2>1, <2>2, <2>5 DEF Supplied
<1>10. CASE DialOk \/ DialFailed
  <2>1. /\ conn = "dialing" /\ conn' # "ready"
        /\ UNCHANGED <<subs, outbound, server, history>>
    BY <1>10 DEF DialOk, DialFailed
  <2>2. UNCHANGED <<table, sub, raised, toClient, toServer, outbound, serverSubs, sent, limit>>
    BY <2>1 DEF subs, server, history
  <2>3. Issued' = Issued /\ Live' = Live
    BY <1>c, <2>2 DEF Issued
  <2>4. ASSUME NEW s \in Live'
        PROVE  Supplied(s)'
    <3>1. sub'[s].max = sub[s].max /\ sub'[s].received + Unread(s)' = sub[s].received + Unread(s)
      BY <2>2 DEF Unread
    <3> QED
      BY <1>0, <2>1, <2>2, <2>3, <3>1, SuppliedKept
  <2> QED
    BY <1>a, <2>4
<1>11. CASE ServerRead
  <2>1. UNCHANGED <<table, sub, raised>>
    BY <1>11, ServerReadDoes DEF subs
  <2> QED
    BY <1>0, <1>a, <1>c, <1>11, <2>1, SuppliedRead
<1>12. ASSUME NEW t \in Sids, ServerSend(t)
       PROVE  AllSupplied'
  <2>1. UNCHANGED <<table, sub, raised>>
    BY <1>12 DEF ServerSend, subs
  <2> QED
    BY <1>0, <1>a, <1>c, <1>12, <2>1, SuppliedSend
<1>13. CASE UNCHANGED vars
  <2>1. /\ UNCHANGED <<table, sub, raised, conn, toClient, toServer, outbound, serverSubs, sent, limit>>
    BY <1>13 DEF vars, subs, client, server, history
  <2>2. Issued' = Issued /\ Live' = Live
    BY <1>c, <2>1 DEF Issued
  <2>3. ASSUME NEW s \in Live'
        PROVE  Supplied(s)'
    <3>1. sub'[s].max = sub[s].max /\ sub'[s].received + Unread(s)' = sub[s].received + Unread(s)
      BY <2>1 DEF Unread
    <3> QED
      BY <1>0, <2>1, <2>2, <3>1, SuppliedKept
  <2> QED
    BY <1>a, <2>3
<1> QED
  BY <1>1, <1>4, <1>5, <1>6, <1>7, <1>8, <1>9, <1>10, <1>11, <1>12, <1>13, StepsAre

\* When nothing is on its way, the server has every subscription of the client
\* and will send it what it waits for (NotStarved), whatever was discarded by a
\* reconnect, stripped after the handshake or counted in between.
THEOREM NeverStarved == Spec => []NotStarved
<1> DEFINE IInv == TypesInv /\ Connection /\ Known /\ Greeting /\ AllSupplied
<1>1. ASSUME Init PROVE IInv
  <2>1. TypesInv
    BY <1>1, TypesInit
  <2>2. /\ outbound = << >> /\ toServer = << >> /\ serverSubs = {} /\ table = {}
        /\ conn = "tcp" /\ pongs = << >> /\ Connection
    BY <1>1 DEF Init, Connection
  <2>3. Issued = {} /\ Handshake \notin ToSet(pongs)
    <3>1. ToSet(outbound) = {} /\ ToSet(toServer) = {} /\ ToSet(pongs) = {}
      BY <2>2, NotInNone, Zenon
    <3> QED
      BY <3>1 DEF Issued
  <2> QED
    BY <2>1, <2>2, <2>3 DEF Known, Greeting, AllSupplied, Live
<1>2. IInv /\ [Next]_vars => IInv'
  <2> SUFFICES ASSUME IInv, [Next]_vars PROVE IInv'
    OBVIOUS
  <2>1. TypesInv'
    BY TypesNext
  <2> QED
    BY <2>1, ConnectionNext, KnownNext, GreetingNext, SuppliedNext
<1>3. IInv => NotStarved
  <2> SUFFICES ASSUME IInv, Quiescent, NEW s \in table \ raised, ~sub[s].draining
               PROVE  /\ s \in serverSubs
                      /\ \/ limit[s] = Unlimited
                         \/ /\ sub[s].max # Unlimited
                            /\ limit[s] - sent[s] >= sub[s].max - sub[s].received
    BY DEF NotStarved
  <2>1. s \in Sids /\ s \in Live /\ Supplied(s) /\ CountsOf(s)
    BY SidsAre, CountsAre DEF AllSupplied, Live
  <2>2. conn = "ready" /\ outbound = << >> /\ toServer = << >> /\ toClient = << >>
    BY DEF Quiescent
  <2>3. Issued = {}
    <3>1. ToSet(outbound) = {} /\ ToSet(toServer) = {}
      BY <2>2, NotInNone, Zenon
    <3> QED
      BY <3>1 DEF Issued
  <2>4. Unread(s) = 0
    BY <2>2, CountNil DEF Unread
  <2>5. Expected(s) = sub[s].max - sub[s].received
    BY <2>1, <2>4 DEF CountsOf
  <2>6. sub[s].max = Unlimited \/ sub[s].received < sub[s].max
    BY DEF TypesInv, SubsInv, Sound
  <2>7. sub[s].max # Unlimited => ~(Expected(s) <= 0)
    BY <2>1, <2>5, <2>6 DEF CountsOf
  <2>8. s \in serverSubs
    BY <2>1, <2>2, <2>3, <2>7 DEF Supplied
  <2> QED
    BY <2>1, <2>5, <2>8 DEF Supplied
<1> QED
  BY <1>1, <1>2, <1>3, PTL DEF Spec

-----------------------------------------------------------------------------
(* Callbacks and PINGs                                                      *)

\* A step queues the commands w and awaits the PONGs O: as many PINGs as
\* callbacks, each behind the UNSUB of the drain that it answers.
Adds(w, O) ==
    /\ Spoken(w) /\ O \in Seq(Callbacks) /\ pongs' = Cat(pongs, O)
    /\ Count(w, PingCmd) = Len(O)
    /\ \A s \in Sids : s <= sidCounter => SubCmd(s) \notin ToSet(w)
    /\ \A j \in 1..Len(O) : O[j] \in Sids =>
          /\ O[j] <= sidCounter' /\ sub'[O[j]].draining
          /\ \A s \in Sids : SubCmd(s) \notin ToSet(w)
          /\ \E p, r \in Seq(Commands) :
                /\ Split(w, p, PingCmd, r) /\ Count(r, PingCmd) = Len(O) - j
                /\ UnsubCmd(O[j], Unlimited) \in ToSet(p)

\* A subscription once draining is not drained again.
StillDraining ==
    /\ sidCounter <= sidCounter'
    /\ \A s \in Sids : s <= sidCounter /\ sub[s].draining =>
          sub'[s].draining /\ drainedOn'[s] = drainedOn[s]
    /\ \A s \in Sids :
          drainedOn'[s] = drainedOn[s] \/ (conn = "ready" /\ drainedOn'[s] = epoch)

LEMMA AddsNone ==
    ASSUME TypesInv, NEW w, Spoken(w), pongs' = pongs, Count(w, PingCmd) = 0,
           \A s \in Sids : s <= sidCounter => SubCmd(s) \notin ToSet(w)
    PROVE  Adds(w, << >>)
<1>1. << >> \in Seq(Callbacks) /\ Len(<< >>) = 0 /\ 1..0 = {}
  OBVIOUS
<1>2. pongs' = Cat(pongs, << >>)
  BY CatNil DEF TypesInv, WireTypes
<1> QED
  BY <1>1, <1>2 DEF Adds

LEMMA SpeakingAdds ==
    ASSUME TypesInv, Speaking
    PROVE  /\ \E w, O : Adds(w, O)
           /\ StillDraining
           /\ \/ toClient' = toClient
              \/ /\ toClient # << >> /\ toClient' = Tail(toClient)
                 /\ \E s \in Sids : Head(toClient) = Msg(s)
<1> DEFINE Added == \E w, O : Adds(w, O)
<1>0. /\ Unlimited \in 0..MaxLimit /\ sidCounter \in Nat /\ sidCounter <= sidCounter
      /\ table \subseteq Sids /\ \A s \in table : s <= sidCounter
  BY SidsAre, SubscriptionsAssumption DEF Unlimited, TypesInv
<1>1. ASSUME sidCounter' = sidCounter, drainedOn' = drainedOn,
             \A s \in Sids : sub'[s].draining = sub[s].draining
      PROVE  StillDraining
  BY <1>0, <1>1 DEF StillDraining
<1>2. ASSUME NEW max \in 0..MaxLimit, Subscribe(max)
      PROVE  Added /\ StillDraining /\ toClient' = toClient
  <2>1. PICK n, w : Subscribed(n, max, w)
    BY <1>2, SubscribeDoes
  <2>2. UNCHANGED <<toClient, pongs, drainedOn>>
    BY <1>2, SubscribeDoes
  <2>3. /\ n \in Sids /\ n = sidCounter + 1 /\ sidCounter' = n /\ Spoken(w)
        /\ ToSet(w) \subseteq {SubCmd(n), UnsubCmd(n, max)} /\ Count(w, PingCmd) = 0
        /\ \A t \in Sids : t # n => Same(t)
    BY <2>1 DEF Subscribed
  <2>4. ~(n <= sidCounter) /\ sidCounter <= n
    BY <1>0, <2>3
  <2>5. ASSUME NEW s \in Sids, s <= sidCounter
        PROVE  s # n /\ SubCmd(s) \notin ToSet(w)
    <3>1. SubCmd(s).sid = s /\ SubCmd(n).sid = n /\ UnsubCmd(n, max).sid = n
      BY <2>3, CommandsAre
    <3>2. s # n
      BY <2>4, <2>5
    <3> QED
      BY <2>3, <3>1, <3>2
  <2>6. Adds(w, << >>)
    BY <2>2, <2>3, <2>5, AddsNone
  <2>7. StillDraining
    BY <2>2, <2>3, <2>4, <2>5 DEF StillDraining, Same
  <2> QED
    BY <2>2, <2>6, <2>7
<1>3. ASSUME NEW s \in Sids, NEW max \in 0..MaxLimit, Spoken(<<UnsubCmd(s, max)>>), pongs' = pongs
      PROVE  Added
  <2>1. PICK x \in Commands : x = UnsubCmd(s, max) /\ x.op = "UNSUB"
    BY CommandsAre
  <2>2. ToSet(<<x>>) = {x} /\ Count(<<x>>, PingCmd) = IF x = PingCmd THEN 1 ELSE 0
    BY OneIs
  <2>3. x # PingCmd /\ \A t \in Sids : x # SubCmd(t)
    BY <2>1, CommandsAre
  <2>4. \A t \in Sids : SubCmd(t) \notin ToSet(<<x>>)
    BY <2>2, <2>3
  <2>5. Adds(<<x>>, << >>)
    BY <1>3, <2>1, <2>2, <2>3, <2>4, AddsNone
  <2> QED
    BY <2>5
<1>4. ASSUME Spoken(<< >>), pongs' = pongs
      PROVE  Added
  <2>1. Adds(<< >>, << >>)
    BY <1>4, NotInNone, CountNil, AddsNone
  <2> QED
    BY <2>1
<1>5. ASSUME NEW s \in Sids, NEW max \in 0..MaxLimit, Unsubscribe(s, max)
      PROVE  Added /\ StillDraining /\ toClient' = toClient
  <2>1. Limited(s, max, sub) /\ UNCHANGED <<sidCounter, toClient, pongs, drainedOn>>
    BY <1>5, UnsubscribeDoes
  <2> QED
    BY <1>1, <1>3, <2>1 DEF Limited
<1>6. ASSUME NEW s \in Sids, Timeout(s)
      PROVE  Added /\ StillDraining /\ toClient' = toClient
  <2>1. Limited(s, Unlimited, sub) /\ UNCHANGED <<sidCounter, toClient, pongs, drainedOn>>
    BY <1>6, TimeoutDoes
  <2> QED
    BY <1>0, <1>1, <1>3, <2>1 DEF Limited
<1>7. ASSUME NEW s \in Sids, SetTimeout(s) \/ CancelTimeout(s)
      PROVE  Added /\ StillDraining /\ toClient' = toClient
  <2>1. /\ \A t \in Sids : Same(t)
        /\ UNCHANGED <<sidCounter, client, server, messages, epoch, drainedOn>>
    BY <1>7, TimersDo
  <2>2. Spoken(<< >>) /\ pongs' = pongs /\ toClient' = toClient
    BY <2>1, NothingSpoken DEF client, server, Quiet
  <2> QED
    BY <1>1, <1>4, <2>1, <2>2 DEF Same
<1>8. ASSUME (\E s \in Sids : DrainSubscription(s)) \/ Drain
      PROVE  Added /\ StillDraining /\ toClient' = toClient
  <2>1. PICK S, D, O : S \in SUBSET table /\ (\A s \in S : ~sub[s].draining) /\ Draining(S, D, O)
    BY <1>8, DrainDoes
  <2>2. UNCHANGED <<sidCounter, toClient>>
    BY <1>8, DrainDoes
  <2>3. /\ Drains(S, D, O) /\ Spoken(D) /\ pongs' = Cat(pongs, O)
        /\ \A t \in Sids : /\ sub'[t].draining = (sub[t].draining \/ t \in S)
                           /\ t \in S /\ conn = "ready" => drainedOn'[t] = epoch
                           /\ ~(t \in S /\ conn = "ready") => drainedOn'[t] = drainedOn[t]
    BY <2>1 DEF Draining
  <2>4. /\ O \in Seq(Sids \cap S) /\ Count(D, PingCmd) = Len(O)
        /\ \A c \in ToSet(D) : c = PingCmd \/ \E s \in S : c = UnsubCmd(s, Unlimited)
        /\ \A k \in 1..Len(O) : \E p, r \in Seq(Commands) :
              /\ Split(D, p, PingCmd, r) /\ Count(r, PingCmd) = Len(O) - k
              /\ UnsubCmd(O[k], Unlimited) \in ToSet(p)
    BY <2>3 DEF Drains
  <2>5. S \subseteq Sids
    BY <1>0, <2>1
  <2>6. \A s \in Sids : SubCmd(s) \notin ToSet(D)
    <3>1. /\ PingCmd.op = "PING" /\ \A s \in Sids : SubCmd(s).op = "SUB"
          /\ \A t \in Sids : UnsubCmd(t, Unlimited).op = "UNSUB"
      BY <1>0, CommandsAre
    <3> QED
      BY <2>4, <2>5, <3>1
  <2>7. O \in Seq(Callbacks) /\ \A j \in 1..Len(O) : O[j] \in Sids /\ O[j] \in S
    BY <2>4 DEF Callbacks
  <2>8. \A j \in 1..Len(O) : O[j] <= sidCounter' /\ sub'[O[j]].draining
    BY <1>0, <2>1, <2>2, <2>3, <2>7
  <2>9. Adds(D, O)
    BY <2>3, <2>4, <2>6, <2>7, <2>8 DEF Adds
  <2>10. StillDraining
    BY <1>0, <2>1, <2>2, <2>3 DEF StillDraining
  <2> QED
    BY <2>2, <2>9, <2>10
<1>9. ASSUME DrainFlush
      PROVE  Added /\ StillDraining /\ toClient' = toClient
  <2>1. /\ PingCmd \in Commands /\ Spoken(<<PingCmd>>) /\ pongs' = Append(pongs, ConnectionDrain)
        /\ UNCHANGED <<sub, sidCounter, toClient, drainedOn>>
    BY <1>9, DrainFlushDoes
  <2>2. PICK x \in Commands : x = PingCmd
    BY <2>1
  <2>3. ToSet(<<x>>) = {x} /\ Count(<<x>>, PingCmd) = IF x = PingCmd THEN 1 ELSE 0
    BY OneIs
  <2>4. \A s \in Sids : SubCmd(s) \notin ToSet(<<x>>)
    <3>1. PingCmd.op = "PING" /\ \A s \in Sids : SubCmd(s).op = "SUB"
      BY CommandsAre
    <3> QED
      BY <2>2, <2>3, <3>1
  <2>5. PICK d \in Callbacks : d = ConnectionDrain /\ d \notin Sids
    BY SidsAre DEF Callbacks
  <2>6. PICK O \in Seq(Callbacks) : O = <<d>> /\ Len(O) = 1 /\ O[1] = d
    <3>1. <<d>> \in Seq(Callbacks) /\ Len(<<d>>) = 1 /\ <<d>>[1] = d
      OBVIOUS
    <3> QED
      BY <3>1, Zenon
  <2>7. pongs' = Cat(pongs, O)
    <3>0. pongs \in Seq(Callbacks)
      BY DEF TypesInv, WireTypes
    <3>1. PICK e \in Seq(Callbacks) : e = << >> /\ Cat(pongs, e) = pongs
      <4>1. << >> \in Seq(Callbacks) /\ Cat(pongs, << >>) = pongs
        BY <3>0, CatNil
      <4> QED
        BY <4>1, Zenon
    <3>2. Cat(pongs, Append(e, d)) = Append(Cat(pongs, e), d)
      BY <3>0, CatAppend
    <3>3. <<d>> = Append(e, d)
      BY <3>1, OneIs
    <3> QED
      BY <2>1, <2>5, <2>6, <3>1, <3>2, <3>3
  <2>8. Count(<<x>>, PingCmd) = Len(O) /\ \A j \in 1..Len(O) : O[j] \notin Sids
    BY <2>2, <2>3, <2>5, <2>6
  <2>9. Adds(<<x>>, O)
    BY <2>1, <2>2, <2>4, <2>7, <2>8 DEF Adds
  <2> QED
    BY <1>1, <2>1, <2>9
<1>10. ASSUME ReceiveMsg
       PROVE  /\ Added /\ StillDraining
              /\ toClient # << >> /\ toClient' = Tail(toClient)
              /\ \E s \in Sids : Head(toClient) = Msg(s)
  <2>1. PICK s \in Sids : Head(toClient) = Msg(s) /\ (Dropped(s) \/ Delivered(s) \/ LastOne(s))
    BY <1>10, ReceiveMsgDoes
  <2>2. toClient # << >> /\ toClient' = Tail(toClient) /\ UNCHANGED <<sidCounter, pongs, drainedOn>>
    BY <1>10, ReceiveMsgDoes
  <2>3. \A t \in Sids : sub'[t].draining = sub[t].draining
    BY <2>1 DEF Dropped, Delivered, LastOne, Counted, Same
  <2>4. Spoken(<< >>) \/ Spoken(<<UnsubCmd(s, Unlimited)>>)
    BY <2>1 DEF Dropped, Delivered, LastOne
  <2> QED
    BY <1>0, <1>1, <1>3, <1>4, <2>1, <2>2, <2>3, <2>4
<1> QED
  BY <1>2, <1>5, <1>6, <1>7, <1>8, <1>9, <1>10 DEF Speaking

\* A drain begun on this connection begins after its handshake.
LEMMA OnThisNext ==
    ASSUME TypesInv, Connection, Greeting, OnThis, [Next]_vars
    PROVE  OnThis'
<1>0. epoch \in Nat /\ \A s \in Sids : drainedOn[s] \in Nat
  BY SubscriptionsAssumption DEF TypesInv, OtherTypes
<1>1. CASE Speaking
  <2>1. PICK w : Spoken(w)
    BY <1>1, SpeakingDoes
  <2>2. UNCHANGED <<conn, epoch>>
    BY <2>1 DEF Spoken, Quiet
  <2>3. \A s \in Sids : drainedOn'[s] = drainedOn[s] \/ (conn = "ready" /\ drainedOn'[s] = epoch)
    BY <1>1, SpeakingAdds DEF StillDraining
  <2> QED
    BY <1>0, <2>2, <2>3 DEF OnThis
<1>2. ASSUME UNCHANGED <<epoch, drainedOn>>, conn' = conn \/ conn' \in {"ready", "closed"}
      PROVE  OnThis'
  BY <1>2 DEF OnThis
<1>3. ASSUME UNCHANGED <<epoch, drainedOn>>, conn \in {"down", "dialing", "tcp", "info"}
      PROVE  OnThis'
  BY <1>3 DEF OnThis
<1>4. CASE Close
  BY <1>2, <1>4, ClosedDoes DEF Close
<1>5. CASE ReceivePong
  <2>1. UNCHANGED <<epoch, messages, drainedOn>>
    BY <1>5, ReceivePongDoes
  <2>2. conn' = conn \/ conn' \in {"ready", "closed"}
    <3>1. CASE HandshakeDone
      BY <3>1 DEF HandshakeDone
    <3>2. CASE Closed
      BY <3>2, ClosedDoes
    <3>3. ASSUME NEW s \in Sids, SubscriptionDrained(s)
          PROVE  conn' = conn
      BY <2>1, <3>3, SubscriptionDrainedDoes DEF Spoken, Quiet
    <3> QED
      BY <1>5, <3>1, <3>2, <3>3, ReceivePongDoes
  <2> QED
    BY <1>2, <2>1, <2>2
<1>6. CASE FlushPending
  BY <1>2, <1>6 DEF FlushPending, history
<1>7. CASE ReceiveInfo
  BY <1>3, <1>7 DEF ReceiveInfo, history
<1>8. CASE Lose
  <2>1. epoch' = epoch + 1 /\ drainedOn' = drainedOn
    BY <1>8 DEF Lose
  <2>2. \A s \in Sids : drainedOn'[s] < epoch' /\ drainedOn'[s] <= epoch'
    BY <1>0, <2>1 DEF OnThis
  <2> QED
    BY <2>2 DEF OnThis
<1>9. CASE Redial \/ DialOk \/ DialFailed
  BY <1>3, <1>9 DEF Redial, DialOk, DialFailed, history
<1>10. CASE ServerRead
  BY <1>2, <1>10, ServerReadDoes DEF client
<1>11. ASSUME NEW s \in Sids, ServerSend(s)
       PROVE  OnThis'
  BY <1>2, <1>11 DEF ServerSend, client
<1>12. CASE UNCHANGED vars
  BY <1>2, <1>12 DEF vars, client, history
<1> QED
  BY <1>1, <1>4, <1>5, <1>6, <1>7, <1>8, <1>9, <1>10, <1>11, <1>12, StepsAre

\* What the callbacks that remain are.
LEMMA TailIs ==
    ASSUME TypesInv, pongs # << >>
    PROVE  /\ Len(pongs) \in Nat /\ Len(pongs) >= 1 /\ Len(Tail(pongs)) = Len(pongs) - 1
           /\ \A i \in 1..Len(Tail(pongs)) : i + 1 \in 1..Len(pongs) /\ Tail(pongs)[i] = pongs[i + 1]
<1>1. pongs \in Seq(Callbacks)
  BY DEF TypesInv, WireTypes
<1> QED
  BY <1>1

LEMMA AwaitedNext ==
    ASSUME TypesInv, Connection, Awaited, [Next]_vars
    PROVE  Awaited'
<1>0. pongs \in Seq(Callbacks) /\ sidCounter \in Nat
  BY SidsAre DEF TypesInv, WireTypes
<1>1. CASE Speaking
  <2>1. PICK w, O : Adds(w, O)
    BY <1>1, SpeakingAdds
  <2>2. StillDraining /\ sidCounter' \in Nat
    BY <1>1, SpeakingAdds, SpeakingSays
  <2>3. /\ O \in Seq(Callbacks) /\ pongs' = Cat(pongs, O)
        /\ \A j \in 1..Len(O) : O[j] \in Sids => O[j] <= sidCounter' /\ sub'[O[j]].draining
    BY <2>1 DEF Adds
  <2>4. ASSUME NEW i \in 1..Len(Cat(pongs, O)), Cat(pongs, O)[i] \in Sids
        PROVE  Cat(pongs, O)[i] <= sidCounter' /\ sub'[Cat(pongs, O)[i]].draining
    <3>1. CASE i \in 1..Len(pongs) /\ Cat(pongs, O)[i] = pongs[i]
      <4>1. pongs[i] \in Sids /\ pongs[i] <= sidCounter /\ sub[pongs[i]].draining
        BY <2>4, <3>1 DEF Awaited
      <4>2. PICK s \in Sids : s = pongs[i] /\ s \in Nat
        BY <4>1, SidsAre
      <4>3. s <= sidCounter /\ sub[s].draining /\ sidCounter <= sidCounter'
        BY <2>2, <4>1, <4>2 DEF StillDraining
      <4>4. s <= sidCounter' /\ sub'[s].draining
        BY <1>0, <2>2, <4>2, <4>3 DEF StillDraining
      <4> QED
        BY <3>1, <4>2, <4>4
    <3>2. CASE \E j \in 1..Len(O) : i = Len(pongs) + j /\ Cat(pongs, O)[i] = O[j]
      BY <2>3, <2>4, <3>2
    <3> QED
      BY <1>0, <2>3, <3>1, <3>2, CatParts
  <2> QED
    BY <2>3, <2>4 DEF Awaited
<1>2. ASSUME pongs' = << >>
      PROVE  Awaited'
  BY <1>2 DEF Awaited
<1>3. ASSUME pongs # << >>, pongs' = Tail(pongs), sidCounter' = sidCounter,
             \A s \in Sids : sub'[s].draining = sub[s].draining
      PROVE  Awaited'
  BY <1>3, TailIs DEF Awaited
<1>4. ASSUME UNCHANGED <<sub, sidCounter>>, Len(pongs') <= Len(pongs), Len(pongs') \in Nat,
             \A i \in 1..Len(pongs') : pongs'[i] = pongs[i]
      PROVE  Awaited'
  BY <1>0, <1>4 DEF Awaited
<1>5. CASE Close
  BY <1>2, <1>5, ClosedDoes DEF Close
<1>6. CASE ReceivePong
  <2>1. pongs # << >> /\ UNCHANGED <<epoch, messages>>
    BY <1>6, ReceivePongDoes
  <2>2. CASE HandshakeDone
    BY <1>3, <2>1, <2>2 DEF HandshakeDone, subs
  <2>3. CASE Closed
    BY <1>2, <2>3, ClosedDoes
  <2>4. ASSUME NEW s \in Sids, SubscriptionDrained(s)
        PROVE  Awaited'
    BY <1>3, <2>1, <2>4, SubscriptionDrainedDoes DEF Same
  <2> QED
    BY <1>6, <2>2, <2>3, <2>4, ReceivePongDoes
<1>7. CASE FlushPending
  BY <1>0, <1>4, <1>7 DEF FlushPending, subs
<1>8. CASE ReceiveInfo
  <2>1. pongs' = Cat(<<Handshake>>, pongs) /\ UNCHANGED subs
    BY <1>8, InfoDoes
  <2>2. PICK h \in Seq(Callbacks) : h = <<Handshake>> /\ Len(h) = 1 /\ h[1] \notin Sids
    <3>1. Handshake \in Callbacks /\ Handshake \notin Sids
      BY SidsAre DEF Callbacks
    <3>2. <<Handshake>> \in Seq(Callbacks) /\ Len(<<Handshake>>) = 1
          /\ <<Handshake>>[1] = Handshake
      BY <3>1
    <3> QED
      BY <3>1, <3>2, Zenon
  <2>3. ASSUME NEW i \in 1..Len(Cat(h, pongs)), Cat(h, pongs)[i] \in Sids
        PROVE  \E j \in 1..Len(pongs) : Cat(h, pongs)[i] = pongs[j]
    <3>0. PICK q \in Seq(Callbacks) : q = pongs
      BY <1>0, Zenon
    <3>1. \A k \in 1..Len(Cat(h, q)) :
             \/ k \in 1..Len(h) /\ Cat(h, q)[k] = h[k]
             \/ \E j \in 1..Len(q) : Cat(h, q)[k] = q[j]
      BY CatHas
    <3>2. \/ i \in 1..Len(h) /\ Cat(h, q)[i] = h[i]
          \/ \E j \in 1..Len(q) : Cat(h, q)[i] = q[j]
      BY <3>0, <3>1, Zenon
    <3> QED
      BY <2>2, <2>3, <3>0, <3>2
  <2>4. UNCHANGED <<sub, sidCounter>>
    BY <2>1 DEF subs
  <2> QED
    BY <2>1, <2>2, <2>3, <2>4 DEF Awaited
<1>9. CASE Lose
  BY <1>2, <1>9 DEF Lose
<1>10. CASE Redial
  <2>1. /\ pongs' \in Seq(Callbacks) /\ Len(pongs') <= Len(pongs)
        /\ \A i \in 1..Len(pongs') : pongs'[i] = pongs[i]
        /\ UNCHANGED subs
    BY <1>10, RedialDoes
  <2> QED
    BY <1>4, <2>1 DEF subs
<1>11. CASE DialOk \/ DialFailed
  BY <1>0, <1>4, <1>11 DEF DialOk, DialFailed, subs
<1>12. CASE ServerRead
  BY <1>0, <1>4, <1>12, ServerReadDoes DEF client, subs
<1>13. ASSUME NEW s \in Sids, ServerSend(s)
       PROVE  Awaited'
  BY <1>0, <1>4, <1>13 DEF ServerSend, client, subs
<1>14. CASE UNCHANGED vars
  BY <1>0, <1>4, <1>14 DEF vars, client, subs
<1> QED
  BY <1>1, <1>5, <1>6, <1>7, <1>8, <1>9, <1>10, <1>11, <1>12, <1>13, <1>14, StepsAre

\* The counts of Matched.
LEMMA MatchedTypes ==
    ASSUME TypesInv
    PROVE  /\ pongs \in Seq(Callbacks) /\ Len(pongs) \in Nat
           /\ toClient \in Seq(Replies) /\ Count(toClient, Pong) \in Nat
           /\ Line \in Seq(Commands) /\ Count(Line, PingCmd) \in Nat
<1>1. pongs \in Seq(Callbacks) /\ toClient \in Seq(Replies)
  BY DEF TypesInv, WireTypes
<1>2. Line \in Seq(Commands)
  BY IssuedIs
<1>3. Count(toClient, Pong) \in Nat
  BY <1>1, CountType
<1>4. Count(Line, PingCmd) \in Nat
  BY <1>2, CountType
<1> QED
  BY <1>1, <1>2, <1>3, <1>4

\* What reading a reply leaves.
LEMMA PongRead ==
    ASSUME TypesInv, toClient # << >>
    PROVE  /\ Count(toClient, Pong) = (IF Head(toClient) = Pong THEN 1 ELSE 0)
                                        + Count(Tail(toClient), Pong)
           /\ Tail(toClient) \in Seq(Replies) /\ Count(Tail(toClient), Pong) \in Nat
<1>1. Tail(toClient) \in Seq(Replies)
  BY TailsAre
<1>2. PICK q \in Seq(Replies) : q = toClient
  BY MatchedTypes, Zenon
<1>3. Count(q, Pong) = (IF Head(q) = Pong THEN 1 ELSE 0) + Count(Tail(q), Pong)
  BY <1>2, CountTail
<1>4. Count(Tail(toClient), Pong) \in Nat
  BY <1>1, CountType
<1> QED
  BY <1>1, <1>2, <1>3, <1>4

LEMMA MatchedNext ==
    ASSUME TypesInv, Connection, Matched, [Next]_vars
    PROVE  Matched'
<1> DEFINE N == Count(toClient, Pong)
           G == Count(Line, PingCmd)
           Up == {"dialing", "tcp", "info", "ready"}
<1>0. Len(pongs) \in Nat /\ N \in Nat /\ G \in Nat
  BY MatchedTypes
<1>a. PICK n \in Nat, g \in Nat, l \in Nat :
         n = N /\ g = G /\ l = Len(pongs) /\ (conn \in Up => l = n + g)
  BY <1>0 DEF Matched
<1>b. ASSUME NEW m, N' = m, NEW h, G' = h, NEW k, Len(pongs') = k, conn' \in Up => k = m + h
      PROVE  Matched'
  BY <1>b DEF Matched
<1>c. ASSUME conn' \notin Up
      PROVE  Matched'
  BY <1>c DEF Matched
<1> HIDE DEF N, G, Up
<1>1. CASE Speaking
  <2>1. PICK w, O : Adds(w, O)
    BY <1>1, SpeakingAdds
  <2>2. /\ w \in Seq(Commands) /\ Spoken(w) /\ conn' = conn /\ O \in Seq(Callbacks)
        /\ pongs' = Cat(pongs, O) /\ Count(w, PingCmd) = Len(O)
    BY <2>1 DEF Adds, Spoken, Quiet
  <2>3. Line' = Cat(Line, w) /\ Line \in Seq(Commands)
    BY <2>2, IssuedSpoken
  <2>4. Count(Cat(Line, w), PingCmd) = Count(Line, PingCmd) + Count(w, PingCmd)
    BY <2>2, <2>3, CountCat
  <2>5. G' = G + Len(O)
    BY <2>2, <2>3, <2>4 DEF G
  <2>6. Len(pongs') = Len(pongs) + Len(O) /\ Len(O) \in Nat
    BY <2>2, MatchedTypes, CatSeq
  <2>7. N' = N
    <3>1. CASE toClient' = toClient
      BY <3>1 DEF N
    <3>2. CASE toClient # << >> /\ toClient' = Tail(toClient) /\ \E s \in Sids : Head(toClient) = Msg(s)
      <4>1. Head(toClient) # Pong
        BY <3>2, TailsAre
      <4> QED
        BY <3>2, <4>1, PongRead DEF N
    <3> QED
      BY <1>1, <3>1, <3>2, SpeakingAdds
  <2>8. PICK o \in Nat : o = Len(O)
    BY <2>6
  <2>9. N' = n /\ G' = g + o /\ Len(pongs') = l + o
    BY <1>a, <2>5, <2>6, <2>7, <2>8
  <2>10. conn' \in Up => l + o = n + (g + o)
    <3>1. conn' \in Up => l = n + g
      BY <1>a, <2>2
    <3> QED
      BY <3>1
  <2> QED
    BY <1>b, <2>9, <2>10
<1>2. ASSUME UNCHANGED <<pongs, toClient>>, Line' = Line, conn' \in Up => conn \in Up
      PROVE  Matched'
  <2>1. N' = N /\ G' = G /\ Len(pongs') = Len(pongs)
    BY <1>2 DEF N, G
  <2>2. N' = n /\ G' = g /\ Len(pongs') = l /\ (conn' \in Up => l = n + g)
    BY <1>a, <1>2, <2>1
  <2> QED
    BY <1>b, <2>2
<1>3. CASE Close
  BY <1>3, <1>c, ClosedDoes DEF Close, Up
<1>4. CASE ReceivePong
  <2>1. /\ toClient # << >> /\ Head(toClient) = Pong /\ pongs # << >>
        /\ UNCHANGED <<epoch, messages>>
    BY <1>4, ReceivePongDoes
  <2>2. conn \in Up
    BY <2>1 DEF Connection, TypesInv, OtherTypes, Up
  <2>3. ASSUME toClient' = Tail(toClient), pongs' = Tail(pongs), G' = G
        PROVE  Matched'
    <3>1. N = 1 + N' /\ N' \in Nat
      BY <2>1, <2>3, PongRead DEF N
    <3>2. Len(pongs') = Len(pongs) - 1
      BY <2>1, <2>3, TailIs
    <3>3. PICK m \in Nat : m = N' /\ n = 1 + m
      BY <1>a, <3>1
    <3>4. G' = g /\ Len(pongs') = l - 1 /\ l = n + g
      BY <1>a, <2>2, <2>3, <3>2
    <3>5. l - 1 = m + g
      BY <3>3, <3>4
    <3> QED
      BY <1>b, <3>3, <3>4, <3>5
  <2>4. CASE HandshakeDone
    <3>1. Count(Line', PingCmd) = Count(Line, PingCmd)
      BY <2>4, HandshakeDoes
    <3>2. pongs' = Tail(pongs) /\ toClient' = Tail(toClient)
      BY <2>4 DEF HandshakeDone
    <3> QED
      BY <2>3, <3>1, <3>2 DEF G
  <2>5. CASE Closed
    BY <1>c, <2>5, ClosedDoes DEF Up
  <2>6. ASSUME NEW s \in Sids, SubscriptionDrained(s)
        PROVE  Matched'
    <3>1. Spoken(<< >>) /\ pongs' = Tail(pongs) /\ toClient' = Tail(toClient)
      BY <2>1, <2>6, SubscriptionDrainedDoes
    <3>2. Line' = Cat(Line, << >>) /\ Line \in Seq(Commands)
      BY <3>1, IssuedSpoken
    <3>3. Line' = Line
      BY <3>2, CatNil
    <3> QED
      BY <2>3, <3>1, <3>3 DEF G
  <2> QED
    BY <1>4, <2>4, <2>5, <2>6, ReceivePongDoes
<1>5. CASE FlushPending
  <2>1. UNCHANGED <<conn, pongs, toClient>> /\ (conn # "down" => Line' = Line)
    BY <1>5, FlushDoes
  <2>2. CASE conn = "down"
    BY <1>c, <2>1, <2>2 DEF Up
  <2> QED
    BY <1>2, <2>1, <2>2
<1>6. CASE ReceiveInfo
  <2>1. /\ Count(Line', PingCmd) = Count(Line, PingCmd) + 1 /\ pongs' = Cat(<<Handshake>>, pongs)
        /\ conn = "tcp" /\ toClient' = toClient
    BY <1>6, InfoDoes
  <2>2. PICK h \in Seq(Callbacks) : h = <<Handshake>> /\ Len(h) = 1
    <3>1. Handshake \in Callbacks
      BY DEF Callbacks
    <3>2. <<Handshake>> \in Seq(Callbacks) /\ Len(<<Handshake>>) = 1
      BY <3>1
    <3> QED
      BY <3>2, Zenon
  <2>3. Len(pongs') = 1 + Len(pongs)
    BY <2>1, <2>2, MatchedTypes, CatSeq
  <2>4. N' = N /\ G' = G + 1 /\ conn \in Up
    BY <2>1 DEF N, G, Up
  <2>5. N' = n /\ G' = g + 1 /\ Len(pongs') = 1 + l /\ l = n + g
    BY <1>a, <2>3, <2>4
  <2>6. 1 + l = n + (g + 1)
    BY <2>5
  <2> QED
    BY <1>b, <2>5, <2>6
<1>7. CASE Lose
  BY <1>7, <1>c DEF Lose, Up
<1>8. CASE Redial
  <2>1. /\ outbound' \in Seq({PingCmd}) /\ outbound' \in Seq(Commands)
        /\ Len(outbound') = Len(pongs') /\ conn = "down" /\ UNCHANGED server
        /\ pongs' \in Seq(Callbacks)
    BY <1>8, RedialDoes
  <2>2. toServer' = << >> /\ toClient' = << >>
    BY <2>1 DEF Connection, server
  <2>3. Line' = outbound'
    <3>1. Cat(<< >>, outbound') = outbound'
      BY <2>1, CatNil
    <3> QED
      BY <2>2, <3>1 DEF Line
  <2>4. Count(outbound', PingCmd) = Len(outbound')
    BY <2>1, CountAll
  <2>5. N' = 0
    BY <2>2, CountNil DEF N
  <2>6. G' = Len(pongs') /\ Len(pongs') \in Nat
    BY <2>1, <2>3, <2>4 DEF G
  <2> QED
    BY <1>b, <2>5, <2>6
<1>9. CASE DialOk \/ DialFailed
  BY <1>2, <1>9 DEF DialOk, DialFailed, server, Line, Up
<1>10. CASE ServerRead
  <2>1. /\ Line # << >> /\ Head(Line) = Head(toServer) /\ Line' = Tail(Line)
        /\ Line \in Seq(Commands)
    BY <1>10, ReadDoes, IssuedIs
  <2>2. pongs' = pongs /\ conn' = conn
    BY <1>10, ServerReadDoes DEF client
  <2>3. PICK q \in Seq(Commands) : q = Line
    BY <2>1, Zenon
  <2>4. Count(q, PingCmd) = (IF Head(q) = PingCmd THEN 1 ELSE 0) + Count(Tail(q), PingCmd)
    BY <2>1, <2>3, CountTail
  <2>5. Tail(q) \in Seq(Commands)
    BY <2>1, <2>3
  <2>6. Count(Tail(q), PingCmd) \in Nat
    BY <2>5, CountType
  <2>7. G = (IF Head(toServer) = PingCmd THEN 1 ELSE 0) + G' /\ G' \in Nat
    BY <2>1, <2>3, <2>4, <2>6 DEF G
  <2>g. PICK h \in Nat : h = G' /\ g = (IF Head(toServer) = PingCmd THEN 1 ELSE 0) + h
    BY <1>a, <2>7
  <2>l. Len(pongs') = l /\ (conn' \in Up => l = n + g)
    BY <1>a, <2>2
  <2>8. CASE Head(toServer) = PingCmd /\ ServerPing
    <3>1. PICK r \in Seq(Replies), z \in Replies : r = toClient /\ z = Pong
      BY MatchedTypes DEF Replies
    <3>2. Count(Append(r, z), Pong) = IF z = Pong THEN Count(r, Pong) + 1 ELSE Count(r, Pong)
      BY CountAppend
    <3>3. N' = N + 1
      BY <2>8, <3>1, <3>2 DEF N, ServerPing
    <3>4. N' = n + 1 /\ g = 1 + h
      BY <1>a, <2>g, <2>8, <3>3
    <3>5. conn' \in Up => l = (n + 1) + h
      BY <2>l, <3>4
    <3> QED
      BY <1>b, <2>g, <2>l, <3>4, <3>5
  <2>9. CASE Head(toServer) # PingCmd /\ toClient' = toClient
    <3>1. N' = N
      BY <2>9 DEF N
    <3>2. g = h
      <4>1. (IF Head(toServer) = PingCmd THEN 1 ELSE 0) = 0
        BY <2>9
      <4>2. g = 0 + h
        BY <2>g, <4>1, Zenon
      <4> QED
        BY <4>2
    <3>3. N' = n
      BY <1>a, <3>1
    <3> QED
      BY <1>b, <2>g, <2>l, <3>2, <3>3
  <2>10. ASSUME NEW s \in Sids, Head(toServer) = SubCmd(s), ServerSub(s)
         PROVE  Head(toServer) # PingCmd /\ toClient' = toClient
    BY <2>10, CommandsAre DEF ServerSub
  <2>11. ASSUME NEW s \in Sids, NEW max \in 0..MaxLimit, Head(toServer) = UnsubCmd(s, max), ServerUnsub(s, max)
         PROVE  Head(toServer) # PingCmd /\ toClient' = toClient
    BY <2>11, CommandsAre DEF ServerUnsub
  <2> QED
    BY <1>10, <2>8, <2>9, <2>10, <2>11, ServerReadDoes
<1>11. ASSUME NEW s \in Sids, ServerSend(s)
       PROVE  Matched'
  <2>1. /\ toClient' = Append(toClient, Msg(s)) /\ UNCHANGED <<pongs, conn, Line>>
    BY <1>11 DEF ServerSend, client, Line
  <2>2. PICK r \in Seq(Replies), z \in Replies : r = toClient /\ z = Msg(s) /\ z # Pong
    BY MatchedTypes, TailsAre DEF Replies
  <2>3. Count(Append(r, z), Pong) = IF z = Pong THEN Count(r, Pong) + 1 ELSE Count(r, Pong)
    BY CountAppend
  <2>4. N' = N /\ G' = G
    BY <2>1, <2>2, <2>3 DEF N, G
  <2>5. N' = n /\ G' = g /\ Len(pongs') = l /\ (conn' \in Up => l = n + g)
    BY <1>a, <2>1, <2>4
  <2> QED
    BY <1>b, <2>5
<1>12. CASE UNCHANGED vars
  BY <1>2, <1>12 DEF vars, client, server, Line
<1> QED
  BY <1>1, <1>3, <1>4, <1>5, <1>6, <1>7, <1>8, <1>9, <1>10, <1>11, <1>12, StepsAre

-----------------------------------------------------------------------------
(* What is flushed                                                          *)

LEMMA MutedSpoken ==
    ASSUME TypesInv, NEW s \in Sids, Muted(s), NEW w, Spoken(w), SubCmd(s) \notin ToSet(w)
    PROVE  Muted(s)'
<1>1. Issued' = Issued \cup ToSet(w) /\ serverSubs' = serverSubs
  BY IssuedSpoken DEF Spoken, Quiet
<1> QED
  BY <1>1 DEF Muted

\* The PING of a drain is still to be read; what is queued comes behind it.
LEMMA ComingMore ==
    ASSUME TypesInv, NEW s \in Sids, NEW n \in Nat, Coming(s, n), NEW w, Spoken(w),
           SubCmd(s) \notin ToSet(w)
    PROVE  Coming(s, n + Count(w, PingCmd))'
<1>1. PICK p \in Seq(Commands), r \in Seq(Commands) :
         /\ Split(Line, p, PingCmd, r) /\ Count(r, PingCmd) = n
         /\ \/ Muted(s)
            \/ \E a, b \in Seq(Commands) :
                  Split(p, a, UnsubCmd(s, Unlimited), b) /\ SubCmd(s) \notin ToSet(b) \cup ToSet(r)
  BY DEF Coming
<1>2. Line' = Cat(Line, w) /\ w \in Seq(Commands) /\ PingCmd \in Commands
  BY IssuedSpoken, CommandsAre DEF Spoken
<1>3. Split(Cat(Line, w), p, PingCmd, Cat(r, w)) /\ Cat(r, w) \in Seq(Commands)
  BY <1>1, <1>2, SplitMore
<1>4. Count(Cat(r, w), PingCmd) = n + Count(w, PingCmd)
  BY <1>1, <1>2, CountCat
<1>5. ToSet(Cat(r, w)) = ToSet(r) \cup ToSet(w)
  BY <1>2, InConcat DEF Cat
<1>6. CASE Muted(s)
  <2>1. Muted(s)'
    BY <1>6, MutedSpoken
  <2> QED
    BY <1>1, <1>2, <1>3, <1>4, <2>1 DEF Coming
<1>7. ASSUME NEW a \in Seq(Commands), NEW b \in Seq(Commands),
             Split(p, a, UnsubCmd(s, Unlimited), b), SubCmd(s) \notin ToSet(b) \cup ToSet(r)
      PROVE  Coming(s, n + Count(w, PingCmd))'
  <2>1. SubCmd(s) \notin ToSet(b) \cup ToSet(Cat(r, w))
    BY <1>5, <1>7
  <2> QED
    BY <1>1, <1>2, <1>3, <1>4, <1>7, <2>1 DEF Coming
<1> QED
  BY <1>1, <1>6, <1>7

\* The PING of a drain that begins is read after its UNSUB.
LEMMA ComingNew ==
    ASSUME TypesInv, NEW w, NEW O, Adds(w, O), NEW j \in 1..Len(O), NEW s \in Sids, O[j] = s,
           NEW n \in Nat, Len(O) = n + j
    PROVE  Coming(s, n)'
<1>0. PICK m \in Nat : m = Len(O)
  BY DEF Adds
<1>1. PICK p \in Seq(Commands), r \in Seq(Commands) :
         /\ Split(w, p, PingCmd, r) /\ Count(r, PingCmd) = m - j
         /\ UnsubCmd(s, Unlimited) \in ToSet(p)
  BY <1>0 DEF Adds
<1>2. (\A t \in Sids : SubCmd(t) \notin ToSet(w)) /\ Spoken(w) /\ w \in Seq(Commands)
  BY DEF Adds, Spoken
<1>3. PICK l \in Seq(Commands) : l = Line /\ Line' = Cat(l, w)
  BY <1>2, IssuedSpoken
<1>4. PICK g \in Commands, u \in Commands : g = PingCmd /\ u = UnsubCmd(s, Unlimited)
  BY CommandsAre, SubscriptionsAssumption DEF Unlimited
<1>5. ToSet(w) = (ToSet(p) \cup {g}) \cup ToSet(r)
  BY <1>1, <1>4, SplitElements
<1>6. Split(Cat(l, w), Cat(l, p), g, r) /\ Cat(l, p) \in Seq(Commands)
  BY <1>1, <1>2, <1>4, SplitBefore
<1>7. PICK a \in Seq(Commands), b \in Seq(Commands) : Split(p, a, u, b)
  BY <1>1, <1>4, SplitFound
<1>8. Split(Cat(l, p), Cat(l, a), u, b) /\ Cat(l, a) \in Seq(Commands)
  BY <1>7, SplitBefore
<1>9. ToSet(p) = (ToSet(a) \cup {u}) \cup ToSet(b)
  BY <1>7, SplitElements
<1>10. SubCmd(s) \notin ToSet(b) \cup ToSet(r)
  BY <1>2, <1>5, <1>9
<1>11. Count(r, PingCmd) = n
  <2>1. m - j = n
    BY <1>0
  <2> QED
    BY <1>1, <2>1
<1>12. Split(Line', Cat(l, p), PingCmd, r)
       /\ Split(Cat(l, p), Cat(l, a), UnsubCmd(s, Unlimited), b)
  BY <1>3, <1>4, <1>6, <1>8
<1> QED
  BY <1>6, <1>7, <1>8, <1>10, <1>11, <1>12, Zenon DEF Coming

\* The PONG of a drain is on its way to the client, which reads a reply.
LEMMA ComeTail ==
    ASSUME TypesInv, NEW s \in Sids, NEW n \in Nat, Come(s, n)
    PROVE  /\ toClient # << >> /\ Muted(s)
           /\ \/ /\ Head(toClient) = Pong /\ Msg(s) \notin ToSet(Tail(toClient))
                 /\ Count(toClient, Pong) + Count(Line, PingCmd) = n + 1
              \/ \E p, r \in Seq(Replies) :
                    /\ Split(Tail(toClient), p, Pong, r)
                    /\ Count(r, Pong) + Count(Line, PingCmd) = n /\ Msg(s) \notin ToSet(r)
<1>1. PICK p \in Seq(Replies), r \in Seq(Replies) :
         /\ Split(toClient, p, Pong, r) /\ Count(r, Pong) + Count(Line, PingCmd) = n
         /\ Muted(s) /\ Msg(s) \notin ToSet(r)
  BY DEF Come
<1>2. Pong \in Replies
  BY DEF Replies
<1>3. /\ toClient # << >>
      /\ \/ p = << >> /\ Head(toClient) = Pong /\ Tail(toClient) = r
         \/ p # << >> /\ Tail(p) \in Seq(Replies) /\ Split(Tail(toClient), Tail(p), Pong, r)
  BY <1>1, <1>2, SplitTail
<1>4. CASE p = << >> /\ Head(toClient) = Pong /\ Tail(toClient) = r
  <2>1. Count(toClient, Pong) = 1 + Count(r, Pong)
    BY <1>3, <1>4, PongRead
  <2>2. Count(r, Pong) \in Nat
    BY CountType
  <2>3. Count(Line, PingCmd) \in Nat
    BY MatchedTypes
  <2>4. Count(toClient, Pong) + Count(Line, PingCmd) = n + 1
    <3>1. PICK i \in Nat, g \in Nat :
             i = Count(r, Pong) /\ g = Count(Line, PingCmd) /\ i + g = n
      BY <1>1, <2>2, <2>3
    <3>2. (1 + i) + g = (i + g) + 1
      OBVIOUS
    <3>3. (1 + i) + g = n + 1
      BY <3>1, <3>2, Zenon
    <3> QED
      BY <2>1, <3>1, <3>3, Zenon
  <2> QED
    BY <1>1, <1>3, <1>4, <2>4
<1> QED
  BY <1>1, <1>3, <1>4

\* It stays in front of what the client is sent; what is queued comes behind.
LEMMA ComeMore ==
    ASSUME TypesInv, NEW s \in Sids, NEW n \in Nat, Come(s, n), NEW w, Spoken(w),
           SubCmd(s) \notin ToSet(w),
           \/ toClient' = toClient
           \/ /\ toClient # << >> /\ toClient' = Tail(toClient)
              /\ \E t \in Sids : Head(toClient) = Msg(t)
    PROVE  Come(s, n + Count(w, PingCmd))'
<1>1. Muted(s)'
  BY MutedSpoken DEF Come
<1>2. Line' = Cat(Line, w) /\ w \in Seq(Commands) /\ Line \in Seq(Commands)
  BY IssuedSpoken DEF Spoken
<1>3. Count(Line', PingCmd) = Count(Line, PingCmd) + Count(w, PingCmd)
  BY <1>2, CountCat
<1>4. PICK p \in Seq(Replies), r \in Seq(Replies) :
         /\ Split(toClient', p, Pong, r) /\ Count(r, Pong) + Count(Line, PingCmd) = n
         /\ Msg(s) \notin ToSet(r)
  <2>1. CASE toClient' = toClient
    BY <2>1 DEF Come
  <2>2. CASE /\ toClient # << >> /\ toClient' = Tail(toClient)
             /\ \E t \in Sids : Head(toClient) = Msg(t)
    <3>1. Head(toClient) # Pong
      BY <2>2, TailsAre
    <3> QED
      BY <2>2, <3>1, ComeTail
  <2> QED
    BY <2>1, <2>2
<1>5. Count(r, Pong) + Count(Line', PingCmd) = n + Count(w, PingCmd)
  <2>1. PICK i \in Nat, g \in Nat, h \in Nat :
           i = Count(r, Pong) /\ g = Count(Line, PingCmd) /\ h = Count(w, PingCmd)
    <3>1. Count(r, Pong) \in Nat
      BY CountType
    <3>2. Count(w, PingCmd) \in Nat
      BY <1>2, CountType
    <3> QED
      BY <3>1, <3>2, MatchedTypes
  <2>2. i + (g + h) = n + h
    BY <1>4, <2>1
  <2> QED
    BY <1>3, <2>1, <2>2
<1> QED
  BY <1>1, <1>4, <1>5 DEF Come

LEMMA FlushedSpeaking ==
    ASSUME TypesInv, Awaited, Flushed, Speaking
    PROVE  Flushed'
<1>1. PICK w, O : Adds(w, O)
  BY SpeakingAdds
<1>2. /\ StillDraining
      /\ \/ toClient' = toClient
         \/ /\ toClient # << >> /\ toClient' = Tail(toClient)
            /\ \E s \in Sids : Head(toClient) = Msg(s)
  BY SpeakingAdds
<1>3. /\ Spoken(w) /\ O \in Seq(Callbacks) /\ pongs' = Cat(pongs, O)
      /\ Count(w, PingCmd) = Len(O) /\ conn' = conn /\ epoch' = epoch
      /\ \A s \in Sids : s <= sidCounter => SubCmd(s) \notin ToSet(w)
  BY <1>1 DEF Adds, Spoken, Quiet
<1>4. PICK q \in Seq(Callbacks), l \in Nat, o \in Nat : q = pongs /\ l = Len(pongs) /\ o = Len(O)
  BY <1>3, MatchedTypes
<1>5. pongs' = Cat(q, O) /\ Len(q) = l /\ Len(Cat(q, O)) = l + o
  BY <1>3, <1>4, CatSeq
<1>6. ASSUME conn = "ready", NEW k \in 1..Len(Cat(q, O)), NEW s \in Sids, NEW n \in Nat,
             Cat(q, O)[k] = s, Len(Cat(q, O)) = n + k, drainedOn'[s] = epoch
      PROVE  Coming(s, n)' \/ Come(s, n)'
  <2>0. PICK i \in Nat : i = k /\ l + o = n + i
    BY <1>4, <1>5, <1>6
  <2>1. CASE k \in 1..Len(q) /\ Cat(q, O)[k] = q[k]
    <3>1. pongs[k] = s /\ k \in 1..Len(pongs)
      BY <1>4, <1>6, <2>1
    <3>2. s <= sidCounter /\ sub[s].draining
      BY <3>1 DEF Awaited
    <3>3. drainedOn[s] = epoch /\ SubCmd(s) \notin ToSet(w)
      BY <1>2, <1>3, <1>6, <3>2 DEF StillDraining
    <3>4. PICK m \in Nat : l = m + i
      <4>1. i <= l
        BY <1>4, <2>0, <3>1
      <4>2. l - i \in Nat /\ l = (l - i) + i
        BY <4>1
      <4> QED
        BY <4>2, Zenon
    <3>5. n = m + Count(w, PingCmd)
      <4>1. n = m + o
        BY <2>0, <3>4
      <4> QED
        BY <1>3, <1>4, <4>1
    <3>6. Coming(s, m) \/ Come(s, m)
      <4>1. Len(pongs) = m + k
        BY <1>4, <2>0, <3>4
      <4> QED
        BY <1>6, <3>1, <3>3, <4>1 DEF Flushed
    <3>7. CASE Coming(s, m)
      <4>1. Coming(s, m + Count(w, PingCmd))'
        BY <1>3, <3>3, <3>7, ComingMore
      <4> QED
        BY <3>5, <4>1 DEF Coming
    <3>8. CASE Come(s, m)
      <4>1. Come(s, m + Count(w, PingCmd))'
        BY <1>2, <1>3, <3>3, <3>8, ComeMore
      <4> QED
        BY <3>5, <4>1 DEF Come
    <3> QED
      BY <3>6, <3>7, <3>8
  <2>2. ASSUME NEW j \in 1..Len(O), k = Len(q) + j, Cat(q, O)[k] = O[j]
        PROVE  Coming(s, n)'
    <3>1. O[j] = s
      BY <1>6, <2>2
    <3>2. Len(O) = n + j
      BY <1>4, <1>5, <2>0, <2>2
    <3> QED
      BY <1>1, <3>1, <3>2, ComingNew
  <2> HIDE DEF Cat
  <2> QED
    BY <1>3, <2>1, <2>2, CatParts
<1> QED
  BY <1>3, <1>5, <1>6 DEF Flushed

\* A step that moves nothing of the client's.
Unmoved == UNCHANGED <<pongs, conn, drainedOn, epoch>>

LEMMA FlushedKept ==
    ASSUME Flushed, Unmoved,
           conn = "ready" => \A s \in Sids, n \in Nat :
               /\ Coming(s, n) => Coming(s, n)' \/ Come(s, n)'
               /\ Come(s, n) => Come(s, n)'
    PROVE  Flushed'
<1>1. ASSUME conn = "ready", NEW k \in 1..Len(pongs), NEW s \in Sids, NEW n \in Nat,
             pongs[k] = s, Len(pongs) = n + k, drainedOn[s] = epoch
      PROVE  Coming(s, n)' \/ Come(s, n)'
  <2>1. Coming(s, n) \/ Come(s, n)
    BY <1>1 DEF Flushed
  <2> QED
    BY <1>1, <2>1
<1>2. pongs' = pongs /\ conn' = conn /\ drainedOn' = drainedOn /\ epoch' = epoch
  BY DEF Unmoved
<1> QED
  BY <1>1, <1>2 DEF Flushed

\* Nothing that the server does makes it know s again.
LEMMA MutedServer ==
    ASSUME TypesInv, NEW s \in Sids, Muted(s), ServerRead \/ \E t \in Sids : ServerSend(t)
    PROVE  Muted(s)'
<1>1. s \notin serverSubs /\ SubCmd(s) \notin Issued
  BY DEF Muted
<1>2. ASSUME NEW t \in Sids, ServerSend(t)
      PROVE  Muted(s)'
  <2>1. UNCHANGED <<toServer, outbound>> /\ s \notin serverSubs'
    BY <1>1, <1>2 DEF ServerSend, client
  <2>2. Issued' = Issued
    BY <2>1 DEF Issued
  <2> QED
    BY <1>1, <2>1, <2>2 DEF Muted
<1>3. CASE ServerRead
  <2>1. Issued' \subseteq Issued /\ Head(toServer) \in Issued
    BY <1>3, ReadDoes
  <2>2. s \notin serverSubs'
    <3>1. ASSUME NEW t \in Sids, Head(toServer) = SubCmd(t), ServerSub(t)
          PROVE  s \notin serverSubs'
      BY <1>1, <2>1, <3>1 DEF ServerSub
    <3>2. ASSUME NEW t \in Sids, NEW max \in 0..MaxLimit, ServerUnsub(t, max)
          PROVE  s \notin serverSubs'
      BY <1>1, <3>2 DEF ServerUnsub
    <3>3. CASE ServerPing
      BY <1>1, <3>3 DEF ServerPing
    <3> QED
      BY <1>3, <3>1, <3>2, <3>3, ServerReadDoes
  <2> QED
    BY <1>1, <2>1, <2>2 DEF Muted
<1> QED
  BY <1>2, <1>3

LEMMA IssuedAre == TypesInv => Issued = ToSet(Line)
BY IssuedIs

LEMMA IssuedPrimed == TypesInv' => (Issued = ToSet(Line))'
BY IssuedAre, PTL

\* The server reads: the PING of a drain, its UNSUB, or what is before them.
LEMMA ComingRead ==
    ASSUME TypesInv, ServerRead, NEW s \in Sids, NEW n \in Nat, Coming(s, n)
    PROVE  Coming(s, n)' \/ Come(s, n)'
<1>1. PICK p \in Seq(Commands), r \in Seq(Commands) :
         /\ Split(Line, p, PingCmd, r) /\ Count(r, PingCmd) = n
         /\ \/ Muted(s)
            \/ \E a, b \in Seq(Commands) :
                  Split(p, a, UnsubCmd(s, Unlimited), b) /\ SubCmd(s) \notin ToSet(b) \cup ToSet(r)
  BY DEF Coming
<1>2. PICK g \in Commands, u \in Commands : g = PingCmd /\ u = UnsubCmd(s, Unlimited)
  BY CommandsAre, SubscriptionsAssumption DEF Unlimited
<1>3. Line' = Tail(Line) /\ Head(Line) = Head(toServer)
  BY ReadDoes
<1>4. \/ p = << >> /\ Head(Line) = g /\ Tail(Line) = r
      \/ /\ p # << >> /\ Head(Line) = Head(p) /\ Tail(p) \in Seq(Commands)
         /\ Split(Tail(Line), Tail(p), g, r)
  BY <1>1, <1>2, SplitTail
<1>5. ASSUME NEW a \in Seq(Commands), NEW b \in Seq(Commands), Split(p, a, u, b)
      PROVE  /\ p # << >>
             /\ \/ a = << >> /\ Head(p) = u /\ Tail(p) = b
                \/ a # << >> /\ Tail(a) \in Seq(Commands) /\ Split(Tail(p), Tail(a), u, b)
  BY <1>5, SplitTail
<1>6. CASE Muted(s)
  <2>1. Muted(s)'
    BY <1>6, MutedServer
  <2>2. CASE p = << >> /\ Head(Line) = g /\ Tail(Line) = r
    <3>1. ServerPing
      <4>1. \A t \in Sids : g # SubCmd(t)
        BY <1>2, CommandsAre
      <4>2. \A t \in Sids, max \in 0..MaxLimit : g # UnsubCmd(t, max)
        BY <1>2, CommandsAre
      <4> QED
        BY <1>2, <1>3, <2>2, <4>1, <4>2, ServerReadDoes
    <3>2. PICK q \in Seq(Replies), z \in Replies :
             q = toClient /\ z = Pong /\ toClient' = Append(q, z)
      BY <3>1, MatchedTypes DEF ServerPing, Replies
    <3>3. Split(Append(q, z), q, z, << >>)
      BY SplitLast
    <3>4. PICK e \in Seq(Replies) : e = << >>
      <4>1. << >> \in Seq(Replies)
        OBVIOUS
      <4> QED
        BY <4>1, Zenon
    <3>5. Msg(s) \notin ToSet(e) /\ Count(e, Pong) = 0
      BY <3>4, NotInNone, CountNil
    <3>6. Count(e, Pong) + Count(Line', PingCmd) = n
      <4>1. Count(Line', PingCmd) = n
        BY <1>1, <1>3, <2>2
      <4>2. 0 + n = n
        OBVIOUS
      <4> QED
        BY <3>5, <4>1, <4>2, Zenon
    <3>7. Split(toClient', q, Pong, e)
      BY <3>2, <3>3, <3>4
    <3> QED
      BY <2>1, <3>5, <3>6, <3>7, Zenon DEF Come
  <2>3. CASE Tail(p) \in Seq(Commands) /\ Split(Tail(Line), Tail(p), g, r)
    <3>1. Split(Line', Tail(p), PingCmd, r)
      BY <1>2, <1>3, <2>3
    <3> QED
      BY <1>1, <2>1, <2>3, <3>1, Zenon DEF Coming
  <2> QED
    BY <1>4, <2>2, <2>3
<1>7. ASSUME NEW a \in Seq(Commands), NEW b \in Seq(Commands), Split(p, a, u, b),
             SubCmd(s) \notin ToSet(b) \cup ToSet(r)
      PROVE  Coming(s, n)'
  <2>1. /\ p # << >> /\ Head(Line) = Head(p) /\ Tail(p) \in Seq(Commands)
        /\ Split(Tail(Line), Tail(p), g, r)
    BY <1>4, <1>5, <1>7
  <2>2. PICK t \in Seq(Commands) : t = Tail(p)
    BY <2>1
  <2>3. Split(Line', t, PingCmd, r)
    BY <1>2, <1>3, <2>1, <2>2
  <2>4. CASE a # << >> /\ Tail(a) \in Seq(Commands) /\ Split(Tail(p), Tail(a), u, b)
    <3>1. Split(t, Tail(a), UnsubCmd(s, Unlimited), b)
      BY <1>2, <2>2, <2>4
    <3> QED
      BY <1>1, <1>7, <2>3, <2>4, <3>1, Zenon DEF Coming
  <2>5. CASE Head(p) = u /\ Tail(p) = b
    <3>1. Head(toServer) = u
      BY <1>3, <2>1, <2>5
    <3>2. ServerUnsub(s, Unlimited)
      <4>1. /\ u # PingCmd /\ \A x \in Sids : u # SubCmd(x)
        BY <1>2, CommandsAre, SubscriptionsAssumption DEF Unlimited
      <4>2. PICK x \in Sids, max \in 0..MaxLimit : u = UnsubCmd(x, max) /\ ServerUnsub(x, max)
        BY <3>1, <4>1, ServerReadDoes
      <4>3. x = s /\ max = Unlimited
        BY <1>2, <4>2 DEF UnsubCmd
      <4> QED
        BY <4>2, <4>3
    <3>3. s \notin serverSubs'
      BY <3>2 DEF ServerUnsub
    <3>4. ToSet(Line') = (ToSet(t) \cup {g}) \cup ToSet(r)
      <4>1. PICK k : k = Line'
        OBVIOUS
      <4>2. Split(k, t, g, r)
        BY <1>2, <2>3, <4>1, Zenon
      <4>3. ToSet(k) = (ToSet(t) \cup {g}) \cup ToSet(r)
        BY <4>2, SplitElements
      <4> QED
        BY <4>1, <4>3, Zenon
    <3>5. SubCmd(s) # g
      BY <1>2, CommandsAre
    <3>6. SubCmd(s) \notin ToSet(Line')
      BY <1>7, <2>2, <2>5, <3>4, <3>5
    <3>7. Issued' = ToSet(Line')
      <4>1. [Next]_vars
        BY DEF Next
      <4> QED
        BY <4>1, TypesNext, IssuedPrimed
    <3>8. Muted(s)'
      BY <3>3, <3>6, <3>7 DEF Muted
    <3> QED
      BY <1>1, <2>3, <3>8, Zenon DEF Coming
  <2> QED
    BY <1>5, <1>7, <2>4, <2>5
<1> QED
  BY <1>1, <1>2, <1>6, <1>7


\* The server answers a PING behind the PONG of the drain.
LEMMA ComeRead ==
    ASSUME TypesInv, ServerRead, NEW s \in Sids, NEW n \in Nat, Come(s, n)
    PROVE  Come(s, n)'
<1>1. PICK p \in Seq(Replies), r \in Seq(Replies) :
         /\ Split(toClient, p, Pong, r) /\ Count(r, Pong) + Count(Line, PingCmd) = n
         /\ Muted(s) /\ Msg(s) \notin ToSet(r)
  BY DEF Come
<1>2. Muted(s)'
  BY <1>1, MutedServer
<1>3. /\ Line' = Tail(Line) /\ Head(Line) = Head(toServer) /\ Line # << >>
      /\ Line \in Seq(Commands)
  BY ReadDoes, IssuedIs
<1>4. PICK l \in Seq(Commands) : l = Line
  BY <1>3, Zenon
<1>5. Count(l, PingCmd) = (IF Head(l) = PingCmd THEN 1 ELSE 0) + Count(Tail(l), PingCmd)
  BY <1>3, <1>4, CountTail
<1>6. Tail(l) \in Seq(Commands)
  BY <1>3, <1>4
<1>7. Count(Tail(l), PingCmd) \in Nat
  BY <1>6, CountType
<1>8. PICK g \in Nat : g = Count(Line', PingCmd)
  BY <1>3, <1>4, <1>7
<1>9. PICK i \in Nat : i = Count(r, Pong)
  <2>1. Count(r, Pong) \in Nat
    BY CountType
  <2> QED
    BY <2>1
<1>10. CASE Head(toServer) = PingCmd /\ ServerPing
  <2>1. Count(Line, PingCmd) = 1 + g
    BY <1>3, <1>4, <1>5, <1>8, <1>10
  <2>2. i + (1 + g) = n
    BY <1>1, <1>9, <2>1
  <2>3. PICK z \in Replies : z = Pong
    BY DEF Replies
  <2>4. Split(Append(toClient, z), p, Pong, Append(r, z)) /\ Append(r, z) \in Seq(Replies)
    BY <1>1, <2>3, SplitAppend
  <2>5. toClient' = Append(toClient, z)
    BY <1>10, <2>3 DEF ServerPing
  <2>6. Count(Append(r, z), Pong) = i + 1
    BY <1>9, <2>3, CountAppend
  <2>7. ToSet(Append(r, z)) = ToSet(r) \cup {z}
    BY InAppend
  <2>8. Msg(s) \notin ToSet(Append(r, z))
    BY <1>1, <2>3, <2>7, TailsAre
  <2>9. Count(Append(r, z), Pong) + Count(Line', PingCmd) = n
    <3>1. (i + 1) + g = n
      BY <2>2
    <3> QED
      BY <1>8, <2>6, <3>1
  <2>10. Split(toClient', p, Pong, Append(r, z))
    BY <2>4, <2>5
  <2> QED
    BY <1>2, <2>4, <2>8, <2>9, <2>10, Zenon DEF Come
<1>11. CASE Head(toServer) # PingCmd /\ toClient' = toClient
  <2>1. (IF Head(l) = PingCmd THEN 1 ELSE 0) = 0
    BY <1>3, <1>4, <1>11
  <2>2. Count(l, PingCmd) = 0 + Count(Tail(l), PingCmd)
    BY <1>5, <2>1, Zenon
  <2>3. Count(Line, PingCmd) = Count(Line', PingCmd)
    <3>1. 0 + g = g
      OBVIOUS
    <3> QED
      BY <1>3, <1>4, <1>8, <2>2, <3>1
  <2> QED
    BY <1>1, <1>2, <1>11, <2>3 DEF Come
<1>12. ASSUME NEW t \in Sids, Head(toServer) = SubCmd(t), ServerSub(t)
       PROVE  Head(toServer) # PingCmd /\ toClient' = toClient
  BY <1>12, CommandsAre DEF ServerSub
<1>13. ASSUME NEW t \in Sids, NEW max \in 0..MaxLimit, Head(toServer) = UnsubCmd(t, max),
              ServerUnsub(t, max)
       PROVE  Head(toServer) # PingCmd /\ toClient' = toClient
  BY <1>13, CommandsAre DEF ServerUnsub
<1> QED
  BY <1>10, <1>11, <1>12, <1>13, ServerReadDoes

\* The server sends a message for another subscription.
LEMMA ComeSend ==
    ASSUME TypesInv, NEW t \in Sids, ServerSend(t), NEW s \in Sids, NEW n \in Nat, Come(s, n)
    PROVE  Come(s, n)'
<1>1. PICK p \in Seq(Replies), r \in Seq(Replies) :
         /\ Split(toClient, p, Pong, r) /\ Count(r, Pong) + Count(Line, PingCmd) = n
         /\ Muted(s) /\ Msg(s) \notin ToSet(r)
  BY DEF Come
<1>2. Muted(s)'
  BY <1>1, MutedServer
<1>3. PICK x \in Replies, z \in Replies : x = Pong /\ z = Msg(t) /\ z # x /\ z # Msg(s)
  <2>1. t # s
    BY <1>1 DEF Muted, ServerSend
  <2>2. Msg(t) \in Replies /\ Pong \in Replies /\ Msg(t) # Pong
    BY TailsAre DEF Replies
  <2>3. Msg(t) # Msg(s)
    BY <2>1 DEF Msg
  <2> QED
    BY <2>2, <2>3
<1>4. PICK q \in Seq(Replies) : q = toClient /\ toClient' = Append(q, z)
  BY <1>3, MatchedTypes DEF ServerSend
<1>5. Split(Append(q, z), p, x, Append(r, z)) /\ Append(r, z) \in Seq(Replies)
  BY <1>1, <1>3, <1>4, SplitAppend
<1>6. Count(Append(r, z), x) = Count(r, x)
  BY <1>3, CountAppend
<1>7. ToSet(Append(r, z)) = ToSet(r) \cup {z}
  BY InAppend
<1>8. Msg(s) \notin ToSet(Append(r, z))
  BY <1>1, <1>3, <1>7
<1>9. Line' = Line
  BY DEF ServerSend, client, Line
<1>10. /\ Split(toClient', p, Pong, Append(r, z))
       /\ Count(Append(r, z), Pong) + Count(Line', PingCmd) = n
  BY <1>1, <1>3, <1>4, <1>5, <1>6, <1>9
<1> QED
  BY <1>2, <1>5, <1>8, <1>10, Zenon DEF Come

LEMMA FlushedNext ==
    ASSUME TypesInv, Connection, Greeting, OnThis, Matched, Awaited, Flushed, [Next]_vars
    PROVE  Flushed'
<1>1. ASSUME conn' # "ready"
      PROVE  Flushed'
  BY <1>1 DEF Flushed
<1>2. ASSUME Unmoved, UNCHANGED <<toClient, serverSubs>>,
             conn = "ready" => Line' = Line /\ Issued' = Issued
      PROVE  Flushed'
  <2>1. ASSUME conn = "ready", NEW s \in Sids, NEW n \in Nat
        PROVE  (Coming(s, n) => Coming(s, n)') /\ (Come(s, n) => Come(s, n)')
    <3>1. Line' = Line /\ Issued' = Issued /\ toClient' = toClient /\ serverSubs' = serverSubs
      BY <1>2, <2>1
    <3> QED
      BY <3>1, Zenon DEF Coming, Come, Muted
  <2> QED
    BY <1>2, <2>1, FlushedKept
<1>3. CASE Speaking
  BY <1>3, FlushedSpeaking
<1>4. CASE Close
  BY <1>1, <1>4, ClosedDoes DEF Close
<1>5. CASE ReceivePong
  <2>1. /\ toClient # << >> /\ Head(toClient) = Pong /\ pongs # << >>
        /\ UNCHANGED <<epoch, messages, drainedOn>>
    BY <1>5, ReceivePongDoes
  <2>2. CASE Closed
    BY <1>1, <2>2, ClosedDoes
  <2>3. CASE Head(pongs) = Handshake /\ HandshakeDone
    <3>1. Handshake \in ToSet(pongs)
      BY <2>1, <2>3, MatchedTypes, HeadTail
    <3>2. \A s \in Sids : drainedOn[s] < epoch
      BY <3>1 DEF Greeting, OnThis
    <3>3. \A s \in Sids : drainedOn[s] # epoch
      <4>1. epoch \in Int /\ \A s \in Sids : drainedOn[s] \in Int
        BY SubscriptionsAssumption DEF TypesInv, OtherTypes
      <4> QED
        BY <3>2, <4>1
    <3>4. \A s \in Sids : drainedOn'[s] # epoch'
      BY <2>1, <3>3
    <3> QED
      BY <3>4 DEF Flushed
  <2>4. ASSUME NEW t \in Sids, SubscriptionDrained(t)
        PROVE  Flushed'
    <3>1. Spoken(<< >>) /\ pongs' = Tail(pongs) /\ toClient' = Tail(toClient)
      BY <2>1, <2>4, SubscriptionDrainedDoes
    <3>2. Line' = Line /\ conn' = conn
      <4>1. Line' = Cat(Line, << >>) /\ Line \in Seq(Commands)
        BY <3>1, IssuedSpoken
      <4> QED
        BY <3>1, <4>1, CatNil DEF Spoken, Quiet
    <3>3. ASSUME NEW s \in Sids
          PROVE  SubCmd(s) \notin ToSet(<< >>)
      BY NotInNone
    <3>4. ASSUME conn = "ready", NEW k \in 1..Len(Tail(pongs)), NEW s \in Sids, NEW n \in Nat,
                 Tail(pongs)[k] = s, Len(Tail(pongs)) = n + k, drainedOn[s] = epoch
          PROVE  Coming(s, n)' \/ Come(s, n)'
      <4>1. /\ Len(pongs) \in Nat /\ Len(Tail(pongs)) = Len(pongs) - 1
            /\ k + 1 \in 1..Len(pongs) /\ pongs[k + 1] = s
        BY <2>1, <3>4, TailIs
      <4>2. PICK i \in Nat : i = k /\ i >= 1
        BY <2>1, TailIs
      <4>3. Len(pongs) = n + (i + 1)
        BY <3>4, <4>1, <4>2
      <4>4. Coming(s, n) \/ Come(s, n)
        BY <3>4, <4>1, <4>2, <4>3 DEF Flushed
      <4>5. CASE Coming(s, n)
        <5>1. Coming(s, n + Count(<< >>, PingCmd))'
          BY <3>1, <3>3, <4>5, ComingMore
        <5>2. n = n + Count(<< >>, PingCmd)
          BY CountNil
        <5> QED
          BY <5>1, <5>2 DEF Coming
      <4>6. CASE Come(s, n)
        <5>1. Muted(s)'
          BY <3>1, <3>3, <4>6, ComeTail, MutedSpoken
        <5>2. ~(Count(toClient, Pong) + Count(Line, PingCmd) = n + 1)
          <6>1. Len(pongs) = Count(toClient, Pong) + Count(Line, PingCmd)
            BY <3>4 DEF Matched
          <6>2. ~(n + (i + 1) = n + 1)
            BY <4>2
          <6> QED
            BY <4>3, <6>1, <6>2
        <5>3. PICK p \in Seq(Replies), r \in Seq(Replies) :
                 /\ Split(Tail(toClient), p, Pong, r)
                 /\ Count(r, Pong) + Count(Line, PingCmd) = n /\ Msg(s) \notin ToSet(r)
          BY <4>6, <5>2, ComeTail
        <5> QED
          BY <3>1, <3>2, <5>1, <5>3 DEF Come
      <4> QED
        BY <4>4, <4>5, <4>6
    <3> QED
      BY <2>1, <3>1, <3>2, <3>4 DEF Flushed
  <2> QED
    BY <1>5, <2>2, <2>3, <2>4, ReceivePongDoes
<1>6. CASE FlushPending
  <2>1. /\ UNCHANGED <<conn, pongs, toClient, serverSubs, history>>
        /\ conn # "down" => Issued' = Issued /\ Line' = Line
    BY <1>6, FlushDoes
  <2> QED
    BY <1>2, <2>1 DEF history, Unmoved
<1>7. CASE ReceiveInfo \/ Lose \/ Redial \/ DialOk \/ DialFailed
  BY <1>1, <1>7 DEF ReceiveInfo, Lose, Redial, DialOk, DialFailed
<1>8. CASE ServerRead
  <2>1. Unmoved
    BY <1>8, ServerReadDoes DEF client, Unmoved
  <2>2. ASSUME NEW s \in Sids, NEW n \in Nat
        PROVE  (Coming(s, n) => Coming(s, n)' \/ Come(s, n)') /\ (Come(s, n) => Come(s, n)')
    BY <1>8, ComingRead, ComeRead
  <2> QED
    BY <2>1, <2>2, FlushedKept
<1>9. ASSUME NEW t \in Sids, ServerSend(t)
      PROVE  Flushed'
  <2>1. Unmoved /\ UNCHANGED <<toServer, outbound>>
    BY <1>9 DEF ServerSend, client, Unmoved
  <2>2. Line' = Line /\ Issued' = Issued
    BY <2>1 DEF Line, Issued
  <2>3. ASSUME NEW s \in Sids, NEW n \in Nat
        PROVE  (Coming(s, n) => Coming(s, n)') /\ (Come(s, n) => Come(s, n)')
    <3>1. Muted(s) => Muted(s)'
      BY <1>9, MutedServer
    <3>2. Coming(s, n) => Coming(s, n)'
      BY <2>2, <3>1, Zenon DEF Coming
    <3>3. Come(s, n) => Come(s, n)'
      BY <1>9, ComeSend
    <3> QED
      BY <3>2, <3>3
  <2> QED
    BY <2>1, <2>3, FlushedKept
<1>10. CASE UNCHANGED vars
  <2>1. Unmoved /\ UNCHANGED <<toClient, serverSubs, toServer, outbound>>
    BY <1>10 DEF vars, client, server, history, Unmoved
  <2> QED
    BY <1>2, <2>1 DEF Line, Issued
<1> QED
  BY <1>3, <1>4, <1>5, <1>6, <1>7, <1>8, <1>9, <1>10, StepsAre

\* Only the PONG of its drain adds a subscription to drained.
LEMMA DrainedBy ==
    ASSUME TypesInv, [Next]_vars, NEW s \in drained' \ drained
    PROVE  /\ s \in Sids /\ SubscriptionDrained(s) /\ pongs # << >> /\ Head(pongs) = s
           /\ toClient # << >> /\ Head(toClient) = Pong
           /\ UNCHANGED <<epoch, messages>>
<1>1. drained' # drained
  OBVIOUS
<1>2. ~Application
  <2>1. ASSUME NEW max \in 0..MaxLimit
        PROVE  ~Subscribe(max)
    BY <1>1, Zenon DEF Subscribe
  <2>2. ASSUME NEW t \in Sids, NEW max \in 0..MaxLimit
        PROVE  ~Unsubscribe(t, max)
    BY <1>1, Zenon DEF Unsubscribe
  <2>3. ASSUME NEW t \in Sids
        PROVE  ~SetTimeout(t) /\ ~CancelTimeout(t)
    BY <1>1, Zenon DEF SetTimeout, CancelTimeout
  <2>4. ASSUME NEW t \in Sids
        PROVE  ~DrainSubscription(t)
    BY <1>1, Zenon DEF DrainSubscription
  <2>5. ~Drain
    BY <1>1, Zenon DEF Drain
  <2>6. ~Close
    BY <1>1, Zenon DEF Close
  <2> QED
    BY <2>1, <2>2, <2>3, <2>4, <2>5, <2>6 DEF Application
<1>3. ~ReceiveInfo /\ ~ReceiveMsg /\ ~DrainFlush /\ ~FlushPending
  BY <1>1, Zenon DEF ReceiveInfo, ReceiveMsg, DrainFlush, FlushPending, history
<1>4. ASSUME NEW t \in Sids
      PROVE  ~Timeout(t) /\ ~ServerSend(t)
  BY <1>1, Zenon DEF Timeout, ServerSend, history
<1>5. ~Lose /\ ~Redial /\ ~DialOk /\ ~DialFailed
  BY <1>1, Zenon DEF Lose, Redial, DialOk, DialFailed, history
<1>6. ~ServerRead /\ ~UNCHANGED vars
  BY <1>1, Zenon DEF ServerRead, vars, history
<1>7. ReceivePong
  BY <1>2, <1>3, <1>4, <1>5, <1>6 DEF Next, Reading
<1>8. /\ toClient # << >> /\ Head(toClient) = Pong /\ pongs # << >>
      /\ UNCHANGED <<epoch, messages>>
  BY <1>7, ReceivePongDoes
<1>9. ~HandshakeDone
  BY <1>1, Zenon DEF HandshakeDone
<1>10. Head(pongs) \in Sids /\ SubscriptionDrained(Head(pongs))
  BY <1>1, <1>7, <1>9, ReceivePongDoes
<1>11. drained' = drained \cup {Head(pongs)}
  BY <1>8, <1>10, SubscriptionDrainedDoes
<1>12. Head(pongs) = s
  BY <1>11
<1> QED
  BY <1>8, <1>10, <1>12

\* When a drain completes on the connection that it began on, the server does
\* not know the subscription any more and no message for it is on its way:
\* what drainSubscription() promises (DrainIsComplete).
THEOREM DrainsComplete == Spec => DrainIsComplete
<1> DEFINE IInv == /\ TypesInv /\ Connection /\ Greeting /\ OnThis /\ Matched /\ Awaited
                   /\ Flushed
<1>1. ASSUME Init PROVE IInv
  <2>1. TypesInv
    BY <1>1, TypesInit
  <2>2. /\ outbound = << >> /\ toServer = << >> /\ toClient = << >> /\ serverSubs = {}
        /\ conn = "tcp" /\ pongs = << >> /\ Connection /\ epoch = 1
        /\ \A s \in Sids : drainedOn[s] = 0
    BY <1>1 DEF Init, Connection
  <2>3. Greeting
    BY <2>2, NotInNone DEF Greeting
  <2>4. OnThis
    BY <2>2 DEF OnThis
  <2>5. Matched
    <3>1. Line = << >>
      <4>1. << >> \in Seq(Commands)
        OBVIOUS
      <4>2. Cat(<< >>, << >>) = << >>
        BY <4>1, CatNil
      <4> QED
        BY <2>2, <4>2 DEF Line
    <3>2. Count(toClient, Pong) = 0 /\ Count(Line, PingCmd) = 0
      BY <2>2, <3>1, CountNil
    <3>3. Len(pongs) = 0
      BY <2>2
    <3> QED
      BY <3>2, <3>3 DEF Matched
  <2>6. Awaited
    BY <2>2 DEF Awaited
  <2>7. Flushed
    BY <2>2 DEF Flushed
  <2> QED
    BY <2>1, <2>2, <2>3, <2>4, <2>5, <2>6, <2>7
<1>2. IInv /\ [Next]_vars => IInv'
  <2> SUFFICES ASSUME IInv, [Next]_vars PROVE IInv'
    OBVIOUS
  <2>1. TypesInv'
    BY TypesNext
  <2>2. Connection' /\ Greeting' /\ OnThis'
    BY ConnectionNext, GreetingNext, OnThisNext
  <2>3. Matched' /\ Awaited' /\ Flushed'
    BY MatchedNext, AwaitedNext, FlushedNext
  <2> QED
    BY <2>1, <2>2, <2>3
<1>3. IInv /\ [Next]_vars =>
        [\A s \in drained' \ drained :
            drainedOn[s] = epoch => s \notin serverSubs' /\ Msg(s) \notin Range(toClient')]_vars
  <2> SUFFICES ASSUME IInv, [Next]_vars, NEW s \in drained' \ drained, drainedOn[s] = epoch
               PROVE  s \notin serverSubs' /\ Msg(s) \notin Range(toClient')
    OBVIOUS
  <2>1. /\ s \in Sids /\ SubscriptionDrained(s) /\ pongs # << >> /\ Head(pongs) = s
        /\ toClient # << >> /\ Head(toClient) = Pong /\ UNCHANGED <<epoch, messages>>
    BY DrainedBy
  <2>2. serverSubs' = serverSubs /\ toClient' = Tail(toClient)
    BY <2>1, SubscriptionDrainedDoes DEF Spoken, Quiet
  <2>3. conn = "ready"
    <3>1. /\ conn \notin {"down", "dialing", "tcp", "closed"}
          /\ conn \in {"down", "dialing", "tcp", "info", "ready", "closed"}
      BY <2>1 DEF Connection, TypesInv, OtherTypes
    <3>2. epoch \in Int
      BY SubscriptionsAssumption DEF TypesInv, OtherTypes
    <3>3. conn # "info"
      <4>1. ~(drainedOn[s] < epoch)
        BY <3>2
      <4> QED
        BY <2>1, <4>1 DEF OnThis
    <3> QED
      BY <3>1, <3>3
  <2>4. PICK n \in Nat : Len(pongs) = n + 1
    <3>1. Len(pongs) - 1 \in Nat /\ Len(pongs) = (Len(pongs) - 1) + 1
      BY <2>1, TailIs
    <3> QED
      BY <3>1, Zenon
  <2>5. 1 \in 1..Len(pongs) /\ pongs[1] = s
    BY <2>1, TailIs
  <2>6. Coming(s, n) \/ Come(s, n)
    BY <2>1, <2>3, <2>4, <2>5 DEF Flushed
  <2>7. PICK j \in Nat, g \in Nat :
           /\ j = Count(Tail(toClient), Pong) /\ g = Count(Line, PingCmd)
           /\ Count(toClient, Pong) = 1 + j
    BY <2>1, PongRead, MatchedTypes
  <2>8. n + 1 = (1 + j) + g
    BY <2>3, <2>4, <2>7 DEF Matched
  <2>9. ~Coming(s, n)
    <3> SUFFICES ASSUME Coming(s, n) PROVE FALSE
      OBVIOUS
    <3>1. PICK p \in Seq(Commands), r \in Seq(Commands) :
             Split(Line, p, PingCmd, r) /\ Count(r, PingCmd) = n
      BY DEF Coming
    <3>2. PICK z \in Commands : z = PingCmd
      BY CommandsAre
    <3>3. PICK q : q = Line /\ Split(q, p, z, r)
      BY <3>1, <3>2
    <3>4. /\ Count(p, z) \in Nat /\ Count(r, z) \in Nat
          /\ Count(q, z) = Count(p, z) + 1 + Count(r, z)
      BY <3>3, SplitCount
    <3>5. PICK i \in Nat : i = Count(p, z) /\ g = i + 1 + n
      BY <2>7, <3>1, <3>2, <3>3, <3>4
    <3>6. ~(n + 1 = (1 + j) + (i + 1 + n))
      OBVIOUS
    <3> QED
      BY <2>8, <3>5, <3>6, Zenon
  <2>10. Come(s, n)
    BY <2>6, <2>9
  <2>11. s \notin serverSubs
    BY <2>1, <2>10, ComeTail DEF Muted
  <2>12. Msg(s) \notin ToSet(Tail(toClient))
    <3>1. ASSUME NEW p \in Seq(Replies), NEW r \in Seq(Replies),
                 Split(Tail(toClient), p, Pong, r), Count(r, Pong) + Count(Line, PingCmd) = n
          PROVE  FALSE
      <4>1. PICK z \in Replies : z = Pong
        BY DEF Replies
      <4>2. PICK q : q = Tail(toClient) /\ Split(q, p, z, r)
        BY <3>1, <4>1
      <4>3. /\ Count(p, z) \in Nat /\ Count(r, z) \in Nat
            /\ Count(q, z) = Count(p, z) + 1 + Count(r, z)
        BY <4>2, SplitCount
      <4>4. PICK i \in Nat, k \in Nat : j = i + 1 + k /\ k + g = n
        BY <2>7, <3>1, <4>1, <4>2, <4>3
      <4>5. ~((k + g) + 1 = (1 + (i + 1 + k)) + g)
        OBVIOUS
      <4> QED
        BY <2>8, <4>4, <4>5, Zenon
    <3> QED
      BY <2>1, <2>10, <3>1, ComeTail
  <2>13. Range(Tail(toClient)) = ToSet(Tail(toClient))
    BY DEF Range, ToSet
  <2> QED
    BY <2>2, <2>11, <2>12, <2>13
<1> QED
  BY <1>1, <1>2, <1>3, PTL DEF Spec, DrainIsComplete

=============================================================================
