--------------------------- MODULE Subscriptions ---------------------------
(***************************************************************************)
(* The subscriptions of a client and of the server it is connected to: the  *)
(* table of Subscriptions, subscribe(), unsubscribe(), the limits of        *)
(* auto-unsubscribe, timeouts, draining a subscription and the connection,  *)
(* and what re-establishes them all after a reconnect.                      *)
(*                                                                          *)
(* Only the commands that concern subscriptions are modelled: SUB, UNSUB    *)
(* and the PINGs of drains and of the handshake.  When the buffer is        *)
(* flushed and how a connection is found again are the subjects of Pipeline *)
(* and Lifecycle: here a buffer may be flushed at any moment and a dial may *)
(* succeed at any moment.  A limit of 0 stands for max undefined: the code  *)
(* treats both alike in unsubscribe().                                      *)
(***************************************************************************)
EXTENDS Integers, Sequences, FiniteSets, Queues

CONSTANTS
    MaxSubs,        \* bound: subscriptions made
    MaxLimit,       \* bound: the largest limit asked for
    MaxCalls,       \* bound: calls of the application
    MaxMessages,    \* bound: messages the server sends
    MaxFaults       \* bound: connections lost

ASSUME SubscriptionsAssumption ==
    /\ MaxSubs \in Nat /\ MaxLimit \in Nat /\ MaxCalls \in Nat
    /\ MaxMessages \in Nat /\ MaxFaults \in Nat

Sids == 1..MaxSubs
Unlimited == 0
Handshake == 0              \* callback in pongs: the connect handshake
ConnectionDrain == -1       \* callback in pongs: the flush of drain()

VARIABLES
    table,          \* the sids in Subscriptions.subs
    sub,            \* the fields of each Sub
    sidCounter,     \* Subscriptions.sidCounter
    draining,       \* this.draining
    waiting,        \* the drains drain() waits for
    noMorePublishing \* this.noMorePublishing

subs == <<table, sub, sidCounter, draining, waiting, noMorePublishing>>

VARIABLES
    conn,           \* down, dialing, tcp (connected), info (INFO read),
                    \* ready (handshake done), closed
    infoReceived,   \* this.infoReceived: still set while conn is down
    outbound,       \* this.outbound
    pongs           \* this.pongs

client == <<conn, infoReceived, outbound, pongs>>

VARIABLES
    toServer,       \* commands written and not yet read by the server
    toClient,       \* messages and PONGs not yet read by the client
    serverSubs,     \* sids the server knows on this connection
    sent,           \* messages it has sent to each
    limit           \* the limit it has for each

server == <<toServer, toClient, serverSubs, sent, limit>>

VARIABLES
    calls, messages, epoch,     \* calls, messages and connections so far
    raised,         \* subscriptions whose limit was raised
    drained,        \* subscriptions whose drain has completed
    drainedOn       \* the connection each was drained on, if it was ready

history == <<calls, messages, epoch, raised, drained, drainedOn>>
vars == <<subs, client, server, history>>

-----------------------------------------------------------------------------
SubCmd(s) == [op |-> "SUB", sid |-> s, max |-> Unlimited]
UnsubCmd(s, max) == [op |-> "UNSUB", sid |-> s, max |-> max]
PingCmd == [op |-> "PING", sid |-> 0, max |-> Unlimited]
Msg(s) == [op |-> "MSG", sid |-> s]
Pong == [op |-> "PONG", sid |-> 0]

Commands ==
    {SubCmd(s) : s \in Sids} \cup {UnsubCmd(s, max) : s \in Sids, max \in 0..MaxLimit}
        \cup {PingCmd}
Replies == {Pong} \cup {Msg(s) : s \in Sids}

NewSub(max) == [received |-> 0, max |-> max, draining |-> FALSE, timer |-> FALSE]

TypeOK ==
    /\ table \subseteq 1..sidCounter /\ sidCounter \in 0..MaxSubs
    /\ sub \in [Sids -> [received : 0..MaxMessages, max : 0..MaxLimit,
                         draining : BOOLEAN, timer : BOOLEAN]]
    /\ draining \in BOOLEAN /\ waiting \subseteq Sids
    /\ noMorePublishing \in BOOLEAN
    /\ conn \in {"down", "dialing", "tcp", "info", "ready", "closed"}
    /\ infoReceived \in BOOLEAN
    /\ outbound \in Seq(Commands) /\ toServer \in Seq(Commands)
    /\ pongs \in Seq(Sids \cup {Handshake, ConnectionDrain})
    /\ toClient \in Seq(Replies)
    /\ serverSubs \subseteq Sids
    /\ sent \in [Sids -> 0..MaxMessages] /\ limit \in [Sids -> 0..MaxLimit]
    /\ calls \in 0..MaxCalls /\ messages \in 0..MaxMessages
    /\ epoch \in 1..MaxFaults + 1
    /\ raised \subseteq Sids /\ drained \subseteq Sids
    /\ drainedOn \in [Sids -> 0..MaxFaults + 1]

\* Where Client.connect() resolves.
Init ==
    /\ table = {} /\ sub = [s \in Sids |-> NewSub(Unlimited)] /\ sidCounter = 0
    /\ draining = FALSE /\ waiting = {} /\ noMorePublishing = FALSE
    /\ conn = "tcp" /\ infoReceived = FALSE /\ outbound = <<>> /\ pongs = <<>>
    /\ toServer = <<>> /\ toClient = <<>> /\ serverSubs = {}
    /\ sent = [s \in Sids |-> 0] /\ limit = [s \in Sids |-> Unlimited]
    /\ calls = 0 /\ messages = 0 /\ epoch = 1
    /\ raised = {} /\ drained = {} /\ drainedOn = [s \in Sids |-> 0]

Call == conn # "closed" /\ calls < MaxCalls /\ calls' = calls + 1

SendCommands(cmds) == outbound' = outbound \o cmds

-----------------------------------------------------------------------------
(* The table                                                                *)

\* Faulty: a timeout outlives its subscription.
CancelKeepsTimer(S, fields) ==
    /\ table' = table \ S
    /\ sub' = fields

\* Subscriptions.cancel() of the subscriptions S, given their fields.
Cancel(S, fields) ==
    /\ table' = table \ S
    /\ sub' = [s \in Sids |-> [fields[s] EXCEPT !.timer = @ /\ s \notin S]]

\* unsubscribe(s, max): a limit already reached cancels at once.
Unsubscribed(s, max, fields) ==
    LET limited == [fields EXCEPT ![s].max = max] IN
    /\ SendCommands(<<UnsubCmd(s, max)>>)
    /\ Cancel(IF max = Unlimited \/ fields[s].received >= max THEN {s} ELSE {}, limited)

Subscribe(max) ==
    /\ Call /\ ~draining /\ sidCounter < MaxSubs
    /\ LET s == sidCounter + 1 IN
        /\ sidCounter' = s
        /\ table' = table \cup {s}
        /\ sub' = [sub EXCEPT ![s] = NewSub(max)]
        /\ SendCommands(IF max = Unlimited THEN <<SubCmd(s)>>
                        ELSE <<SubCmd(s), UnsubCmd(s, max)>>)
    /\ UNCHANGED <<draining, waiting, noMorePublishing, conn, infoReceived, pongs,
                   server, messages, epoch, raised, drained, drainedOn>>

Unsubscribe(s, max) ==
    /\ Call /\ s \in table
    /\ Unsubscribed(s, max, sub)
    /\ raised' = IF sub[s].max # Unlimited /\ max > sub[s].max
                 THEN raised \cup {s} ELSE raised
    /\ UNCHANGED <<sidCounter, draining, waiting, noMorePublishing, conn,
                   infoReceived, pongs, server>>
    /\ UNCHANGED <<messages, epoch, drained, drainedOn>>

\* Subscription.setTimeout(): it replaces a timer already armed.
SetTimeout(s) ==
    /\ Call /\ s \in table
    /\ sub' = [sub EXCEPT ![s].timer = TRUE]
    /\ UNCHANGED <<table, sidCounter, draining, waiting, noMorePublishing, client,
                   server, messages, epoch, raised, drained, drainedOn>>

CancelTimeout(s) ==
    /\ Call /\ s \in table
    /\ sub' = [sub EXCEPT ![s].timer = FALSE]
    /\ UNCHANGED <<table, sidCounter, draining, waiting, noMorePublishing, client,
                   server, messages, epoch, raised, drained, drainedOn>>

\* The timer fires: the callback gets an error, the subscription is cancelled.
Timeout(s) ==
    /\ sub[s].timer
    /\ IF s \in table THEN Unsubscribed(s, Unlimited, sub)
       ELSE sub' = [sub EXCEPT ![s].timer = FALSE] /\ UNCHANGED <<table, outbound>>
    /\ UNCHANGED <<sidCounter, draining, waiting, noMorePublishing, conn,
                   infoReceived, pongs, server, history>>

-----------------------------------------------------------------------------
(* Draining                                                                 *)

\* Faulty: the PING goes first.
DrainCommandsSwapped(S) ==
    FlattenSeq([s \in Sids |-> IF s \in S THEN <<PingCmd, UnsubCmd(s, Unlimited)>>
                                          ELSE <<>>])

\* Faulty: nothing asks for the PONG.
DrainCommandsUnflushed(S) ==
    FlattenSeq([s \in Sids |-> IF s \in S THEN <<UnsubCmd(s, Unlimited)>> ELSE <<>>])

\* drainSubscription() of the subscriptions S that are not draining, in the
\* order of their sids: UNSUB, and a flush whose callback cancels s.
DrainCommands(S) ==
    FlattenSeq([s \in Sids |-> IF s \in S THEN <<UnsubCmd(s, Unlimited), PingCmd>>
                                          ELSE <<>>])
DrainOf(S) ==
    /\ sub' = [s \in Sids |-> [sub[s] EXCEPT !.draining = @ \/ s \in S]]
    /\ SendCommands(DrainCommands(S))
    /\ pongs' = pongs \o Among([s \in Sids |-> s], S)
    /\ drainedOn' = [s \in Sids |-> IF s \in S /\ conn = "ready" THEN epoch
                                    ELSE drainedOn[s]]

DrainSubscription(s) ==
    /\ Call /\ s \in table /\ ~sub[s].draining
    /\ DrainOf({s})
    /\ UNCHANGED <<table, sidCounter, draining, waiting, noMorePublishing, conn,
                   infoReceived, server, messages, epoch, raised, drained>>

\* Client.drain(): the drain of a subscription that is draining rejects, and
\* settle() counts that as done.
Drain ==
    LET S == {s \in table : ~sub[s].draining} IN
    /\ Call /\ ~draining
    /\ draining' = TRUE /\ waiting' = S
    /\ DrainOf(S)
    /\ UNCHANGED <<table, sidCounter, noMorePublishing, conn, infoReceived, server,
                   messages, epoch, raised, drained>>

\* All its drains have settled: the last flush.
DrainFlush ==
    /\ conn # "closed" /\ draining /\ waiting = {} /\ ~noMorePublishing
    /\ noMorePublishing' = TRUE
    /\ pongs' = Append(pongs, ConnectionDrain)
    /\ SendCommands(<<PingCmd>>)
    /\ UNCHANGED <<table, sub, sidCounter, draining, waiting, conn, infoReceived,
                   server, history>>

\* close(), by the application or at the end of drain().
Closed ==
    /\ conn' = "closed" /\ Cancel(table, sub)
    /\ outbound' = <<>> /\ pongs' = <<>>
    /\ toServer' = <<>> /\ toClient' = <<>> /\ serverSubs' = {}
    /\ UNCHANGED <<sidCounter, draining, noMorePublishing, infoReceived, sent, limit>>

Close ==
    /\ Call
    /\ Closed
    /\ UNCHANGED <<waiting, messages, epoch, raised, drained, drainedOn>>

-----------------------------------------------------------------------------
(* Writing, and what the server reads                                       *)

\* flushPending(): without a stream the commands are gone.
FlushPending ==
    /\ outbound # <<>> /\ infoReceived
    /\ outbound' = <<>>
    /\ toServer' = IF conn = "down" THEN toServer ELSE toServer \o outbound
    /\ UNCHANGED <<subs, conn, infoReceived, pongs, toClient, serverSubs, sent,
                   limit, history>>

ServerSub(s) ==
    /\ serverSubs' = serverSubs \cup {s}
    /\ sent' = IF s \in serverSubs THEN sent ELSE [sent EXCEPT ![s] = 0]
    /\ limit' = IF s \in serverSubs THEN limit ELSE [limit EXCEPT ![s] = Unlimited]
    /\ UNCHANGED toClient

ServerUnsub(s, max) ==
    /\ serverSubs' = IF max = Unlimited \/ sent[s] >= max
                     THEN serverSubs \ {s} ELSE serverSubs
    /\ limit' = [limit EXCEPT ![s] = max]
    /\ UNCHANGED <<sent, toClient>>

ServerPing ==
    /\ toClient' = Append(toClient, Pong)
    /\ UNCHANGED <<serverSubs, sent, limit>>

ServerRead ==
    /\ toServer # <<>>
    /\ LET c == Head(toServer) IN
        \/ c.op = "SUB" /\ ServerSub(c.sid)
        \/ c.op = "UNSUB" /\ ServerUnsub(c.sid, c.max)
        \/ c.op = "PING" /\ ServerPing
    /\ toServer' = Tail(toServer)
    /\ UNCHANGED <<subs, client, calls, messages, epoch, raised, drained, drainedOn>>

\* A message for s; the server forgets s with the last one of its limit.
ServerSend(s) ==
    /\ messages < MaxMessages /\ messages' = messages + 1
    /\ s \in serverSubs
    /\ toClient' = Append(toClient, Msg(s))
    /\ sent' = [sent EXCEPT ![s] = @ + 1]
    /\ serverSubs' = IF limit[s] # Unlimited /\ sent[s] + 1 >= limit[s]
                     THEN serverSubs \ {s} ELSE serverSubs
    /\ UNCHANGED <<subs, client, toServer, limit, calls, epoch, raised, drained,
                   drainedOn>>

-----------------------------------------------------------------------------
(* Reading: processMsg() and the PONGs                                      *)

\* Faulty: one message past the limit.
ReachedMaxLate(fields, s) ==
    fields[s].max # Unlimited /\ fields[s].received > fields[s].max

ReachedMax(fields, s) ==
    fields[s].max # Unlimited /\ fields[s].received >= fields[s].max

\* processMsg(): a message nobody subscribes to any more is dropped.
ProcessMsg(s) ==
    LET counted == [sub EXCEPT ![s].received = @ + 1,
                    ![s].timer = @ /\ sub[s].max # Unlimited
                                   /\ sub[s].received + 1 < sub[s].max] IN
    IF s \notin table THEN UNCHANGED <<table, sub, outbound>>
    ELSE IF ReachedMax(counted, s) THEN Unsubscribed(s, Unlimited, counted)
    ELSE sub' = counted /\ UNCHANGED <<table, outbound>>

ReceiveMsg ==
    /\ toClient # <<>> /\ Head(toClient).op = "MSG"
    /\ ProcessMsg(Head(toClient).sid)
    /\ toClient' = Tail(toClient)
    /\ UNCHANGED <<sidCounter, draining, waiting, noMorePublishing, conn,
                   infoReceived, pongs, toServer, serverSubs, sent, limit, history>>

\* Faulty: one too few.
RemainingLimitShort(s) ==
    IF sub[s].max > sub[s].received + 1 THEN sub[s].max - sub[s].received - 1
    ELSE Unlimited

\* Faulty: what has been received is added.
RemainingLimitSum(s) == sub[s].max + sub[s].received

\* What is left of the limit of s for a new connection: if nothing, a plain
\* UNSUB.
RemainingLimit(s) ==
    IF sub[s].max > sub[s].received THEN sub[s].max - sub[s].received ELSE Unlimited

\* sendSubscriptions(): every subscription of the table, draining or not.
SendSubscriptions ==
    FlattenSeq([s \in Sids |->
        IF s \notin table THEN <<>>
        ELSE IF sub[s].max = Unlimited THEN <<SubCmd(s)>>
        ELSE <<SubCmd(s), UnsubCmd(s, RemainingLimit(s))>>])

\* Faulty: the pattern is not anchored and UNSUB matches too.
StripAll(cmds) == Among(cmds, {PingCmd})

StripPendingSubs(cmds) == Among(cmds, {c \in Commands : c.op # "SUB"})

\* The PONG of the handshake: sendSubscriptions() writes past the buffer.
HandshakeDone ==
    /\ conn' = "ready"
    /\ toServer' = toServer \o SendSubscriptions
    /\ outbound' = StripPendingSubs(outbound)
    /\ pongs' = Tail(pongs) /\ toClient' = Tail(toClient)
    /\ UNCHANGED <<subs, infoReceived, serverSubs, sent, limit, drained>>

\* The PONG of a drain: the subscription is cancelled, its promise resolves.
SubscriptionDrained(s) ==
    /\ Cancel({s}, sub)
    /\ drained' = drained \cup {s} /\ waiting' = waiting \ {s}
    /\ pongs' = Tail(pongs) /\ toClient' = Tail(toClient)
    /\ UNCHANGED <<sidCounter, draining, noMorePublishing, conn, infoReceived,
                   outbound, toServer, serverSubs, sent, limit>>

ReceivePong ==
    /\ toClient # <<>> /\ Head(toClient).op = "PONG" /\ pongs # <<>>
    /\ \/ Head(pongs) = Handshake /\ HandshakeDone
       \/ Head(pongs) \in Sids /\ SubscriptionDrained(Head(pongs))
       \/ Head(pongs) = ConnectionDrain /\ Closed /\ UNCHANGED <<waiting, drained>>
    /\ UNCHANGED <<calls, messages, epoch, raised, drainedOn>>

\* The first INFO: CONNECT and PING are written past the buffer.
ReceiveInfo ==
    /\ conn = "tcp" /\ conn' = "info" /\ infoReceived' = TRUE
    /\ toServer' = Append(toServer, PingCmd)
    /\ pongs' = <<Handshake>> \o pongs
    /\ UNCHANGED <<subs, outbound, toClient, serverSubs, sent, limit, history>>

-----------------------------------------------------------------------------
(* The connection                                                           *)

\* The socket is lost with all that is on the way: closeStream().
Lose ==
    /\ conn \in {"tcp", "info", "ready"} /\ epoch <= MaxFaults
    /\ conn' = "down" /\ epoch' = epoch + 1
    /\ pongs' = <<>>
    /\ toServer' = <<>> /\ toClient' = <<>> /\ serverSubs' = {}
    /\ UNCHANGED <<subs, infoReceived, outbound, sent, limit, calls, messages, raised,
                   drained, drainedOn>>

\* connect() and its prepareConnection(): SUB and UNSUB are discarded, PINGs
\* are kept while callbacks last.
Redial ==
    LET pings == Among(outbound, {PingCmd})
        kept == IF Len(pings) < Len(pongs) THEN Len(pings) ELSE Len(pongs) IN
    /\ conn = "down" /\ conn' = "dialing"
    /\ outbound' = SubSeq(pings, 1, kept) /\ pongs' = SubSeq(pongs, 1, kept)
    /\ infoReceived' = FALSE
    /\ UNCHANGED <<subs, server, history>>

DialOk ==
    /\ conn = "dialing" /\ conn' = "tcp"
    /\ UNCHANGED <<subs, infoReceived, outbound, pongs, server, history>>

DialFailed ==
    /\ conn = "dialing" /\ conn' = "down"
    /\ UNCHANGED <<subs, infoReceived, outbound, pongs, server, history>>

-----------------------------------------------------------------------------
Application ==
    \/ \E max \in 0..MaxLimit : Subscribe(max)
    \/ \E s \in Sids, max \in 0..MaxLimit : Unsubscribe(s, max)
    \/ \E s \in Sids : SetTimeout(s) \/ CancelTimeout(s)
    \/ \E s \in Sids : DrainSubscription(s)
    \/ Drain
    \/ Close

Reading == ReceiveInfo \/ ReceiveMsg \/ ReceivePong

Next ==
    \/ Application
    \/ \E s \in Sids : Timeout(s)
    \/ DrainFlush
    \/ FlushPending
    \/ Reading
    \/ Lose \/ Redial \/ DialOk \/ DialFailed
    \/ ServerRead
    \/ \E s \in Sids : ServerSend(s)

Spec == Init /\ [][Next]_vars

\* The event loop runs what is due and the server reads what it is sent.
Fairness ==
    /\ WF_vars(DrainFlush) /\ WF_vars(FlushPending) /\ WF_vars(Reading)
    /\ WF_vars(ServerRead)

FairSpec == Spec /\ Fairness

-----------------------------------------------------------------------------
(* Properties                                                               *)

\* A subscription that has reached its limit is gone: no callback is called
\* once more than its max, whatever unsubscribe(), processMsg() and a
\* reconnect did in between (protocolhandler.ts 309-325, 925-943).
BelowMax ==
    \A s \in table : sub[s].max = Unlimited \/ sub[s].received < sub[s].max

Quiescent == conn = "ready" /\ outbound = <<>> /\ toServer = <<>> /\ toClient = <<>>

\* When nothing is on its way, every subscription of the client is one of the
\* server, which will send it at least what it still expects: neither the
\* commands discarded by prepareConnection(), nor the ones stripped after the
\* handshake, nor a reconnect in the middle of a limit starve it.  Raising a
\* limit is left out: the server may have reached the lower one.
NotStarved ==
    Quiescent =>
        \A s \in table \ raised :
            sub[s].draining \/
            /\ s \in serverSubs
            /\ \/ limit[s] = Unlimited
               \/ /\ sub[s].max # Unlimited
                  /\ limit[s] - sent[s] >= sub[s].max - sub[s].received

\* When nothing is on its way, a subscription that the client has cancelled
\* does not stay on the server for ever: it is gone, except a drained one (see
\* DrainStopsServer) or one that has a limit.  One that has a limit may still
\* be there: unsubscribe(max) with max already received cancels and sends
\* UNSUB sid max, but the server counts from the last SUB (309-325, 563-586).
NoOrphans ==
    Quiescent => \A s \in serverSubs \ (table \cup drained) : limit[s] # Unlimited

\* A timer belongs to a live subscription: no timeout error after
\* unsubscribe(), the limit, a drain or close() (subscriptions.ts 69-81).
TimersOfLiveSubs == \A s \in Sids : sub[s].timer => s \in table

\* When the drain of a subscription completes on the connection that it began
\* on, the server has forgotten it and no message for it is left unread: the
\* UNSUB went before the PING, and the n-th PONG answers the n-th callback.
DrainIsComplete ==
    [][\A s \in drained' \ drained :
        drainedOn[s] = epoch => s \notin serverSubs' /\ Msg(s) \notin Range(toClient')]_vars

\* Client.drain() closes the connection, and a subscription that drains ends,
\* as long as the connection lasts.
DrainEnds ==
    /\ draining ~> conn = "closed"
    /\ \A s \in Sids : sub[s].draining ~> s \notin table

-----------------------------------------------------------------------------
(* What the documentation says, and the code does not do                    *)

\* src/README_old.md:394: drain ensures that the server will not send any
\* additional messages to the subscription.  sendSubscriptions() subscribes a
\* draining subscription again, after its UNSUB.
DrainStopsServer == Quiescent => serverSubs \cap drained = {}
=============================================================================
