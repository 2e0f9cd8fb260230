------------------------------ MODULE Requests ------------------------------
(***************************************************************************)
(* Client.request(): requests share one inbox subscription, the mux, whose  *)
(* dispatcher hands a reply to the request named by its token.  The reply,  *)
(* the timeout, a failing publish, drain() and close() race for one promise *)
(* over a connection that is lost and found again.                          *)
(*                                                                          *)
(* Of the commands only SUB and UNSUB of the mux, the PUBs of requests and  *)
(* the PINGs of drain() and of the handshake are modelled.  A buffer may be *)
(* flushed and a dial may succeed at any moment: those are the subjects of  *)
(* Pipeline and Lifecycle.  A token is the number of its request: nuid      *)
(* never yields one twice.                                                  *)
(***************************************************************************)
EXTENDS Integers, Sequences, FiniteSets, Queues

CONSTANTS
    MaxRequests,    \* bound: requests made
    MaxAnswers,     \* bound: answers given by responders
    MaxFaults       \* bound: connections lost

ASSUME RequestsAssumption ==
    MaxRequests \in Nat /\ MaxAnswers \in Nat /\ MaxFaults \in Nat

Tokens == 1..MaxRequests
MaxReplies == 1             \* max of every Req

VARIABLES
    reqs,           \* the tokens in MuxSubscriptions.reqs
    received,       \* the received field of each Req
    timer,          \* the tokens of the requests whose timeout is armed
    promise,        \* none (not requested), pending, resolved, rejected
    requested,      \* requests so far
    mux             \* none, live, or gone: Subscriptions.mux, cancelled

muxVars == <<reqs, received, timer, promise, requested, mux>>

VARIABLES
    conn,           \* down, dialing, tcp (connected), info (INFO read),
                    \* ready (handshake done), closed
    infoReceived,   \* this.infoReceived: still set while conn is down
    draining,       \* this.draining
    noMorePublishing, \* this.noMorePublishing
    outbound,       \* this.outbound
    pongs           \* this.pongs: handshake, mux (its drain), drain (the last flush)

client == <<conn, infoReceived, draining, noMorePublishing, outbound, pongs>>

VARIABLES
    toServer,       \* commands written and not yet read by the server
    toClient,       \* replies and PONGs not yet read by the client
    serverMux,      \* the server has the mux on this connection
    asked           \* requests that have reached a responder

server == <<toServer, toClient, serverMux, asked>>

VARIABLES
    answered,       \* requests that a responder has answered
    answers, epoch, \* answers and connections so far
    early           \* requests written between the INFO and the PONG of a handshake

history == <<answered, answers, epoch, early>>
vars == <<muxVars, client, server, history>>

-----------------------------------------------------------------------------
Command(op) == [op |-> op, token |-> 0]
Pub(t) == [op |-> "PUB", token |-> t]
Pong == [op |-> "PONG", token |-> 0, valid |-> TRUE]
Reply(t, valid) == [op |-> "MSG", token |-> t, valid |-> valid]

Commands == {Command(op) : op \in {"SUB", "UNSUB", "PING"}} \cup {Pub(t) : t \in Tokens}
Replies == {Pong} \cup {Reply(t, valid) : t \in Tokens, valid \in BOOLEAN}

TypeOK ==
    /\ reqs \subseteq Tokens /\ timer \subseteq Tokens
    /\ received \in [Tokens -> 0..MaxReplies]
    /\ promise \in [Tokens -> {"none", "pending", "resolved", "rejected"}]
    /\ requested \in 0..MaxRequests
    /\ mux \in {"none", "live", "gone"}
    /\ conn \in {"down", "dialing", "tcp", "info", "ready", "closed"}
    /\ infoReceived \in BOOLEAN /\ draining \in BOOLEAN /\ noMorePublishing \in BOOLEAN
    /\ outbound \in Seq(Commands) /\ toServer \in Seq(Commands)
    /\ pongs \in Seq({"handshake", "mux", "drain"})
    /\ toClient \in Seq(Replies)
    /\ serverMux \in BOOLEAN
    /\ asked \subseteq Tokens /\ answered \subseteq Tokens /\ early \subseteq Tokens
    /\ answers \in 0..MaxAnswers /\ epoch \in 1..MaxFaults + 1

\* Where Client.connect() resolves.
Init ==
    /\ reqs = {} /\ timer = {} /\ received = [t \in Tokens |-> 0]
    /\ promise = [t \in Tokens |-> "none"] /\ requested = 0 /\ mux = "none"
    /\ conn = "tcp" /\ infoReceived = FALSE
    /\ draining = FALSE /\ noMorePublishing = FALSE
    /\ outbound = <<>> /\ pongs = <<>>
    /\ toServer = <<>> /\ toClient = <<>> /\ serverMux = FALSE
    /\ asked = {} /\ answered = {} /\ answers = 0 /\ epoch = 1 /\ early = {}

-----------------------------------------------------------------------------
(* Requests                                                                 *)

\* A settled promise stays as it is.
Settled(t, outcome) ==
    [promise EXCEPT ![t] = IF @ = "pending" THEN outcome ELSE @]

\* Faulty: the timeout of a cancelled request goes on.
CancelKeepsTimer(S) == reqs' = reqs \ S /\ UNCHANGED timer

\* MuxSubscriptions.cancel() of the requests S.
Cancel(S) == reqs' = reqs \ S /\ timer' = timer \ S

\* The buffer after initMux(): the first request subscribes the mux.
InitMux == IF mux = "none" THEN Append(outbound, Command("SUB")) ELSE outbound

\* MuxSubscriptions.add(), and the timeout of the request.
Add(t) == reqs' = reqs \cup {t} /\ timer' = timer \cup {t}

\* request() of a client that is closed or draining.
RequestRefused ==
    /\ conn = "closed" \/ draining
    /\ promise' = [promise EXCEPT ![requested + 1] = "rejected"]
    /\ UNCHANGED <<reqs, timer, mux, outbound>>

\* request() whose publish() throws: the subject is empty, the data no JSON.
RequestUnsent ==
    /\ conn # "closed" /\ ~draining
    /\ mux' = "live"
    /\ outbound' = InitMux
    /\ promise' = [promise EXCEPT ![requested + 1] = "rejected"]
    /\ UNCHANGED <<reqs, timer>>

RequestSent ==
    LET t == requested + 1 IN
    /\ conn # "closed" /\ ~draining
    /\ mux' = "live"
    /\ outbound' = Append(InitMux, Pub(t))
    /\ Add(t)
    /\ promise' = [promise EXCEPT ![t] = "pending"]

Request ==
    /\ requested < MaxRequests /\ requested' = requested + 1
    /\ RequestRefused \/ RequestUnsent \/ RequestSent
    /\ UNCHANGED <<received, conn, infoReceived, draining, noMorePublishing, pongs,
                   server, history>>

\* Faulty: the request is cancelled and its promise left.
TimeoutSilently(t) ==
    /\ t \in timer
    /\ Cancel({t})
    /\ UNCHANGED <<received, promise, requested, mux, client, server, history>>

\* The timeout of t: cancelRequest(), then the promise is rejected.
Timeout(t) ==
    /\ t \in timer
    /\ Cancel({t})
    /\ promise' = Settled(t, "rejected")
    /\ UNCHANGED <<received, requested, mux, client, server, history>>

\* Faulty: the reply goes to the oldest request, as PONGs go to callbacks.
DispatchOldest(t, valid) ==
    IF reqs = {} THEN UNCHANGED <<reqs, timer, received, promise>>
    ELSE /\ promise' = Settled(Min(reqs), IF valid THEN "resolved" ELSE "rejected")
         /\ Cancel({Min(reqs)})
         /\ UNCHANGED received

\* Faulty: the request stays in the table.
DispatchOnly(t, valid) ==
    IF t \notin reqs THEN UNCHANGED <<reqs, timer, received, promise>>
    ELSE /\ received' = [received EXCEPT ![t] = @ + 1]
         /\ promise' = Settled(t, IF valid THEN "resolved" ELSE "rejected")
         /\ UNCHANGED <<reqs, timer>>

\* The dispatcher, on a reply to t; one whose request is gone is dropped.
Dispatch(t, valid) ==
    IF t \notin reqs THEN UNCHANGED <<reqs, timer, received, promise>>
    ELSE /\ received' = [received EXCEPT ![t] = @ + 1]
         /\ promise' = Settled(t, IF valid THEN "resolved" ELSE "rejected")
         /\ Cancel(IF received'[t] >= MaxReplies THEN {t} ELSE {})

\* processMsg(): without its subscription a message is dropped.
ReceiveMsg ==
    /\ toClient # <<>> /\ Head(toClient).op = "MSG"
    /\ IF mux = "live" THEN Dispatch(Head(toClient).token, Head(toClient).valid)
       ELSE UNCHANGED <<reqs, timer, received, promise>>
    /\ toClient' = Tail(toClient)
    /\ UNCHANGED <<requested, mux, client, toServer, serverMux, asked, history>>

-----------------------------------------------------------------------------
(* Draining and closing                                                     *)

\* Client.drain(), which drains the mux like any subscription.
Drain ==
    /\ conn # "closed" /\ ~draining
    /\ draining' = TRUE
    /\ IF mux = "live"
       THEN /\ outbound' = Append(Append(outbound, Command("UNSUB")), Command("PING"))
            /\ pongs' = Append(pongs, "mux")
       ELSE UNCHANGED <<outbound, pongs>>
    /\ UNCHANGED <<muxVars, conn, infoReceived, noMorePublishing, server, history>>

\* All its drains have settled: the last flush.
DrainFlush ==
    /\ conn # "closed" /\ draining /\ mux # "live" /\ ~noMorePublishing
    /\ noMorePublishing' = TRUE
    /\ outbound' = Append(outbound, Command("PING"))
    /\ pongs' = Append(pongs, "drain")
    /\ UNCHANGED <<muxVars, conn, infoReceived, draining, server, history>>

\* close(): the requests are cancelled, their promises left as they are.
Closed ==
    /\ conn' = "closed"
    /\ Cancel(reqs)
    /\ mux' = IF mux = "live" THEN "gone" ELSE mux
    /\ outbound' = <<>> /\ pongs' = <<>>
    /\ toServer' = <<>> /\ toClient' = <<>> /\ serverMux' = FALSE
    /\ UNCHANGED <<received, promise, requested, infoReceived, draining,
                   noMorePublishing, asked, history>>

Close == conn # "closed" /\ Closed

-----------------------------------------------------------------------------
(* The connection                                                           *)

\* flushPending(): without a stream the commands are gone.
FlushPending ==
    /\ outbound # <<>> /\ infoReceived
    /\ outbound' = <<>>
    /\ toServer' = IF conn = "down" THEN toServer ELSE toServer \o outbound
    /\ early' = IF conn = "info" THEN early \cup {t \in Tokens : Pub(t) \in ToSet(outbound)}
                ELSE early
    /\ UNCHANGED <<muxVars, conn, infoReceived, draining, noMorePublishing, pongs,
                   toClient, serverMux, asked, answered, answers, epoch>>

\* The first INFO: CONNECT and PING are written past the buffer.
ReceiveInfo ==
    /\ conn = "tcp" /\ conn' = "info" /\ infoReceived' = TRUE
    /\ toServer' = Append(toServer, Command("PING"))
    /\ pongs' = <<"handshake">> \o pongs
    /\ UNCHANGED <<muxVars, draining, noMorePublishing, outbound, toClient,
                   serverMux, asked, history>>

\* sendSubscriptions()
Subscriptions == IF mux = "live" THEN <<Command("SUB")>> ELSE <<>>

\* stripPendingSubs()
Stripped == Among(outbound, Commands \ {Command("SUB")})

\* Faulty: the buffer is flushed before the subscriptions are sent.
HandshakeFlushesFirst ==
    /\ conn' = "ready"
    /\ toServer' = (toServer \o Stripped) \o Subscriptions
    /\ outbound' = <<>>
    /\ pongs' = Tail(pongs) /\ toClient' = Tail(toClient)
    /\ UNCHANGED <<muxVars, infoReceived, draining, noMorePublishing, serverMux, asked,
                   history>>

\* The PONG of the handshake: sendSubscriptions(), stripPendingSubs() and the
\* flushPending() of connectCB().
HandshakeDone ==
    /\ conn' = "ready"
    /\ toServer' = (toServer \o Subscriptions) \o Stripped
    /\ outbound' = <<>>
    /\ pongs' = Tail(pongs) /\ toClient' = Tail(toClient)
    /\ UNCHANGED <<muxVars, infoReceived, draining, noMorePublishing, serverMux, asked,
                   history>>

\* The PONG of the drain of the mux.
MuxDrained ==
    /\ mux' = "gone"
    /\ pongs' = Tail(pongs) /\ toClient' = Tail(toClient)
    /\ UNCHANGED <<reqs, received, timer, promise, requested, conn, infoReceived,
                   draining, noMorePublishing, outbound, toServer, serverMux, asked,
                   history>>

ReceivePong ==
    /\ toClient # <<>> /\ Head(toClient).op = "PONG" /\ pongs # <<>>
    /\ \/ Head(pongs) = "handshake" /\ HandshakeDone
       \/ Head(pongs) = "mux" /\ MuxDrained
       \/ Head(pongs) = "drain" /\ Closed

\* The socket is lost with all that is on the way: closeStream().
Lose ==
    /\ conn \in {"tcp", "info", "ready"} /\ epoch <= MaxFaults
    /\ conn' = "down" /\ epoch' = epoch + 1
    /\ pongs' = <<>>
    /\ toServer' = <<>> /\ toClient' = <<>> /\ serverMux' = FALSE
    /\ UNCHANGED <<muxVars, infoReceived, draining, noMorePublishing, outbound, asked,
                   answered, answers, early>>

\* connect() and its prepareConnection(): SUB and UNSUB are discarded, PINGs
\* are kept while callbacks last, PUBs are kept.
Pings(i) == {j \in 1..i : outbound[j].op = "PING"}

CarriedOver ==
    {i \in DOMAIN outbound :
        \/ outbound[i].op = "PUB"
        \/ outbound[i].op = "PING" /\ Cardinality(Pings(i)) <= Len(pongs)}

Redial ==
    /\ conn = "down" /\ conn' = "dialing"
    /\ outbound' = AtIndices(outbound, CarriedOver)
    /\ pongs' = SubSeq(pongs, 1, Cardinality({i \in CarriedOver : outbound[i].op = "PING"}))
    /\ infoReceived' = FALSE
    /\ UNCHANGED <<muxVars, draining, noMorePublishing, server, history>>

Dialed ==
    /\ conn = "dialing" /\ conn' \in {"tcp", "down"}
    /\ UNCHANGED <<muxVars, infoReceived, draining, noMorePublishing, outbound, pongs,
                   server, history>>

-----------------------------------------------------------------------------
(* The server and the responders                                            *)

ServerRead ==
    /\ toServer # <<>>
    /\ LET c == Head(toServer) IN
        /\ serverMux' = IF c.op \in {"SUB", "UNSUB"} THEN c.op = "SUB" ELSE serverMux
        /\ toClient' = IF c.op = "PING" THEN Append(toClient, Pong) ELSE toClient
        /\ asked' = IF c.op = "PUB" THEN asked \cup {c.token} ELSE asked
    /\ toServer' = Tail(toServer)
    /\ UNCHANGED <<muxVars, client, history>>

\* A responder answers, once, again, or to a request that has timed out; its
\* answer reaches the client if the server has the mux.  Its data may be no
\* JSON.
Answer(t) ==
    /\ answers < MaxAnswers /\ answers' = answers + 1
    /\ t \in asked
    /\ answered' = answered \cup {t}
    /\ \E valid \in BOOLEAN :
        toClient' = IF serverMux THEN Append(toClient, Reply(t, valid)) ELSE toClient
    /\ UNCHANGED <<muxVars, client, toServer, serverMux, asked, epoch, early>>

-----------------------------------------------------------------------------
Reading == ReceiveInfo \/ ReceiveMsg \/ ReceivePong

Next ==
    \/ Request \/ Drain \/ Close
    \/ \E t \in Tokens : Timeout(t)
    \/ DrainFlush
    \/ FlushPending
    \/ Reading
    \/ Lose \/ Redial \/ Dialed
    \/ ServerRead
    \/ \E t \in Tokens : Answer(t)

Spec == Init /\ [][Next]_vars

\* Timers that are armed fire.
FairSpec == Spec /\ \A t \in Tokens : WF_vars(Timeout(t))

-----------------------------------------------------------------------------
(* Properties                                                               *)

\* A promise that is pending has its entry in the multiplexer and its timer,
\* and nothing else has: no request is left without anybody to settle it, no
\* timer and no entry outlives its promise, until close() forgets them all
\* (nats.ts 489-522, muxsubscriptions.ts 60-102).
PendingIsTracked ==
    /\ reqs = timer
    /\ reqs = IF conn = "closed" THEN {} ELSE {t \in Tokens : promise[t] = "pending"}

\* Requests implement Promises: each promise settles once, and resolves only
\* with an answer to its own request, whatever late, repeated or invalid
\* replies arrive for others.
Contract == INSTANCE Promises
ImplementsPromises == Contract!Spec

\* On its way to the server a request follows the SUB of the inbox it will be
\* answered to, so that no answer is lost on a working connection.  Left out
\* are requests written between the INFO and the PONG of a reconnect, and
\* those that drain() cuts off (subscribe, prepareConnection,
\* sendSubscriptions, stripPendingSubs).
InboxFirst ==
    LET line == IF infoReceived /\ conn # "down" THEN toServer \o outbound ELSE <<>> IN
    \A i \in DOMAIN line :
        line[i].op = "PUB" /\ line[i].token \notin early /\ ~draining =>
            \/ serverMux
            \/ \E j \in 1..i-1 : line[j].op = "SUB"
            \/ conn = "info" /\ mux = "live"

\* A request settles, unless the client is closed first: src/README_old.md:126
\* promises more, but close(), also the one at the end of drain(), clears the
\* timers and leaves the promises (muxsubscriptions.ts 58-74).
EverySettles ==
    \A t \in Tokens :
        promise[t] = "pending" ~> promise[t] # "pending" \/ conn = "closed"
=============================================================================
