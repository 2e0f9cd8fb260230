--------------------------- MODULE RequestsProofs ---------------------------
(***************************************************************************)
(* Proofs about Requests, for every bound: pending promises are exactly the *)
(* ones that have an entry and a timer; requests implement Promises; a      *)
(* request follows the SUB of its inbox; and the types.                     *)
(*                                                                          *)
(* The first two need nothing of the queues of commands (RequestsInv): what *)
(* the server is sent does not matter, only what it sends.  The others add  *)
(* Ordered, which is about little else.                                     *)
(***************************************************************************)
EXTENDS Requests, QueueLemmas, TLAPS

Outcomes == {"none", "pending", "resolved", "rejected"}

\* The types of what the promises depend on.
MuxTypes ==
    /\ reqs \subseteq Tokens
    /\ promise \in [Tokens -> Outcomes]
    /\ requested \in 0..MaxRequests
    /\ received \in [Tokens -> Nat]
    /\ toClient \in Seq(Replies)
    /\ answered \subseteq Tokens

\* Tokens not yet given out.
Unused == \A t \in Tokens : t > requested <=> promise[t] = "none"

\* What a reply on its way says.
RepliesAreAnswers ==
    \A i \in 1..Len(toClient) : toClient[i].op = "MSG" => toClient[i].token \in answered

\* No PONG is expected by a closed client.
NoCallbacks == conn = "closed" => pongs = <<>>

RequestsInv == MuxTypes /\ Unused /\ RepliesAreAnswers /\ NoCallbacks /\ PendingIsTracked

-----------------------------------------------------------------------------
LEMMA InitHolds == Init => RequestsInv
BY RequestsAssumption DEF Init, RequestsInv, NoCallbacks, MuxTypes, Unused, RepliesAreAnswers,
    PendingIsTracked, Outcomes, Tokens

\* A queue of replies that loses its head or gets an answer or a PONG.
LEMMA RepliesKept ==
    ASSUME MuxTypes, RepliesAreAnswers,
           answered \subseteq answered', answered' \subseteq Tokens,
           \/ toClient' = toClient
           \/ toClient' = <<>>
           \/ toClient # <<>> /\ toClient' = Tail(toClient)
           \/ toClient' = Append(toClient, Pong)
           \/ \E t \in answered', valid \in BOOLEAN :
                 toClient' = Append(toClient, Reply(t, valid))
    PROVE  toClient' \in Seq(Replies) /\ RepliesAreAnswers'
<1>1. CASE toClient' = toClient
  BY <1>1 DEF MuxTypes, RepliesAreAnswers
<1>2. CASE toClient' = <<>>
  <2>1. toClient' \in Seq(Replies) /\ Len(toClient') = 0
    BY <1>2
  <2> QED
    BY <2>1 DEF RepliesAreAnswers
<1>3. CASE toClient # <<>> /\ toClient' = Tail(toClient)
  BY <1>3 DEF MuxTypes, RepliesAreAnswers
<1>4. CASE toClient' = Append(toClient, Pong)
  <2>1. Pong \in Replies /\ Pong.op # "MSG"
    BY DEF Pong, Replies
  <2> QED
    BY <1>4, <2>1 DEF MuxTypes, RepliesAreAnswers
<1>5. ASSUME NEW t \in answered', NEW valid \in BOOLEAN,
             toClient' = Append(toClient, Reply(t, valid))
      PROVE  toClient' \in Seq(Replies) /\ RepliesAreAnswers'
  <2>1. Reply(t, valid) \in Replies /\ Reply(t, valid).token = t
    BY DEF Reply, Replies
  <2> QED
    BY <1>5, <2>1 DEF MuxTypes, RepliesAreAnswers
<1> QED
  BY <1>1, <1>2, <1>3, <1>4, <1>5, Zenon

-----------------------------------------------------------------------------
(* The steps                                                                *)

\* A step that makes no request and settles no promise.
LEMMA Idle ==
    ASSUME RequestsInv, UNCHANGED <<reqs, timer, promise, requested>>,
           received' \in [Tokens -> Nat],
           conn' = "closed" <=> conn = "closed", NoCallbacks',
           toClient' \in Seq(Replies), RepliesAreAnswers',
           answered' \subseteq Tokens
    PROVE  RequestsInv'
BY DEF RequestsInv, MuxTypes, Unused, PendingIsTracked, Tokens

\* A step of a client whose promise t leaves the state before with its entry.
LEMMA Settling ==
    ASSUME RequestsInv, NEW t \in reqs, NEW outcome \in {"resolved", "rejected"},
           promise' = Settled(t, outcome), Cancel({t}),
           UNCHANGED <<requested, conn, pongs, answered>>,
           received' \in [Tokens -> Nat],
           toClient' \in Seq(Replies), RepliesAreAnswers'
    PROVE  RequestsInv'
<1>1. t \in Tokens /\ promise[t] = "pending" /\ conn # "closed"
  BY DEF RequestsInv, PendingIsTracked
<1>2. promise' = [promise EXCEPT ![t] = outcome]
  BY <1>1 DEF Settled, RequestsInv, MuxTypes
<1> QED
  BY <1>1, <1>2 DEF RequestsInv, MuxTypes, Unused, NoCallbacks, PendingIsTracked,
                    Cancel, Outcomes

LEMMA RequestStep == RequestsInv /\ Request => RequestsInv'
<1> SUFFICES ASSUME RequestsInv, Request PROVE RequestsInv'
  OBVIOUS
<1> DEFINE t == requested + 1
<1>1. /\ t \in Tokens /\ requested' = t /\ promise[t] = "none"
      /\ UNCHANGED <<received, conn, pongs, toClient, answered>>
  BY RequestsAssumption
  DEF Request, RequestsInv, MuxTypes, Unused, Tokens, server, history
<1> NoCallbacks'
  BY <1>1 DEF RequestsInv, NoCallbacks
<1>2. t \notin reqs
  BY <1>1 DEF RequestsInv, PendingIsTracked
<1>3. ASSUME NEW p \in {"pending", "rejected"}, promise' = [promise EXCEPT ![t] = p]
      PROVE  promise' \in [Tokens -> Outcomes] /\ Unused' /\ RepliesAreAnswers'
  BY <1>1, <1>3 DEF RequestsInv, MuxTypes, Unused, RepliesAreAnswers, Outcomes, Tokens
<1>4. CASE RequestRefused \/ RequestUnsent
  <2>1. promise' = [promise EXCEPT ![t] = "rejected"] /\ UNCHANGED <<reqs, timer>>
    BY <1>4 DEF RequestRefused, RequestUnsent
  <2>2. PendingIsTracked'
    BY <1>1, <1>2, <2>1 DEF RequestsInv, MuxTypes, PendingIsTracked
  <2> QED
    BY <1>1, <1>3, <2>1, <2>2 DEF RequestsInv, MuxTypes, Tokens
<1>5. CASE RequestSent
  <2>1. /\ promise' = [promise EXCEPT ![t] = "pending"] /\ conn # "closed"
        /\ reqs' = reqs \cup {t} /\ timer' = timer \cup {t}
    BY <1>5 DEF RequestSent, Add
  <2>2. PendingIsTracked'
    BY <1>1, <1>2, <2>1 DEF RequestsInv, MuxTypes, PendingIsTracked
  <2> QED
    BY <1>1, <1>3, <2>1, <2>2 DEF RequestsInv, MuxTypes, Tokens
<1> QED
  BY <1>4, <1>5 DEF Request

LEMMA TimeoutStep == \A t \in Tokens : RequestsInv /\ Timeout(t) => RequestsInv'
<1> SUFFICES ASSUME NEW t \in Tokens, RequestsInv, Timeout(t) PROVE RequestsInv'
  OBVIOUS
<1>1. t \in reqs
  BY DEF Timeout, RequestsInv, PendingIsTracked
<1>2. UNCHANGED <<received, toClient, requested, conn, pongs, answered>>
  BY DEF Timeout, client, server, history
<1>3. received' \in [Tokens -> Nat] /\ toClient' \in Seq(Replies) /\ RepliesAreAnswers'
  BY <1>2 DEF RequestsInv, MuxTypes, RepliesAreAnswers
<1> QED
  BY <1>1, <1>2, <1>3, Settling DEF Timeout

LEMMA ReceiveMsgStep == RequestsInv /\ ReceiveMsg => RequestsInv'
<1> SUFFICES ASSUME RequestsInv, ReceiveMsg PROVE RequestsInv'
  OBVIOUS
<1> DEFINE t == Head(toClient).token
           valid == Head(toClient).valid
<1>1. UNCHANGED <<requested, conn, pongs, answered>>
  BY DEF ReceiveMsg, client, history
<1>2. toClient' \in Seq(Replies) /\ RepliesAreAnswers'
  BY <1>1, RepliesKept DEF ReceiveMsg, RequestsInv, MuxTypes
<1>3. CASE UNCHANGED <<reqs, timer, received, promise>>
  BY <1>1, <1>2, <1>3, Idle DEF RequestsInv, MuxTypes, NoCallbacks
<1>4. CASE t \in reqs /\ Dispatch(t, valid)
  <2>1. promise' = Settled(t, IF valid THEN "resolved" ELSE "rejected")
    BY <1>4 DEF Dispatch
  <2>2. /\ received' \in [Tokens -> Nat]
        /\ received'[t] >= MaxReplies
    BY <1>4 DEF Dispatch, RequestsInv, MuxTypes, MaxReplies
  <2>3. Cancel({t})
    BY <1>4, <2>2 DEF Dispatch
  <2> QED
    BY <1>1, <1>2, <1>4, <2>1, <2>2, <2>3, Settling
<1> QED
  BY <1>3, <1>4 DEF ReceiveMsg, Dispatch

LEMMA CloseStep == RequestsInv /\ Closed => RequestsInv'
<1> SUFFICES ASSUME RequestsInv, Closed PROVE RequestsInv'
  OBVIOUS
<1>1. /\ UNCHANGED <<received, promise, requested, answered>>
      /\ conn' = "closed" /\ toClient' = <<>> /\ pongs' = <<>>
      /\ reqs' = {} /\ timer' = {}
  BY DEF Closed, Cancel, history, RequestsInv, PendingIsTracked
<1>2. toClient' \in Seq(Replies) /\ RepliesAreAnswers'
  BY <1>1, RepliesKept DEF RequestsInv, MuxTypes
<1> QED
  BY <1>1, <1>2 DEF RequestsInv, MuxTypes, Unused, NoCallbacks, PendingIsTracked, Tokens

\* Steps in which only the queues and the connection move.
MovesQueues ==
    /\ UNCHANGED <<reqs, received, timer, promise, requested>>
    /\ conn' = "closed" <=> conn = "closed"
    /\ NoCallbacks'
    /\ answered \subseteq answered' /\ answered' \subseteq Tokens
    /\ \/ toClient' = toClient
       \/ toClient' = <<>>
       \/ toClient # <<>> /\ toClient' = Tail(toClient)
       \/ toClient' = Append(toClient, Pong)
       \/ \E t \in answered', valid \in BOOLEAN :
             toClient' = Append(toClient, Reply(t, valid))

LEMMA MovesQueuesStep == RequestsInv /\ MovesQueues => RequestsInv'
<1> SUFFICES ASSUME RequestsInv, MovesQueues PROVE RequestsInv'
  OBVIOUS
<1>1. toClient' \in Seq(Replies) /\ RepliesAreAnswers'
  BY RepliesKept DEF RequestsInv, MovesQueues
<1> QED
  BY <1>1, Idle DEF MovesQueues, RequestsInv, MuxTypes

LEMMA Moves ==
    ASSUME RequestsInv,
           \/ Drain \/ DrainFlush \/ FlushPending \/ ReceiveInfo
           \/ toClient # <<>> /\ pongs # <<>> /\ (HandshakeDone \/ MuxDrained)
           \/ Lose \/ Redial \/ Dialed \/ ServerRead
           \/ \E t \in Tokens : Answer(t)
    PROVE  MovesQueues
<1> USE DEF MovesQueues, muxVars, client, server, history
<1>0. answered \subseteq Tokens /\ NoCallbacks
  BY DEF RequestsInv, MuxTypes
<1>1. CASE Drain \/ DrainFlush \/ FlushPending
  BY <1>0, <1>1 DEF Drain, DrainFlush, FlushPending, NoCallbacks
<1>2. CASE ReceiveInfo \/ Lose \/ Redial \/ Dialed
  BY <1>0, <1>2 DEF ReceiveInfo, Lose, Redial, Dialed, NoCallbacks
<1>3. CASE toClient # <<>> /\ pongs # <<>> /\ HandshakeDone
  BY <1>0, <1>3 DEF HandshakeDone, NoCallbacks
<1>4. CASE toClient # <<>> /\ pongs # <<>> /\ MuxDrained
  BY <1>0, <1>4 DEF MuxDrained, NoCallbacks
<1>5. CASE ServerRead
  BY <1>0, <1>5 DEF ServerRead, NoCallbacks
<1>6. ASSUME NEW t \in Tokens, Answer(t) PROVE MovesQueues
  BY <1>0, <1>6 DEF Answer, NoCallbacks
<1> QED
  BY <1>1, <1>2, <1>3, <1>4, <1>5, <1>6

-----------------------------------------------------------------------------
(* The theorems                                                             *)

LEMMA Step == RequestsInv /\ [Next]_vars => RequestsInv'
<1> SUFFICES ASSUME RequestsInv, [Next]_vars PROVE RequestsInv'
  OBVIOUS
<1>1. CASE Request
  BY <1>1, RequestStep
<1>2. ASSUME NEW t \in Tokens, Timeout(t) PROVE RequestsInv'
  BY <1>2, TimeoutStep
<1>3. CASE ReceiveMsg
  BY <1>3, ReceiveMsgStep
<1>4. CASE Closed
  BY <1>4, CloseStep
<1>5. CASE MovesQueues
  BY <1>5, MovesQueuesStep
<1>6. CASE UNCHANGED vars
  BY <1>6 DEF vars, muxVars, client, server, history, RequestsInv, MuxTypes, Unused,
     RepliesAreAnswers, NoCallbacks, PendingIsTracked, Tokens
<1> QED
  BY <1>1, <1>2, <1>3, <1>4, <1>5, <1>6, Moves DEF Next, Reading, ReceivePong, Close

\* A pending promise has its entry in the multiplexer and its timer, and no
\* entry or timer outlives its promise (nats.ts 489-522).
THEOREM NoRequestForgotten == Spec => []PendingIsTracked
<1>1. RequestsInv => PendingIsTracked
  BY DEF RequestsInv
<1> QED
  BY InitHolds, Step, <1>1, PTL DEF Spec

LEMMA ContractStep == RequestsInv /\ [Next]_vars => [Contract!Next]_(Contract!vars)
<1> SUFFICES ASSUME RequestsInv, [Next]_vars PROVE [Contract!Next]_(Contract!vars)
  OBVIOUS
<1> USE DEF Contract!Next, Contract!vars
<1>1. CASE Request
  <2>1. /\ requested + 1 \in Tokens /\ promise[requested + 1] = "none"
        /\ answered' = answered
        /\ \/ promise' = [promise EXCEPT ![requested + 1] = "rejected"]
           \/ promise' = [promise EXCEPT ![requested + 1] = "pending"]
    BY <1>1, RequestsAssumption DEF Request, RequestRefused, RequestUnsent, RequestSent,
       RequestsInv, MuxTypes, Unused, Tokens, history
  <2> QED
    BY <2>1 DEF Contract!Ask
<1>2. ASSUME NEW t \in Tokens, Timeout(t) PROVE Contract!Reject
  <2>1. promise[t] = "pending" /\ answered' = answered
    BY <1>2 DEF Timeout, RequestsInv, PendingIsTracked, history
  <2> QED
    BY <1>2, <2>1 DEF Timeout, Settled, Contract!Reject
<1>3. CASE ReceiveMsg
  <2> DEFINE t == Head(toClient).token
             valid == Head(toClient).valid
  <2>1. answered' = answered
    BY <1>3 DEF ReceiveMsg, history
  <2>2. CASE promise' = promise
    BY <2>1, <2>2
  <2>3. CASE t \in reqs /\ Dispatch(t, valid)
    <3>1. t \in Tokens /\ promise[t] = "pending" /\ t \in answered
      BY <1>3, <2>3 DEF ReceiveMsg, RequestsInv, MuxTypes, RepliesAreAnswers,
         PendingIsTracked
    <3>2. promise' = [promise EXCEPT ![t] = IF valid THEN "resolved" ELSE "rejected"]
      BY <2>3, <3>1 DEF Dispatch, Settled
    <3> QED
      BY <2>1, <3>1, <3>2 DEF Contract!Resolve, Contract!Reject
  <2> QED
    BY <1>3, <2>2, <2>3 DEF ReceiveMsg, Dispatch
<1>4. CASE Closed
  BY <1>4 DEF Closed, history
<1>5. ASSUME NEW t \in Tokens, Answer(t) PROVE Contract!Answer
  BY <1>5 DEF Answer, muxVars, Contract!Answer
<1>6. CASE \/ Drain \/ DrainFlush \/ FlushPending \/ ReceiveInfo \/ HandshakeDone
           \/ MuxDrained \/ Lose \/ Redial \/ Dialed \/ ServerRead
  BY <1>6 DEF Drain, DrainFlush, FlushPending, ReceiveInfo, HandshakeDone, MuxDrained,
     Lose, Redial, Dialed, ServerRead, muxVars, history
<1>7. CASE UNCHANGED vars
  BY <1>7 DEF vars, muxVars, history
<1> QED
  BY <1>1, <1>2, <1>3, <1>4, <1>5, <1>6, <1>7 DEF Next, Reading, ReceivePong, Close

\* A promise settles at most once, and resolves only with an answer that was
\* given to its own request: no late, repeated or invalid reply to another
\* request settles it (muxsubscriptions.ts 87-102, nats.ts 503-513).
THEOREM RequestsImplementPromises == Spec => ImplementsPromises
<1>1. Init => Contract!Init
  BY DEF Init, Contract!Init
<1> QED
  BY InitHolds, Step, ContractStep, <1>1, PTL DEF Spec, ImplementsPromises, Contract!Spec

-----------------------------------------------------------------------------
(* The queues of commands                                                   *)

Callbacks == {"handshake", "mux", "drain"}

QueueTypes ==
    /\ outbound \in Seq(Commands) /\ toServer \in Seq(Commands) /\ pongs \in Seq(Callbacks)
    /\ mux \in {"none", "live", "gone"}
    /\ conn \in {"down", "dialing", "tcp", "info", "ready", "closed"}
    /\ infoReceived \in BOOLEAN /\ draining \in BOOLEAN /\ noMorePublishing \in BOOLEAN
    /\ serverMux \in BOOLEAN
    /\ asked \subseteq Tokens /\ early \subseteq Tokens
    /\ answers \in 0..MaxAnswers /\ epoch \in 1..MaxFaults + 1

\* A reply is counted when it settles a request.
Counted ==
    /\ received \in [Tokens -> 0..MaxReplies]
    /\ \A t \in Tokens : promise[t] \in {"none", "pending"} => received[t] = 0

\* Nothing is flushed before INFO, and nothing is on a connection that is gone.
NothingAhead ==
    /\ conn \in {"dialing", "tcp"} => ~infoReceived
    /\ conn \in {"down", "dialing", "tcp", "closed"} => toServer = << >>
    /\ conn = "closed" => outbound = << >>

\* The callback of the handshake is the first one and waits for its PONG.
HandshakeFirst ==
    \A i \in DOMAIN pongs :
        /\ pongs[i] = "handshake" => i = 1 /\ conn = "info"
        /\ pongs[i] = "mux" => draining

Issued == ToSet(toServer) \cup ToSet(outbound)

\* No request before the mux, no UNSUB and no end of the mux before drain().
MuxKnown ==
    /\ mux = "none" => \A t \in Tokens : Pub(t) \notin Issued
    /\ mux = "gone" => draining \/ conn = "closed"
    /\ ~draining => Command("UNSUB") \notin Issued

\* What is written between INFO and PONG.
EarlyWritten ==
    conn = "info" => \A t \in Tokens : Pub(t) \in ToSet(toServer) => t \in early

\* A request in q that is not in E follows a SUB.
Heralded(q, E) ==
    \A i \in DOMAIN q :
        q[i].op = "PUB" /\ q[i].token \notin E => \E j \in 1..i-1 : q[j].op = "SUB"

\* On a connection that is ready the SUB of the mux has been read, or it is on
\* its way before the requests.
InboxAhead ==
    conn = "ready" /\ ~draining =>
        \/ serverMux
        \/ /\ Heralded(Cat(toServer, outbound), early)
           /\ mux = "live" => Command("SUB") \in Issued

OrderInv == NothingAhead /\ HandshakeFirst /\ MuxKnown /\ EarlyWritten /\ InboxAhead

-----------------------------------------------------------------------------
(* What the operations do to a queue                                        *)

LEMMA CommandsAre ==
    /\ Command("SUB") \in Commands /\ Command("UNSUB") \in Commands /\ Command("PING") \in Commands
    /\ \A t \in Tokens : Pub(t) \in Commands /\ Pub(t).op = "PUB" /\ Pub(t).token = t
    /\ \A c \in Commands : c.op = "SUB" => c = Command("SUB")
    /\ \A c \in Commands : c.op = "UNSUB" => c = Command("UNSUB")
    /\ \A c \in Commands : c.op = "PUB" => c.token \in Tokens /\ c = Pub(c.token)
    /\ \A t \in Tokens : Pub(t) # Command("SUB") /\ Pub(t) # Command("UNSUB") /\ Pub(t) # Command("PING")
    /\ Command("SUB") # Command("UNSUB") /\ Command("PING") # Command("UNSUB")
    /\ Command("PING") # Command("SUB") /\ Command("PING").op = "PING" /\ Command("SUB").op = "SUB"
    /\ Command("UNSUB").op = "UNSUB"
<1>1. \A op \in {"SUB", "UNSUB", "PING"} :
        Command(op) \in Commands /\ Command(op).op = op
  BY DEF Commands, Command
<1>2. \A t \in Tokens : Pub(t) \in Commands /\ Pub(t).op = "PUB" /\ Pub(t).token = t
  BY DEF Commands, Pub
<1>3. ASSUME NEW c \in Commands
      PROVE  \/ \E op \in {"SUB", "UNSUB", "PING"} : c = Command(op) /\ c.op = op
             \/ \E t \in Tokens : c = Pub(t) /\ c.op = "PUB" /\ c.token = t
  BY <1>1, <1>2 DEF Commands
<1> HIDE DEF Command, Pub, Commands
<1>4. \A c \in Commands :
        /\ c.op = "SUB" => c = Command("SUB")
        /\ c.op = "UNSUB" => c = Command("UNSUB")
        /\ c.op = "PUB" => c.token \in Tokens /\ c = Pub(c.token)
  BY <1>3
<1> QED
  BY <1>1, <1>2, <1>4

\* A command is put behind others.
LEMMA HeraldedAppend ==
    ASSUME NEW q \in Seq(Commands), NEW c \in Commands, NEW E, Heralded(q, E),
           c.op = "PUB" => Command("SUB") \in ToSet(q)
    PROVE  Heralded(Append(q, c), E)
<1>1. PICK n \in Nat : n = Len(q) /\ DOMAIN q = 1..n
  OBVIOUS
<1>2. PICK a \in Seq(Commands) : a = Append(q, c) /\ DOMAIN a = 1..(n + 1) /\ a[n + 1] = c
                                 /\ \A i \in 1..n : a[i] = q[i]
  <2>1. /\ Append(q, c) \in Seq(Commands) /\ DOMAIN Append(q, c) = 1..(n + 1)
        /\ Append(q, c)[n + 1] = c /\ \A i \in 1..n : Append(q, c)[i] = q[i]
    BY <1>1
  <2> QED
    BY <2>1, Zenon
<1>3. ASSUME NEW i \in 1..(n + 1), a[i].op = "PUB", a[i].token \notin E
      PROVE  \E j \in 1..i-1 : a[j].op = "SUB"
  <2>1. CASE i \in 1..n
    <3>1. q[i].op = "PUB" /\ q[i].token \notin E
      BY <1>2, <1>3, <2>1, Zenon
    <3>2. PICK j \in 1..i-1 : q[j].op = "SUB"
      BY <1>1, <2>1, <3>1, Zenon DEF Heralded
    <3>3. j \in 1..n
      BY <2>1
    <3>4. a[j] = q[j]
      BY <1>2, <3>3, Zenon
    <3> QED
      BY <3>2, <3>4, Zenon
  <2>2. CASE i = n + 1
    <3>1. Command("SUB") \in ToSet(q)
      BY <1>2, <1>3, <2>2
    <3>2. PICK j \in 1..n : q[j] = Command("SUB")
      BY <1>1, <3>1, ToSetIs, Zenon
    <3>3. a[j].op = "SUB"
      BY <1>2, <3>2, CommandsAre, Zenon
    <3>4. j \in 1..i-1
      BY <2>2
    <3> QED
      BY <3>3, <3>4, Zenon
  <2> QED
    BY <2>1, <2>2
<1> QED
  BY <1>2, <1>3, Zenon DEF Heralded

\* The head of a queue is gone.
LEMMA HeraldedTail ==
    ASSUME NEW q \in Seq(Commands), q # << >>, NEW E, Heralded(q, E), Head(q).op # "SUB"
    PROVE  Heralded(Tail(q), E)
<1>1. PICK n \in Nat : n + 1 = Len(q) /\ DOMAIN q = 1..(n + 1)
  <2>1. Len(q) - 1 \in Nat /\ (Len(q) - 1) + 1 = Len(q) /\ DOMAIN q = 1..Len(q)
    OBVIOUS
  <2> QED
    BY <2>1
<1>2. PICK r : r = Tail(q) /\ DOMAIN r = 1..n /\ \A i \in 1..n : r[i] = q[i + 1]
  <2>1. DOMAIN Tail(q) = 1..n /\ \A i \in 1..n : Tail(q)[i] = q[i + 1]
    BY <1>1
  <2> QED
    BY <2>1, Zenon
<1>3. ASSUME NEW i \in 1..n, r[i].op = "PUB", r[i].token \notin E
      PROVE  \E j \in 1..i-1 : r[j].op = "SUB"
  <2>1. PICK k \in 1..(n + 1) : k = i + 1
    OBVIOUS
  <2>2. q[k].op = "PUB" /\ q[k].token \notin E
    BY <1>2, <1>3, <2>1
  <2>3. PICK j \in 1..k-1 : q[j].op = "SUB"
    BY <1>1, <2>2, Zenon DEF Heralded
  <2>4. j # 1
    BY <1>1, <2>3
  <2>5. PICK l \in 1..i-1 : j = l + 1
    <3>1. j - 1 \in 1..i-1 /\ j = (j - 1) + 1
      BY <2>1, <2>4
    <3> QED
      BY <3>1
  <2>6. l \in 1..n
    OBVIOUS
  <2>7. r[l] = q[j]
    BY <1>2, <2>5, <2>6
  <2> QED
    BY <2>3, <2>7
<1> QED
  BY <1>2, <1>3, Zenon DEF Heralded

\* Only requests of E, the SUB, then anything.
LEMMA HeraldedBySub ==
    ASSUME NEW p \in Seq(Commands), NEW q \in Seq(Commands), NEW E,
           \A t \in Tokens : Pub(t) \in ToSet(p) => t \in E
    PROVE  Heralded(Cat(Cat(p, <<Command("SUB")>>), q), E)
<1>1. PICK m \in Nat : m = Len(p) /\ DOMAIN p = 1..m
  OBVIOUS
<1>2. PICK a \in Seq(Commands) : /\ a = p \o <<Command("SUB")>> /\ Len(a) = m + 1 /\ a[m + 1] = Command("SUB")
                                 /\ \A i \in 1..m : a[i] = p[i]
  <2>1. /\ p \o <<Command("SUB")>> \in Seq(Commands) /\ Len(p \o <<Command("SUB")>>) = m + 1
        /\ (p \o <<Command("SUB")>>)[m + 1] = Command("SUB")
        /\ \A i \in 1..m : (p \o <<Command("SUB")>>)[i] = p[i]
    <3>1. Command("SUB") \in Commands
      BY CommandsAre
    <3> HIDE DEF Command
    <3> QED
      BY <1>1, <3>1
  <2> QED
    BY <2>1, Zenon
<1>3. PICK n \in Nat : n = Len(q)
  OBVIOUS
<1>4. PICK z : z = a \o q /\ DOMAIN z = 1..((m + 1) + n) /\ \A i \in 1..(m + 1) : z[i] = a[i]
  <2>1. DOMAIN (a \o q) = 1..((m + 1) + n) /\ \A i \in 1..(m + 1) : (a \o q)[i] = a[i]
    <3>0. m + 1 \in Nat /\ (m + 1) + n \in Nat
      OBVIOUS
    <3>1. a \in OfLength(Commands, m + 1) /\ q \in OfLength(Commands, n)
      BY <1>2, <1>3, <3>0, SeqOfLength, Zenon
    <3>2. Cat(a, q) = a \o q
      BY DEF Cat
    <3>3. /\ Cat(a, q) \in OfLength(Commands, (m + 1) + n)
          /\ \A i \in 1..(m + 1) : Cat(a, q)[i] = a[i]
      BY <3>1, CatIs
    <3>4. DOMAIN Cat(a, q) = 1..((m + 1) + n)
      BY <3>0, <3>3, LengthOf, Zenon
    <3> QED
      BY <3>2, <3>3, <3>4, Zenon
  <2> QED
    BY <2>1, Zenon
<1>5. z[m + 1].op = "SUB"
  <2>1. m + 1 \in 1..(m + 1)
    OBVIOUS
  <2> QED
    BY <1>2, <1>4, <2>1, CommandsAre, Zenon
<1>6. ASSUME NEW i \in 1..((m + 1) + n), z[i].op = "PUB", z[i].token \notin E
      PROVE  \E j \in 1..i-1 : z[j].op = "SUB"
  <2>1. CASE i > m + 1
    <3>1. m + 1 \in 1..i-1
      BY <2>1
    <3> QED
      BY <1>5, <3>1
  <2>2. CASE i = m + 1
    BY <1>5, <1>6, <2>2
  <2>3. CASE i \in 1..m
    <3>1. z[i] = p[i] /\ p[i] \in ToSet(p) /\ p[i] \in Commands
      <4>1. i \in 1..(m + 1)
        BY <2>3
      <4>2. z[i] = p[i]
        BY <1>2, <1>4, <2>3, <4>1, Zenon
      <4>3. p[i] \in Commands
        BY <1>1, <2>3
      <4>4. p[i] \in ToSet(p)
        BY <1>1, <2>3, ToSetIs, Zenon
      <4> QED
        BY <4>2, <4>3, <4>4
    <3>2. p[i].token \in Tokens /\ p[i] = Pub(p[i].token)
      BY <1>6, <3>1, CommandsAre
    <3>3. p[i].token \in E
      BY <3>1, <3>2, Zenon
    <3> QED
      BY <1>6, <3>1, <3>3
  <2> QED
    BY <2>1, <2>2, <2>3
<1>7. z = Cat(Cat(p, <<Command("SUB")>>), q)
  BY <1>2, <1>4, Zenon DEF Cat
<1> QED
  BY <1>4, <1>6, <1>7, Zenon DEF Heralded
-----------------------------------------------------------------------------
(* The steps keep the types and the order of the commands                   *)

LEMMA CountedStep ==
    ASSUME RequestsInv, Counted, [Next]_vars
    PROVE  Counted'
<1> USE DEF muxVars, Counted
<1>0. /\ received \in [Tokens -> {0, 1}] /\ promise \in [Tokens -> Outcomes]
      /\ \A t \in Tokens : t \in reqs => received[t] = 0
  BY DEF MaxReplies, RequestsInv, MuxTypes, PendingIsTracked
<1>1. CASE UNCHANGED <<received, promise>>
  BY <1>1
<1>2. CASE Request
  <2>1. PICK t \in Tokens : promise[t] = "none" /\ \E p : promise' = [promise EXCEPT ![t] = p]
    <3>1. requested + 1 \in Tokens /\ promise[requested + 1] = "none"
      BY <1>2, RequestsAssumption DEF Request, RequestsInv, MuxTypes, Unused, Tokens
    <3> QED
      BY <1>2, <3>1 DEF Request, RequestRefused, RequestUnsent, RequestSent
  <2>2. received' = received /\ received[t] = 0
    BY <1>2, <2>1 DEF Request
  <2> QED
    BY <1>0, <2>1, <2>2
<1>3. ASSUME NEW t \in Tokens, NEW outcome \in {"resolved", "rejected"},
             promise' = Settled(t, outcome),
             \/ received' = received
             \/ t \in reqs /\ received' = [received EXCEPT ![t] = @ + 1]
      PROVE  Counted'
  <2>1. \A u \in Tokens : u # t => promise'[u] = promise[u] /\ received'[u] = received[u]
    BY <1>0, <1>3 DEF Settled
  <2>2. promise'[t] \in {"none", "pending"} => promise[t] = promise'[t] /\ t \notin reqs
    BY <1>0, <1>3 DEF Settled, RequestsInv, PendingIsTracked
  <2>3. received' \in [Tokens -> {0, 1}]
    BY <1>0, <1>3
  <2> QED
    BY <2>1, <2>2, <2>3, <1>3 DEF MaxReplies
<1>4. ASSUME NEW t \in Tokens, Timeout(t) PROVE Counted'
  BY <1>3, <1>4 DEF Timeout
<1>5. CASE ReceiveMsg
  <2> DEFINE t == Head(toClient).token
             valid == Head(toClient).valid
  <2>1. CASE t \in reqs /\ Dispatch(t, valid)
    <3>1. t \in Tokens
      BY <2>1 DEF RequestsInv, MuxTypes
    <3> HIDE DEF t, valid
    <3> QED
      BY <1>3, <2>1, <3>1 DEF Dispatch
  <2> QED
    BY <1>1, <1>5, <2>1 DEF ReceiveMsg, Dispatch
<1>6. CASE Closed
  BY <1>1, <1>6 DEF Closed
<1>7. CASE UNCHANGED muxVars
  BY <1>1, <1>7
<1>8. CASE HandshakeDone \/ MuxDrained
  BY <1>1, <1>8 DEF HandshakeDone, MuxDrained
<1> QED
  BY <1>2, <1>4, <1>5, <1>6, <1>7, <1>8 DEF Next, Reading, ReceivePong, Close, vars, Drain, DrainFlush,
     FlushPending, ReceiveInfo, Lose, Redial, Dialed, ServerRead, Answer

\* Commands appended to a buffer.
LEMMA Put ==
    ASSUME NEW q \in Seq(Commands), NEW c \in Commands
    PROVE  Append(q, c) \in Seq(Commands) /\ ToSet(Append(q, c)) = ToSet(q) \cup {c}
<1>1. Append(q, c) \in Seq(Commands)
  <2> HIDE DEF Commands
  <2> QED
    OBVIOUS
<1> QED
  BY <1>1, InAppend

LEMMA InitMuxIs ==
    ASSUME QueueTypes
    PROVE  /\ InitMux \in Seq(Commands)
           /\ ToSet(InitMux) = ToSet(outbound) \cup IF mux = "none" THEN {Command("SUB")} ELSE {}
<1>1. Append(outbound, Command("SUB")) \in Seq(Commands)
      /\ ToSet(Append(outbound, Command("SUB"))) = ToSet(outbound) \cup {Command("SUB")}
  BY Put, CommandsAre, Zenon DEF QueueTypes
<1>2. outbound \in Seq(Commands)
  BY DEF QueueTypes
<1>3. CASE mux = "none"
  BY <1>1, <1>3, Zenon DEF InitMux
<1>4. CASE mux # "none"
  BY <1>2, <1>4, Zenon DEF InitMux
<1> QED
  BY <1>3, <1>4, Zenon

Ordered == QueueTypes /\ OrderInv

\* Steps that leave the connection and the commands alone.
LEMMA Unmoved ==
    ASSUME Ordered, UNCHANGED <<client, toServer, serverMux, asked, mux, early, epoch>>,
           answers' \in 0..MaxAnswers
    PROVE  Ordered'
<1> USE DEF client
<1>1. QueueTypes'
  BY DEF Ordered, QueueTypes
<1>2. NothingAhead' /\ HandshakeFirst' /\ EarlyWritten'
  BY DEF Ordered, OrderInv, NothingAhead, HandshakeFirst, EarlyWritten
<1>3. MuxKnown' /\ InboxAhead'
  BY Zenon DEF Ordered, OrderInv, MuxKnown, InboxAhead, Issued
<1> QED
  BY <1>1, <1>2, <1>3 DEF Ordered, OrderInv

\* The elements of the commands on their way.
LEMMA LineIs ==
    ASSUME QueueTypes
    PROVE  Cat(toServer, outbound) \in Seq(Commands) /\ ToSet(Cat(toServer, outbound)) = Issued
<1>1. ToSet(toServer \o outbound) = ToSet(toServer) \cup ToSet(outbound)
  BY InConcat DEF QueueTypes
<1> QED
  BY <1>1, CatSeq, Zenon DEF Issued, Cat, QueueTypes

\* A request is put behind the SUB of the mux.
LEMMA RequestOrdered ==
    ASSUME RequestsInv, Ordered, Request
    PROVE  Ordered'
<1> USE DEF client, server, history
<1>1. CASE RequestRefused
  <2>1. answers' \in 0..MaxAnswers
    BY <1>1 DEF Request, Ordered, QueueTypes
  <2>2. UNCHANGED <<client, toServer, serverMux, asked, mux, early, epoch>>
    BY <1>1 DEF Request, RequestRefused
  <2> QED
    BY <2>1, <2>2, Unmoved, Zenon
<1>2. CASE RequestUnsent \/ RequestSent
  <2>1. PICK t \in Tokens : t = requested + 1
    BY RequestsAssumption DEF Request, RequestsInv, MuxTypes, Tokens
  <2>2. /\ mux' = "live" /\ conn # "closed" /\ ~draining
        /\ \/ outbound' = InitMux
           \/ outbound' = Append(InitMux, Pub(t))
        /\ UNCHANGED <<conn, infoReceived, draining, noMorePublishing, pongs, server, history>>
    BY <1>2, <2>1 DEF Request, RequestUnsent, RequestSent
  <2>3. QueueTypes /\ NothingAhead /\ HandshakeFirst /\ MuxKnown /\ EarlyWritten /\ InboxAhead
    BY DEF Ordered, OrderInv
  <2>4. PICK m \in Seq(Commands) :
          /\ m = InitMux
          /\ ToSet(m) = ToSet(outbound) \cup IF mux = "none" THEN {Command("SUB")} ELSE {}
    BY <2>3, InitMuxIs, Zenon
  <2>5. PICK a \in Seq(Commands) : a = Append(m, Pub(t)) /\ ToSet(a) = ToSet(m) \cup {Pub(t)}
    BY Put, CommandsAre, Zenon
  <2>6. outbound' \in Seq(Commands) /\ ToSet(outbound') \subseteq Issued \cup {Command("SUB"), Pub(t)}
    BY <2>2, <2>4, <2>5 DEF Issued
  <2>7. QueueTypes'
    BY <2>2, <2>3, <2>6 DEF QueueTypes
  <2>8. NothingAhead' /\ HandshakeFirst' /\ EarlyWritten'
    BY <2>2, <2>3 DEF NothingAhead, HandshakeFirst, EarlyWritten
  <2>9. MuxKnown'
    <3>1. Command("UNSUB") \notin Issued
      BY <2>2, <2>3, Zenon DEF MuxKnown
    <3>2. Command("UNSUB") # Command("SUB") /\ Command("UNSUB") # Pub(t)
      BY CommandsAre, Zenon
    <3>3. ToSet(toServer') \subseteq Issued
      BY <2>2 DEF Issued
    <3> QED
      BY <2>2, <2>6, <3>1, <3>2, <3>3 DEF MuxKnown, Issued
  <2>10. ASSUME conn = "ready", ~serverMux PROVE InboxAhead'
    <3>1. Heralded(Cat(toServer, outbound), early) /\ (mux = "live" => Command("SUB") \in Issued)
      BY <2>2, <2>3, <2>10 DEF InboxAhead
    <3>2. Command("SUB") \in ToSet(toServer) \cup ToSet(m)
      BY <2>2, <2>3, <2>4, <3>1 DEF MuxKnown, QueueTypes, Issued
    <3>3. toServer \in Seq(Commands) /\ outbound \in Seq(Commands)
      BY <2>3 DEF QueueTypes
    <3>4. Heralded(Cat(toServer, m), early)
      <4>1. CASE mux = "none"
        <5>1. m = Append(outbound, Command("SUB"))
          BY <2>4, <4>1 DEF InitMux
        <5>2. Cat(toServer, m) = Append(Cat(toServer, outbound), Command("SUB"))
          BY <3>3, <5>1, CatAppend, CommandsAre
        <5> QED
          BY <2>3, <3>1, <5>2, LineIs, HeraldedAppend, CommandsAre
      <4>2. CASE mux # "none"
        BY <2>4, <3>1, <4>2 DEF InitMux
      <4> QED
        BY <4>1, <4>2
    <3>5. PICK l \in Seq(Commands) : l = Cat(toServer, m) /\ Command("SUB") \in ToSet(l)
      <4>1. ToSet(toServer \o m) = ToSet(toServer) \cup ToSet(m)
        BY <3>3, InConcat
      <4>2. toServer \o m \in Seq(Commands) /\ toServer \o m = Cat(toServer, m)
        BY <3>3, CatSeq, Zenon DEF Cat
      <4> QED
        BY <3>2, <4>1, <4>2
    <3>6. Heralded(Cat(toServer, a), early)
      <4>1. Cat(toServer, a) = Append(l, Pub(t))
        <5>1. PICK c \in Commands : c = Pub(t)
          BY CommandsAre, Zenon
        <5>2. Cat(toServer, Append(m, c)) = Append(Cat(toServer, m), c)
          BY <3>3, CatAppend
        <5> QED
          BY <2>5, <3>5, <5>1, <5>2
      <4>2. Heralded(Append(l, Pub(t)), early)
        BY <3>4, <3>5, HeraldedAppend, CommandsAre, Zenon
      <4> QED
        BY <4>1, <4>2, Zenon
    <3>7. Heralded(Cat(toServer', outbound'), early')
      BY <2>2, <2>4, <2>5, <3>4, <3>6 DEF Cat
    <3>8. Command("SUB") \in Issued'
      BY <2>2, <2>4, <2>5, <3>2 DEF Issued
    <3> QED
      BY <3>7, <3>8 DEF InboxAhead
  <2>11. InboxAhead'
    <3>1. conn # "ready" \/ serverMux => InboxAhead'
      BY <2>2 DEF InboxAhead
    <3> QED
      BY <2>10, <3>1
  <2> QED
    BY <2>7, <2>8, <2>9, <2>11 DEF Ordered, OrderInv
<1> QED
  BY <1>1, <1>2 DEF Request

\* What the theorems of the order rest on, as named parts of Ordered.
LEMMA Parts ==
    Ordered <=> QueueTypes /\ NothingAhead /\ HandshakeFirst /\ MuxKnown /\ EarlyWritten /\ InboxAhead
BY DEF Ordered, OrderInv

\* While the client drains or is not ready, no order is asked for.
LEMMA NoOrderAsked == draining \/ conn # "ready" => InboxAhead
BY DEF InboxAhead

\* A callback put behind the others.
LEMMA Expecting ==
    ASSUME QueueTypes, HandshakeFirst, conn' = conn, draining', NEW c \in {"mux", "drain"},
           pongs' = pongs \/ pongs' = Append(pongs, c)
    PROVE  pongs' \in Seq(Callbacks) /\ HandshakeFirst'
<1>1. pongs \in Seq(Callbacks) /\ c \in Callbacks /\ c # "handshake"
  BY DEF QueueTypes, Callbacks
<1>2. CASE pongs' = pongs
  BY <1>1, <1>2 DEF HandshakeFirst
<1>3. CASE pongs' = Append(pongs, c)
  <2>1. pongs' \in Seq(Callbacks)
    BY <1>1, <1>3
  <2>2. ASSUME NEW i \in DOMAIN pongs'
        PROVE  \/ i \in DOMAIN pongs /\ pongs'[i] = pongs[i]
               \/ pongs'[i] = c
    BY <1>1, <1>3
  <2> QED
    BY <1>1, <2>1, <2>2 DEF HandshakeFirst
<1> QED
  BY <1>2, <1>3

LEMMA DrainOrdered ==
    ASSUME Ordered, Drain \/ DrainFlush
    PROVE  Ordered'
<1>1. PICK c \in {"mux", "drain"} :
        /\ draining' /\ conn # "closed"
        /\ UNCHANGED <<conn, infoReceived, mux, toServer, serverMux, asked, early, epoch, answers>>
        /\ noMorePublishing' \in BOOLEAN
        /\ pongs' = pongs \/ pongs' = Append(pongs, c)
        /\ \/ outbound' = outbound
           \/ outbound' = Append(outbound, Command("PING"))
           \/ outbound' = Append(Append(outbound, Command("UNSUB")), Command("PING"))
  <2>1. noMorePublishing \in BOOLEAN
    BY DEF Ordered, QueueTypes
  <2>2. CASE Drain
    BY <2>1, <2>2 DEF Drain, muxVars, server, history
  <2>3. CASE DrainFlush
    BY <2>1, <2>3 DEF DrainFlush, muxVars, server, history
  <2> QED
    BY <2>2, <2>3
<1>2. QueueTypes /\ NothingAhead /\ HandshakeFirst /\ MuxKnown /\ EarlyWritten
  BY Parts
<1>3. /\ outbound' \in Seq(Commands)
      /\ ToSet(outbound') \subseteq ToSet(outbound) \cup {Command("UNSUB"), Command("PING")}
  <2>1. outbound \in Seq(Commands) /\ Command("PING") \in Commands /\ Command("UNSUB") \in Commands
    BY <1>2, CommandsAre, Zenon DEF QueueTypes
  <2>2. PICK a \in Seq(Commands) : a = Append(outbound, Command("UNSUB"))
                                   /\ ToSet(a) = ToSet(outbound) \cup {Command("UNSUB")}
    BY <2>1, Put, Zenon
  <2>3. Append(a, Command("PING")) \in Seq(Commands)
        /\ ToSet(Append(a, Command("PING"))) = ToSet(a) \cup {Command("PING")}
    BY <2>1, Put, Zenon
  <2>4. Append(outbound, Command("PING")) \in Seq(Commands)
        /\ ToSet(Append(outbound, Command("PING"))) = ToSet(outbound) \cup {Command("PING")}
    BY <2>1, Put, Zenon
  <2> QED
    BY <1>1, <2>1, <2>2, <2>3, <2>4
<1>4. QueueTypes' /\ HandshakeFirst'
  <2>1. pongs' \in Seq(Callbacks) /\ HandshakeFirst'
    BY <1>1, <1>2, Expecting
  <2>2. draining' \in BOOLEAN
    BY <1>2, Zenon DEF Drain, DrainFlush, QueueTypes, client
  <2> QED
    BY <1>1, <1>2, <1>3, <2>1, <2>2 DEF QueueTypes
<1>5. NothingAhead' /\ EarlyWritten'
  BY <1>1, <1>2 DEF NothingAhead, EarlyWritten
<1>6. MuxKnown'
  <2>1. \A t \in Tokens : Pub(t) # Command("UNSUB") /\ Pub(t) # Command("PING")
    BY CommandsAre, Zenon
  <2> QED
    BY <1>1, <1>2, <1>3, <2>1 DEF MuxKnown, Issued
<1> QED
  BY <1>1, <1>2, <1>4, <1>5, <1>6 DEF Ordered, OrderInv, InboxAhead

LEMMA EmptyQueues ==
    /\ << >> \in Seq(Commands) /\ << >> \in Seq(Callbacks) /\ DOMAIN << >> = {}
    /\ ToSet(<< >>) = {}
<1>1. << >> \in Seq(Commands) /\ << >> \in Seq(Callbacks) /\ DOMAIN << >> = {}
  OBVIOUS
<1> QED
  BY <1>1, ToSetIs

\* The connection is gone, and the commands on it.
LEMMA GoneOrdered ==
    ASSUME Ordered, Closed \/ Lose
    PROVE  Ordered'
<1>1. QueueTypes /\ NothingAhead /\ HandshakeFirst /\ MuxKnown /\ EarlyWritten
  BY Parts
<1>2. /\ toServer' = << >> /\ pongs' = << >> /\ serverMux' = FALSE
      /\ outbound' = outbound \/ outbound' = << >>
      /\ UNCHANGED <<infoReceived, draining, noMorePublishing, asked, answers, early>>
      /\ epoch' \in 1..MaxFaults + 1
      /\ \/ conn' = "down" /\ mux' = mux
         \/ conn' = "closed" /\ outbound' = << >> /\ mux' = IF mux = "live" THEN "gone" ELSE mux
  <2>1. epoch \in 1..MaxFaults + 1
    BY <1>1 DEF QueueTypes
  <2>2. CASE Closed
    BY <2>1, <2>2 DEF Closed, history
  <2>3. CASE Lose
    BY <2>1, <2>3, RequestsAssumption DEF Lose, muxVars
  <2> QED
    BY <2>2, <2>3
<1>3. QueueTypes'
  BY <1>1, <1>2, EmptyQueues DEF QueueTypes
<1>4. HandshakeFirst' /\ EarlyWritten'
  BY <1>2, EmptyQueues DEF HandshakeFirst, EarlyWritten
<1>5. NothingAhead'
  BY <1>1, <1>2 DEF NothingAhead
<1>6. MuxKnown'
  <2>1. Issued' \subseteq Issued
    BY <1>2, EmptyQueues DEF Issued
  <2>2. /\ mux' = "none" => mux = "none"
        /\ mux' = "gone" => conn' = "closed" \/ mux = "gone"
        /\ mux = "gone" => draining \/ conn = "closed"
        /\ conn' = "down" => conn # "closed"
    BY <1>1, <1>2 DEF MuxKnown, Closed, Lose
  <2> QED
    BY <1>1, <1>2, <2>1, <2>2 DEF MuxKnown
<1>7. InboxAhead'
  BY <1>2 DEF InboxAhead
<1> QED
  BY <1>3, <1>4, <1>5, <1>6, <1>7 DEF Ordered, OrderInv

LEMMA FlushOrdered ==
    ASSUME Ordered, FlushPending
    PROVE  Ordered'
<1>1. QueueTypes /\ NothingAhead /\ HandshakeFirst /\ MuxKnown /\ EarlyWritten /\ InboxAhead
  BY Parts
<1>2. /\ outbound' = << >> /\ infoReceived
      /\ UNCHANGED <<mux, conn, infoReceived, draining, noMorePublishing, pongs, serverMux,
                     asked, answers, epoch>>
      /\ toServer' = IF conn = "down" THEN toServer ELSE toServer \o outbound
      /\ early' = IF conn = "info" THEN early \cup {t \in Tokens : Pub(t) \in ToSet(outbound)}
                  ELSE early
  BY DEF FlushPending, muxVars
<1>3. toServer \in Seq(Commands) /\ outbound \in Seq(Commands)
  BY <1>1 DEF QueueTypes
<1>4. PICK l \in Seq(Commands) : l = toServer \o outbound /\ l = Cat(toServer, outbound)
                                 /\ ToSet(l) = Issued /\ Cat(l, << >>) = l
  <2>1. Cat(Cat(toServer, outbound), << >>) = Cat(toServer, outbound)
    BY <1>1, LineIs, CatNil, Zenon
  <2>2. Cat(toServer, outbound) = toServer \o outbound
    BY DEF Cat
  <2> QED
    BY <1>1, <2>1, <2>2, LineIs, Zenon
<1>5. toServer' \in Seq(Commands) /\ Issued' \subseteq Issued /\ (conn = "ready" => Issued' = Issued)
  <2>1. CASE conn = "down"
    BY <1>2, <1>3, <2>1, EmptyQueues DEF Issued
  <2>2. CASE conn # "down"
    BY <1>2, <1>4, <2>2, EmptyQueues DEF Issued
  <2> QED
    BY <2>1, <2>2
<1>6. QueueTypes'
  BY <1>1, <1>2, <1>5, EmptyQueues DEF QueueTypes
<1>7. HandshakeFirst'
  BY <1>1, <1>2 DEF HandshakeFirst
<1>8. NothingAhead'
  <2>1. conn # "closed"
    BY <1>1 DEF NothingAhead, FlushPending
  <2> QED
    BY <1>1, <1>2, <2>1 DEF NothingAhead
<1>9. MuxKnown'
  BY <1>1, <1>2, <1>5 DEF MuxKnown
<1>10. EarlyWritten'
  <2>1. ASSUME conn = "info", NEW t \in Tokens, Pub(t) \in ToSet(toServer')
        PROVE  t \in early'
    BY <1>1, <1>2, <1>4, <2>1 DEF EarlyWritten, Issued
  <2> QED
    BY <1>2, <2>1 DEF EarlyWritten
<1>11. InboxAhead'
  <2>1. ASSUME conn = "ready"
        PROVE  Cat(toServer', outbound') = Cat(toServer, outbound) /\ early' = early
    BY <1>2, <1>4, <2>1
  <2> QED
    BY <1>1, <1>2, <1>5, <2>1 DEF InboxAhead
<1> QED
  BY <1>6, <1>7, <1>8, <1>9, <1>10, <1>11 DEF Ordered, OrderInv

LEMMA ReceiveInfoOrdered ==
    ASSUME Ordered, ReceiveInfo
    PROVE  Ordered'
<1>1. QueueTypes /\ NothingAhead /\ HandshakeFirst /\ MuxKnown
  BY Parts
<1>2. /\ conn = "tcp" /\ conn' = "info" /\ infoReceived' = TRUE
      /\ toServer' = Append(toServer, Command("PING")) /\ pongs' = <<"handshake">> \o pongs
      /\ UNCHANGED <<mux, draining, noMorePublishing, outbound, serverMux, asked, answers, epoch, early>>
  BY DEF ReceiveInfo, muxVars, history
<1>3. toServer = << >> /\ toServer \in Seq(Commands)
  BY <1>1, <1>2 DEF NothingAhead, QueueTypes
<1>4. toServer' \in Seq(Commands) /\ ToSet(toServer') = {Command("PING")}
  <2>1. Append(toServer, Command("PING")) \in Seq(Commands)
        /\ ToSet(Append(toServer, Command("PING"))) = ToSet(toServer) \cup {Command("PING")}
    BY <1>3, Put, CommandsAre, Zenon
  <2> QED
    BY <1>2, <1>3, <2>1, EmptyQueues
<1>5. pongs' \in Seq(Callbacks) /\ HandshakeFirst'
  <2>1. pongs \in Seq(Callbacks) /\ "handshake" \in Callbacks
    BY <1>1 DEF QueueTypes, Callbacks
  <2>2. pongs' \in Seq(Callbacks)
    BY <1>2, <2>1
  <2>3. ASSUME NEW i \in DOMAIN pongs'
        PROVE  \/ i = 1 /\ pongs'[i] = "handshake"
               \/ i - 1 \in DOMAIN pongs /\ pongs'[i] = pongs[i - 1]
    BY <1>2, <2>1
  <2>4. \A i \in DOMAIN pongs : pongs[i] # "handshake" /\ (pongs[i] = "mux" => draining)
    BY <1>1, <1>2 DEF HandshakeFirst
  <2> QED
    BY <1>2, <2>2, <2>3, <2>4 DEF HandshakeFirst
<1>6. QueueTypes'
  BY <1>1, <1>2, <1>4, <1>5 DEF QueueTypes
<1>7. \A t \in Tokens : Pub(t) # Command("PING")
  BY CommandsAre, Zenon
<1>8. MuxKnown' /\ EarlyWritten'
  <2>1. Issued' \subseteq Issued \cup {Command("PING")}
    BY <1>2, <1>4 DEF Issued
  <2>2. Command("UNSUB") # Command("PING")
    BY CommandsAre, Zenon
  <2> QED
    BY <1>1, <1>2, <1>4, <1>7, <2>1, <2>2 DEF MuxKnown, EarlyWritten
<1>9. NothingAhead' /\ InboxAhead'
  BY <1>2 DEF NothingAhead, InboxAhead
<1> QED
  BY <1>5, <1>6, <1>8, <1>9 DEF Ordered, OrderInv

\* The callbacks behind the first one.
LEMMA Answering ==
    ASSUME QueueTypes, HandshakeFirst, pongs # << >>, pongs' = Tail(pongs), draining' = draining
    PROVE  /\ pongs' \in Seq(Callbacks) /\ HandshakeFirst'
           /\ Head(pongs) = "handshake" => conn = "info"
           /\ Head(pongs) = "mux" => draining /\ \A i \in DOMAIN pongs' : pongs'[i] # "handshake"
<1>1. pongs \in Seq(Callbacks)
  BY DEF QueueTypes
<1>2. pongs' \in Seq(Callbacks)
  BY <1>1
<1>3. 1 \in DOMAIN pongs /\ Head(pongs) = pongs[1]
  BY <1>1
<1>4. ASSUME NEW i \in DOMAIN pongs'
      PROVE  i + 1 \in DOMAIN pongs /\ pongs'[i] = pongs[i + 1] /\ i + 1 # 1
  BY <1>1
<1>5. \A i \in DOMAIN pongs' : pongs'[i] # "handshake" /\ (pongs'[i] = "mux" => draining)
  BY <1>4 DEF HandshakeFirst
<1> QED
  BY <1>2, <1>3, <1>5 DEF HandshakeFirst

LEMMA HandshakeOrdered ==
    ASSUME Ordered, pongs # << >>, Head(pongs) = "handshake", HandshakeDone
    PROVE  Ordered'
<1>1. QueueTypes /\ NothingAhead /\ HandshakeFirst /\ MuxKnown /\ EarlyWritten
  BY Parts
<1>2. /\ conn' = "ready" /\ outbound' = << >> /\ pongs' = Tail(pongs)
      /\ toServer' = (toServer \o Subscriptions) \o Stripped
      /\ UNCHANGED <<mux, infoReceived, draining, noMorePublishing, serverMux, asked,
                     answers, epoch, early>>
  BY DEF HandshakeDone, muxVars, history
<1>3. conn = "info" /\ pongs' \in Seq(Callbacks) /\ HandshakeFirst'
  BY <1>1, <1>2, Answering
<1>4. PICK s \in Seq(Commands) : s = Stripped /\ ToSet(s) \subseteq ToSet(outbound)
  <2>1. outbound \in Seq(Commands)
    BY <1>1 DEF QueueTypes
  <2>2. Stripped \in Seq(Commands)
    BY <2>1, AtIndicesType, Zenon DEF Stripped, Among
  <2>3. ToSet(Stripped) \subseteq ToSet(outbound)
    BY <2>1, InAtIndices, Zenon DEF Stripped, Among
  <2> QED
    BY <2>2, <2>3, Zenon
<1>5. PICK u \in Seq(Commands) :
        /\ u = Subscriptions
        /\ u = IF mux = "live" THEN <<Command("SUB")>> ELSE << >>
        /\ ToSet(u) = IF mux = "live" THEN {Command("SUB")} ELSE {}
  <2>1. PICK c \in Commands : c = Command("SUB")
    BY CommandsAre, Zenon
  <2>2. <<c>> \in Seq(Commands) /\ ToSet(<<c>>) = {c}
    <3> HIDE DEF Commands
    <3>1. <<c>> \in Seq(Commands) /\ DOMAIN <<c>> = {1} /\ <<c>>[1] = c
      OBVIOUS
    <3> QED
      BY <3>1, ToSetIs
  <2>3. CASE mux = "live"
    BY <2>1, <2>2, <2>3, Zenon DEF Subscriptions
  <2>4. CASE mux # "live"
    BY <2>4, EmptyQueues, Zenon DEF Subscriptions
  <2> QED
    BY <2>3, <2>4
<1>6. PICK p \in Seq(Commands) : p = toServer
  BY <1>1, Zenon DEF QueueTypes
<1>7. PICK v \in Seq(Commands) : v = p \o u /\ v = Cat(p, u) /\ ToSet(v) = ToSet(p) \cup ToSet(u)
  <2>1. ToSet(p \o u) = ToSet(p) \cup ToSet(u)
    BY InConcat
  <2>2. p \o u = Cat(p, u)
    BY DEF Cat
  <2> QED
    BY <2>1, <2>2, CatSeq, Zenon
<1>8. PICK l \in Seq(Commands) : l = v \o s /\ l = Cat(v, s) /\ ToSet(l) = ToSet(v) \cup ToSet(s)
  <2>1. ToSet(v \o s) = ToSet(v) \cup ToSet(s)
    BY InConcat
  <2>2. v \o s = Cat(v, s)
    BY DEF Cat
  <2> QED
    BY <2>1, <2>2, CatSeq, Zenon
<1>9. toServer' = l
  BY <1>2, <1>4, <1>5, <1>6, <1>7, <1>8, Zenon
<1>10. /\ Issued' \subseteq Issued \cup {Command("SUB")}
       /\ mux # "live" => Issued' \subseteq Issued
       /\ mux = "live" => Command("SUB") \in Issued'
  BY <1>2, <1>4, <1>5, <1>6, <1>7, <1>8, <1>9, EmptyQueues DEF Issued
<1>11. QueueTypes'
  BY <1>1, <1>2, <1>3, <1>9, EmptyQueues DEF QueueTypes
<1>12. NothingAhead' /\ EarlyWritten'
  BY <1>2 DEF NothingAhead, EarlyWritten
<1>13. MuxKnown'
  <2>1. Command("UNSUB") # Command("SUB")
    BY CommandsAre, Zenon
  <2>2. mux = "gone" => draining
    BY <1>1, <1>3 DEF MuxKnown
  <2> QED
    BY <1>1, <1>2, <1>10, <2>1, <2>2 DEF MuxKnown
<1>14. ASSUME ~draining PROVE Heralded(Cat(toServer', outbound'), early')
  <2>1. Cat(toServer', outbound') = l
    BY <1>2, <1>9, CatNil, Zenon
  <2>2. CASE mux = "live"
    <3>1. \A t \in Tokens : Pub(t) \in ToSet(p) => t \in early
      BY <1>1, <1>3, <1>6 DEF EarlyWritten
    <3>2. l = Cat(Cat(p, <<Command("SUB")>>), s)
      BY <1>5, <1>7, <1>8, <2>2, Zenon
    <3> QED
      BY <1>2, <2>1, <3>1, <3>2, HeraldedBySub
  <2>3. CASE mux = "none"
    <3>1. ASSUME NEW i \in DOMAIN l, l[i].op = "PUB" PROVE FALSE
      <4>1. l[i] \in Commands /\ l[i] \in ToSet(l)
        BY ToSetIs
      <4>2. PICK t \in Tokens : l[i] = Pub(t)
        BY <3>1, <4>1, CommandsAre, Zenon
      <4>3. Pub(t) \in Issued
        BY <1>2, <1>9, <1>10, <2>3, <4>1, <4>2 DEF Issued
      <4> QED
        BY <1>1, <2>3, <4>3 DEF MuxKnown
    <3> QED
      BY <2>1, <3>1, Zenon DEF Heralded
  <2>4. mux # "gone"
    BY <1>1, <1>3, <1>14 DEF MuxKnown
  <2> QED
    BY <1>1, <2>2, <2>3, <2>4 DEF QueueTypes
<1>15. InboxAhead'
  BY <1>2, <1>10, <1>14 DEF InboxAhead
<1> QED
  BY <1>3, <1>11, <1>12, <1>13, <1>15 DEF Ordered, OrderInv

LEMMA MuxDrainedOrdered ==
    ASSUME Ordered, pongs # << >>, Head(pongs) = "mux", MuxDrained
    PROVE  Ordered'
<1>1. QueueTypes /\ NothingAhead /\ HandshakeFirst /\ MuxKnown /\ EarlyWritten
  BY Parts
<1>2. /\ mux' = "gone" /\ pongs' = Tail(pongs)
      /\ UNCHANGED <<conn, infoReceived, draining, noMorePublishing, outbound, toServer,
                     serverMux, asked, answers, epoch, early>>
  BY DEF MuxDrained, history
<1>3. draining /\ pongs' \in Seq(Callbacks) /\ HandshakeFirst'
  BY <1>1, <1>2, Answering
<1>4. QueueTypes'
  BY <1>1, <1>2, <1>3 DEF QueueTypes
<1>5. NothingAhead' /\ EarlyWritten'
  BY <1>1, <1>2 DEF NothingAhead, EarlyWritten
<1>6. MuxKnown' /\ InboxAhead'
  BY <1>2, <1>3 DEF MuxKnown, InboxAhead
<1> QED
  BY <1>3, <1>4, <1>5, <1>6 DEF Ordered, OrderInv

\* prepareConnection() keeps no more PINGs than callbacks.
LEMMA PingsKept ==
    ASSUME QueueTypes
    PROVE  Cardinality({i \in CarriedOver : outbound[i].op = "PING"}) \in 0..Len(pongs)
<1>0. PICK K : K = {i \in CarriedOver : outbound[i].op = "PING"}
  OBVIOUS
<1>1. PICK n \in Nat : n = Len(outbound) /\ DOMAIN outbound = 1..n
  BY DEF QueueTypes
<1>2. Len(pongs) \in Nat
  BY DEF QueueTypes
<1>3. \A i \in K : i \in 1..n /\ outbound[i].op = "PING" /\ Cardinality(Pings(i)) <= Len(pongs)
  BY <1>0, <1>1 DEF CarriedOver
<1>4. K = {} => Cardinality(K) \in 0..Len(pongs)
  BY <1>2, FS_EmptySet
<1>5. ASSUME K # {} PROVE Cardinality(K) \in 0..Len(pongs)
  <2>1. K \in SUBSET 0..n
    BY <1>3
  <2>2. PICK m \in K : \A i \in K : i <= m
    BY <1>5, <2>1, MaxIs, Zenon
  <2>3. m \in 1..n
    BY <1>3, <2>2, Zenon
  <2>4. IsFiniteSet(Pings(m))
    <3>1. IsFiniteSet(1..m)
      BY <2>3, FS_Interval
    <3> QED
      BY <3>1, FS_Subset DEF Pings
  <2>5. K \subseteq Pings(m)
    <3> SUFFICES ASSUME NEW i \in K PROVE i \in Pings(m)
      OBVIOUS
    <3>1. i \in 1..n /\ outbound[i].op = "PING" /\ i <= m
      BY <1>3, <2>2, Zenon
    <3> QED
      BY <2>3, <3>1 DEF Pings
  <2>6. Cardinality(K) <= Cardinality(Pings(m)) /\ IsFiniteSet(K)
    BY <2>4, <2>5, FS_Subset
  <2>7. Cardinality(K) \in Nat /\ Cardinality(Pings(m)) \in Nat
    BY <2>4, <2>6, FS_CardinalityType
  <2>8. Cardinality(Pings(m)) <= Len(pongs)
    BY <1>3, <2>2, Zenon
  <2> QED
    BY <1>2, <2>6, <2>7, <2>8
<1>6. Cardinality(K) \in 0..Len(pongs)
  BY <1>4, <1>5
<1> QED
  BY <1>0, <1>6, Zenon

LEMMA DialOrdered ==
    ASSUME Ordered, Redial \/ Dialed
    PROVE  Ordered'
<1>1. QueueTypes /\ NothingAhead /\ HandshakeFirst /\ MuxKnown
  BY Parts
<1>2. /\ UNCHANGED <<mux, draining, noMorePublishing, toServer, serverMux, asked, answers,
                     epoch, early>>
      /\ conn \in {"down", "dialing"} /\ conn' \in {"down", "dialing", "tcp"}
  BY DEF Redial, Dialed, muxVars, server, history
<1>3. /\ outbound' \in Seq(Commands) /\ ToSet(outbound') \subseteq ToSet(outbound)
      /\ pongs' \in Seq(Callbacks)
      /\ \A i \in DOMAIN pongs' : i \in DOMAIN pongs /\ pongs'[i] = pongs[i]
      /\ infoReceived' \in BOOLEAN /\ (conn' \in {"dialing", "tcp"} => ~infoReceived')
  <2>1. CASE Dialed
    <3>1. UNCHANGED <<outbound, pongs, infoReceived>> /\ conn = "dialing"
      BY <2>1 DEF Dialed
    <3> QED
      BY <1>1, <3>1 DEF QueueTypes, NothingAhead
  <2>2. CASE Redial
    <3>1. outbound' = AtIndices(outbound, CarriedOver) /\ ~infoReceived'
      BY <2>2 DEF Redial
    <3>2. outbound \in Seq(Commands) /\ pongs \in Seq(Callbacks)
      BY <1>1 DEF QueueTypes
    <3>3. outbound' \in Seq(Commands) /\ ToSet(outbound') \subseteq ToSet(outbound)
      BY <3>1, <3>2, AtIndicesType, InAtIndices, Zenon
    <3>4. PICK k \in 0..Len(pongs) : pongs' = SubSeq(pongs, 1, k)
      BY <1>1, <2>2, PingsKept, Zenon DEF Redial
    <3>5. pongs' \in Seq(Callbacks) /\ \A i \in DOMAIN pongs' : i \in DOMAIN pongs /\ pongs'[i] = pongs[i]
      BY <3>2, <3>4
    <3>6. infoReceived' = FALSE
      BY <2>2 DEF Redial
    <3> QED
      BY <3>3, <3>5, <3>6
  <2> QED
    BY <2>1, <2>2
<1>4. QueueTypes'
  BY <1>1, <1>2, <1>3 DEF QueueTypes
<1>5. HandshakeFirst'
  BY <1>1, <1>2, <1>3 DEF HandshakeFirst
<1>6. NothingAhead' /\ EarlyWritten' /\ InboxAhead'
  BY <1>1, <1>2, <1>3 DEF NothingAhead, EarlyWritten, InboxAhead
<1>7. MuxKnown'
  <2>1. Issued' \subseteq Issued
    BY <1>2, <1>3 DEF Issued
  <2> QED
    BY <1>1, <1>2, <2>1 DEF MuxKnown
<1> QED
  BY <1>4, <1>5, <1>6, <1>7 DEF Ordered, OrderInv

LEMMA ServerReadOrdered ==
    ASSUME Ordered, ServerRead
    PROVE  Ordered'
<1>1. QueueTypes /\ NothingAhead /\ HandshakeFirst /\ MuxKnown /\ EarlyWritten /\ InboxAhead
  BY Parts
<1>2. PICK c \in Commands :
        /\ c = Head(toServer) /\ toServer # << >> /\ toServer' = Tail(toServer)
        /\ toServer' \in Seq(Commands)
        /\ ToSet(toServer) = {c} \cup ToSet(toServer')
  <2>1. toServer \in Seq(Commands) /\ toServer # << >> /\ toServer' = Tail(toServer)
    BY <1>1 DEF QueueTypes, ServerRead
  <2> QED
    BY <2>1, HeadTail, Zenon
<1>3. /\ serverMux' = IF c.op \in {"SUB", "UNSUB"} THEN c.op = "SUB" ELSE serverMux
      /\ asked' = IF c.op = "PUB" THEN asked \cup {c.token} ELSE asked
      /\ UNCHANGED <<mux, conn, infoReceived, draining, noMorePublishing, outbound, pongs,
                     answers, epoch, early>>
  BY <1>2 DEF ServerRead, muxVars, client, history
<1>4. Issued = {c} \cup Issued'
  BY <1>2, <1>3 DEF Issued
<1>5. QueueTypes'
  <2>1. asked' \subseteq Tokens
    BY <1>1, <1>3, CommandsAre, Zenon DEF QueueTypes
  <2>2. serverMux' \in BOOLEAN
    BY <1>1, <1>3 DEF QueueTypes
  <2> QED
    BY <1>1, <1>2, <1>3, <2>1, <2>2 DEF QueueTypes
<1>6. NothingAhead' /\ HandshakeFirst'
  <2>1. conn \notin {"down", "dialing", "tcp", "closed"}
    BY <1>1, <1>2 DEF NothingAhead
  <2> QED
    BY <1>1, <1>3, <2>1 DEF NothingAhead, HandshakeFirst
<1>7. MuxKnown' /\ EarlyWritten'
  BY <1>1, <1>2, <1>3, <1>4 DEF MuxKnown, EarlyWritten
<1>8. ASSUME conn = "ready", ~draining PROVE InboxAhead'
  <2>1. CASE c.op = "SUB"
    BY <1>3, <2>1 DEF InboxAhead
  <2>2. c.op # "UNSUB"
    BY <1>1, <1>4, <1>8, CommandsAre, Zenon DEF MuxKnown
  <2>3. CASE c.op # "SUB" /\ serverMux
    BY <1>3, <2>2, <2>3 DEF InboxAhead
  <2>4. CASE c.op # "SUB" /\ ~serverMux
    <3>1. Heralded(Cat(toServer, outbound), early) /\ (mux = "live" => Command("SUB") \in Issued)
      BY <1>1, <1>8, <2>4 DEF InboxAhead
    <3>2. c # Command("SUB")
      BY <2>4, CommandsAre, Zenon
    <3>3. PICK l \in Seq(Commands) :
            /\ l = Cat(toServer, outbound)
            /\ l # << >> /\ Head(l) = c /\ Tail(l) = Cat(toServer', outbound')
      <4>1. toServer \in Seq(Commands) /\ outbound \in Seq(Commands) /\ outbound' = outbound
        BY <1>1, <1>3 DEF QueueTypes
      <4>2. /\ Cat(toServer, outbound) \in Seq(Commands)
            /\ Cat(toServer, outbound) # << >>
            /\ Head(Cat(toServer, outbound)) = Head(toServer)
            /\ Tail(Cat(toServer, outbound)) = Cat(Tail(toServer), outbound)
        BY <1>1, <1>2, <4>1, LineIs, CatTail, Zenon
      <4> QED
        BY <1>2, <4>1, <4>2
    <3>4. Heralded(Tail(l), early)
      BY <2>4, <3>1, <3>3, HeraldedTail, Zenon
    <3>5. Heralded(Cat(toServer', outbound'), early')
      BY <1>3, <3>3, <3>4, Zenon
    <3> QED
      BY <1>3, <1>4, <3>1, <3>2, <3>5 DEF InboxAhead
  <2> QED
    BY <2>1, <2>3, <2>4
<1>9. InboxAhead'
  BY <1>3, <1>8, NoOrderAsked DEF InboxAhead
<1> QED
  BY <1>5, <1>6, <1>7, <1>9 DEF Ordered, OrderInv

-----------------------------------------------------------------------------
(* Types and the order of the commands                                      *)

QueuesInv == RequestsInv /\ Ordered /\ Counted

LEMMA QueuesInit == Init => QueuesInv
<1> SUFFICES ASSUME Init PROVE QueuesInv
  OBVIOUS
<1>1. RequestsInv
  BY InitHolds
<1>2. QueueTypes
  <2>1. answers \in 0..MaxAnswers /\ epoch \in 1..MaxFaults + 1
    BY RequestsAssumption DEF Init
  <2> QED
    BY <2>1, EmptyQueues DEF Init, QueueTypes
<1>3. Counted
  BY DEF Init, Counted, MaxReplies
<1>4. NothingAhead /\ HandshakeFirst /\ MuxKnown /\ EarlyWritten /\ InboxAhead
  BY EmptyQueues DEF Init, NothingAhead, HandshakeFirst, MuxKnown, EarlyWritten, InboxAhead, Issued
<1> QED
  BY <1>1, <1>2, <1>3, <1>4 DEF QueuesInv, Ordered, OrderInv

LEMMA OrderedStep ==
    ASSUME RequestsInv, Ordered, [Next]_vars
    PROVE  Ordered'
<1>1. CASE Request
  BY <1>1, RequestOrdered
<1>2. CASE Drain \/ DrainFlush
  BY <1>2, DrainOrdered
<1>3. CASE Closed \/ Lose
  BY <1>3, GoneOrdered
<1>4. CASE FlushPending
  BY <1>4, FlushOrdered
<1>5. CASE ReceiveInfo
  BY <1>5, ReceiveInfoOrdered
<1>6. CASE ReceivePong
  <2>1. CASE Head(pongs) = "handshake" /\ HandshakeDone
    BY <1>6, <2>1, HandshakeOrdered DEF ReceivePong
  <2>2. CASE Head(pongs) = "mux" /\ MuxDrained
    BY <1>6, <2>2, MuxDrainedOrdered DEF ReceivePong
  <2> QED
    BY <1>3, <1>6, <2>1, <2>2 DEF ReceivePong
<1>7. CASE Redial \/ Dialed
  BY <1>7, DialOrdered
<1>8. CASE ServerRead
  BY <1>8, ServerReadOrdered
<1>9. ASSUME UNCHANGED <<mux, client, toServer, serverMux, asked, early, epoch>>,
             answers' \in 0..MaxAnswers
      PROVE  Ordered'
  BY <1>9, Unmoved, Zenon
<1>10. answers \in 0..MaxAnswers
  BY DEF Ordered, QueueTypes
<1>11. CASE ReceiveMsg \/ UNCHANGED vars
  BY <1>9, <1>10, <1>11 DEF ReceiveMsg, vars, muxVars, server, history
<1>12. ASSUME NEW t \in Tokens, Timeout(t) PROVE Ordered'
  BY <1>9, <1>10, <1>12 DEF Timeout, server, history
<1>13. ASSUME NEW t \in Tokens, Answer(t) PROVE Ordered'
  <2>1. answers' \in 0..MaxAnswers
    BY <1>10, <1>13, RequestsAssumption DEF Answer
  <2> QED
    BY <1>9, <1>13, <2>1 DEF Answer, muxVars
<1> QED
  BY <1>1, <1>2, <1>3, <1>4, <1>5, <1>6, <1>7, <1>8, <1>11, <1>12, <1>13
  DEF Next, Reading, Close

LEMMA QueuesStep == QueuesInv /\ [Next]_vars => QueuesInv'
BY Step, OrderedStep, CountedStep DEF QueuesInv

\* Every variable keeps its type: a request is counted as answered at most
\* once, and the callbacks of PONGs are never longer than the PINGs kept for
\* them (muxsubscriptions.ts 87-102, protocolhandler.ts 490-527).
THEOREM RequestsTypes == Spec => []TypeOK
<1>1. QueuesInv => TypeOK
  <2> SUFFICES ASSUME QueuesInv PROVE TypeOK
    OBVIOUS
  <2>1. RequestsInv /\ QueueTypes /\ Counted
    BY DEF QueuesInv, Ordered
  <2>2. reqs \subseteq Tokens /\ timer \subseteq Tokens /\ answered \subseteq Tokens
    BY <2>1 DEF RequestsInv, MuxTypes, PendingIsTracked
  <2>3. promise \in [Tokens -> {"none", "pending", "resolved", "rejected"}]
        /\ requested \in 0..MaxRequests /\ toClient \in Seq(Replies)
    BY <2>1 DEF RequestsInv, MuxTypes, Outcomes
  <2>4. received \in [Tokens -> 0..MaxReplies]
    BY <2>1 DEF Counted
  <2> QED
    BY <2>1, <2>2, <2>3, <2>4 DEF TypeOK, QueueTypes, Callbacks
<1> QED
  BY QueuesInit, QueuesStep, <1>1, PTL DEF Spec

\* On a working connection a request follows the SUB of its inbox, however
\* often the connection was lost in between (protocolhandler.ts 490-586).
THEOREM InboxLeads == Spec => []InboxFirst
<1>1. QueuesInv => InboxFirst
  <2> SUFFICES ASSUME QueuesInv PROVE InboxFirst
    OBVIOUS
  <2>1. QueueTypes /\ NothingAhead /\ MuxKnown /\ InboxAhead
    BY Parts DEF QueuesInv
  <2>2. PICK l \in Seq(Commands) : /\ l = IF infoReceived /\ conn # "down" THEN toServer \o outbound
                                       ELSE << >>
                                   /\ ToSet(l) \subseteq Issued
                                   /\ l = Cat(toServer, outbound) \/ l = << >>
    <3>1. Cat(toServer, outbound) = toServer \o outbound
      BY DEF Cat
    <3>2. /\ Cat(toServer, outbound) \in Seq(Commands) /\ ToSet(Cat(toServer, outbound)) = Issued
          /\ << >> \in Seq(Commands) /\ ToSet(<< >>) = {}
      BY <2>1, LineIs, EmptyQueues, Zenon
    <3> QED
      BY <3>1, <3>2
  <2>3. ASSUME NEW i \in DOMAIN l, l[i].op = "PUB", l[i].token \notin early, ~draining
        PROVE  \/ serverMux
               \/ \E j \in 1..i-1 : l[j].op = "SUB"
               \/ conn = "info" /\ mux = "live"
    <3>1. mux # "none"
      <4>1. l[i] \in Commands /\ l[i] \in ToSet(l)
        BY ToSetIs
      <4>2. PICK t \in Tokens : l[i] = Pub(t)
        BY <2>3, <4>1, CommandsAre, Zenon
      <4> QED
        BY <2>1, <2>2, <4>1, <4>2 DEF MuxKnown
    <3>2. conn \in {"info", "ready"}
      <4>1. l # << >> /\ infoReceived /\ conn # "down"
        BY <2>2, EmptyQueues
      <4>2. conn # "closed"
        <5>1. CASE conn = "closed"
          <6>1. Issued = {}
            BY <2>1, <5>1, EmptyQueues DEF NothingAhead, Issued
          <6> QED
            BY <2>2, <6>1, ToSetIs
        <5> QED
          BY <5>1
      <4> QED
        BY <2>1, <4>1, <4>2 DEF NothingAhead, QueueTypes
    <3>3. CASE conn = "info"
      BY <2>1, <2>3, <3>1, <3>3 DEF MuxKnown, QueueTypes
    <3>4. CASE conn = "ready" /\ ~serverMux
      <4>1. Heralded(l, early)
        BY <2>1, <2>2, <2>3, <3>4, EmptyQueues DEF InboxAhead
      <4> QED
        BY <2>3, <4>1, Zenon DEF Heralded
    <3> QED
      BY <3>2, <3>3, <3>4
  <2> QED
    BY <2>2, <2>3, Zenon DEF InboxFirst
<1> QED
  BY QueuesInit, QueuesStep, <1>1, PTL DEF Spec
=============================================================================
