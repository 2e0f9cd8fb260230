# nats.ts: a TLA+ model of the client

nats.ts is a client of the NATS messaging system for node.js. This directory
holds TLA+ modules translated from its source (`src/src/*.ts`), TLC
configurations that check them on small instances, and theorems about them
that TLAPS checks for every value of the constants. Line numbers below are
those of `src/src/protocolhandler.ts` unless another file is named.

The client is single threaded: one handler runs at a time, so one handler is
one action. What makes it hard is everything between the handlers: timers that
nothing cancels, immediates that run late, socket events of a connection that
has been replaced, a promise that continues after the world has changed, a
listener that closes the client in the middle of the handler that called it,
and a server whose answers belong to commands that were issued on another
connection.

## 1. The system

| Component | Source | State | Operations | Interacts with |
|---|---|---|---|---|
| Command pipeline | `protocolhandler.ts` 182-260, 370-427, 490-586, 683-697, 1068-1104 | `outbound`, `pongs`, `infoReceived`, `pout`, `pingTimer`, due immediates | `publish`, `flush`, `sendCommand`, `flushPending`, heartbeat, `prepareConnection`, handshake | writes to the transport, is fed PONGs by the parser, is cut off by `closeStream` |
| Connection lifecycle | 130-210, 360-368, 429-488, 977-1066, 1112-1200 | `closed`, `connected`, `wasConnected`, `reconnecting`, `connectionTimer`, the retry timer | `connect`, the handlers `connect`/`close`/`error`, `scheduleReconnect`, `closeStream`, `processErr`, `close`, `connectCB` | selects servers from the pool, dials through the transport |
| Server pool | `servers.ts` | `servers`, `currentServer`, `firstSelect`, per server `didConnect`, `reconnects`, `lastConnect`, `implicit` | `selectServer`, `removeServer`, `processServerUpdate` | rotated by the lifecycle, extended by INFO |
| TCP transport | `tcptransport.ts` | `stream`, `connectedOnce`, the timer of each dial | `connect`, `upgrade`, `write`, `destroy`, `pause`, `resume` | calls the handlers |
| Subscriptions | `subscriptions.ts`, 263-325, 563-586, 925-957, `nats.ts` 561-693 | `subs`, `sidCounter`, per subscription `received`, `max`, `draining`, `timeout` | `subscribe`, `unsubscribe`, `setTimeout`, `processMsg`, `sendSubscriptions`, `stripPendingSubs` | issues commands to the pipeline |
| Drain | 212-243, 282-307 | `draining`, `noMorePublishing`, pending promises | `drainSubscription`, `drain` | a chain of flushes; ends in `close` |
| Requests | `muxsubscriptions.ts`, 327-358, 1165-1176, `nats.ts` 489-522 | `reqs`, `baseInbox`, per request `received`, `max`, `timeout` | `request`, `cancelRequest`, the dispatcher, `close` | one wildcard subscription; its commands go through the pipeline |
| Parser | 593-735, `databuffer.ts`, `messagebuffer.ts` | `inbound`, `state`, `msgBuffer` | `protoLen`, `drain`, `fill`, `processInbound`, yield | calls all of the above |
| Handshake and authentication | 649-698, 737-918, 1220-1280, `tcptransport.ts` 112-147 | `info`, `infoReceived`, credentials files, the TLS socket | checks of INFO, `upgrade`, signers, CONNECT | may end the connection at INFO |
| Client, options | `nats.ts` 299-404 | `options` | `parseOptions` | read by all |

What is hard, and what correctness means:

* **Pipeline.** `flush()` puts a PING in `outbound` and a callback in `pongs`;
  the two queues are matched by position only, and `closeStream` and
  `prepareConnection` cut each of them separately. Correct: a live connection
  has as many callbacks as unanswered PINGs; a PUB is written at most once and
  in order; a flush is a barrier; nothing stays in the buffer for ever.
* **Lifecycle.** A close event, an error, the retry timer, the dial timer, the
  handshake timer and `close()` all lead to the next attempt. Correct: always
  exactly one way forward; the socket is that of the current server; the
  promise of `connect()` settles; the client recovers, or gives up when told
  to; `connect` and `close` are emitted once.
* **Pool.** It is rotated, cut and extended while somebody iterates over it.
* **Subscriptions.** The client and the server each have a table; commands that
  would keep them equal are discarded and stripped on reconnect and replaced
  by `sendSubscriptions`. Correct: once nothing is on its way the tables agree,
  limits are neither exceeded nor starved, no timer outlives its subscription.
* **Requests.** The reply, the timeout, a failing publish, `drain` and `close`
  race for one promise, and all replies come through one subscription that is
  sent again on every connection. Correct: a promise settles once, only with
  its own reply, and has somebody to settle it; a request does not overtake the
  subscription of its inbox.
* **Parser.** Bytes come in chunks of any size; callbacks close the client from
  within the loop; a yield pauses the stream; the next connection starts in the
  middle of a message. Correct: the frames handled are those sent, whole, in
  order and once, and none waits for ever.
* **Handshake.** Options and INFO are checked against each other, the socket is
  replaced by a TLS socket, credentials come from files that change; each of
  these can fail in its own way. Correct: what becomes ready is what both sides
  asked for, and every failure leads to the next connection.
* **Drain.** Correct: when the promise resolves the server has forgotten the
  subscription and every message it sent has been handled.

## 2. The modules

### Pipeline, PipelineOutage, Delivery, PipelineProofs, PipelineTimersProofs

`Pipeline` is the command pipeline over a connection that fails and is
re-established. Commands are numbered as they are issued; `log[n]` is the kind
of command n. As everything is first in, first out, `outbound`, the socket
(`wire`) and `pongs` are sets of numbers whose head is their minimum. This
loses nothing, because commands are never reordered, which is the invariant
`NoOvertaking`. Number 0 is the PING of the connect handshake, which the code
writes past the buffer and whose callback it unshifts.

| Code | Action |
|---|---|
| `publish`, `flush`, heartbeat, answer to PING | `Publish`, `Flush`, `Heartbeat`, `ReceivePing` |
| `setImmediate(flushPending)` | `FlushPending` |
| stale connection, `-ERR`, failed check of INFO, handshake timer | `StaleConnection`, `ReceiveErr`, `InfoMismatch`, `HandshakeTimeout` |
| `close` by the application | `Close`, which may be repeated |
| `close` by a listener of 'pingcount' (1076), 'reconnecting' (365), 'serversChanged' (665) | `HeartbeatClosing` and `HeartbeatWhenClosed`, a disjunct of `ScheduleReconnect`, `ReceiveInfoClosing` |
| events of the socket; the callback of `tls.connect` | `DialOk`, `DialFailed`, `SocketLost`, `CloseEvent`; `Secured` |
| retry timer, with `scheduleReconnect` and `prepareConnection` | `RetryTimer` |
| INFO, PONG (the one of the handshake with `stripPendingSubs`) | `ReceiveInfo`, `ReceivePong` |
| the server | `ServerStep`, `ServerLate` (what is left on a destroyed socket), `ServerFails` |

Exceeding FLUSH_THRESHOLD is a choice of every command after the first in a
buffer. Which server is dialed is left to `Lifecycle`; whether the client gives
up is a choice if `MayGiveUp`. A listener that closes the client returns to a
handler that goes on: the heartbeat pushes its entry and re-arms its timer, the
dial is made, the callback of the handshake is unshifted. These three actions
leave what the code leaves, and `ClosedIsFinal` says how much that is.

`PipelineOutage` adds a history, the PUBs issued while the client has no stream,
and states what the documentation promises for them.

`Delivery` is the abstract specification: commands are issued, the server
processes each PUB at most once, flushes are called back at most once and in
order, and a flush that is called on the connection it was issued on finds all
PUBs issued before it on that connection processed. `Pipeline` implements it
with the mapping `issued <- log, epoch <- base, delivered <- processed,
called <- fired`.

### Queues, QueueLemmas

Both the buffer of commands and the pool are cut by what a filter keeps.
`Queues` says so for any sequence: `AtIndices` are the elements at given
indices, `Among` those in a given set, both built from `FlattenSeq` of the
community modules. `Lifecycle` (the pool), `Requests` and `Subscriptions` (their
commands) use it. `QueueLemmas` has what the proofs need to know of these
operators, of concatenation, of counting and of splitting a queue at an element.

### Lifecycle, MCLifecycle, LifecycleProofs

`Lifecycle` has the pool in rotation order, the fields of each server, the loop
of `connect()` with the await it is at (`loop`, `index`), the flags of
ProtocolHandler, the socket with the progress of its handshake (`stream`) and
every timer: `dialTimer` of the last dial, `staleDials` of earlier ones that
nothing can clear, `connectionTimer`, and `orphans`, handshake timers that
`connectionTimer` no longer refers to. `Settings` pairs options with an
environment, the servers that never fail and the `connect_urls` that an INFO may
carry; one pair is chosen at the start, so that one run covers several kinds of
client, and a property names the options it is about.

| Code | Action |
|---|---|
| the loop of `connect` (130-172) | `ConnectStart`, `DialRejected` |
| `handlers.error` followed by `handlers.close`; `handlers.close` alone; the close event of a socket the client destroyed | `SocketError`, `SocketEnd`, `CloseEvent` |
| retry timer, `scheduleReconnect` | `RetryTimer` |
| the callback of `createConnection`; INFO with its gossip; PONG with `connectCB` | `DialOk`, `ReceiveInfo`, `HandshakePong` |
| `processErr`, stale connection | `ProcessErr` |
| the handshake timer; the timer of a dial; one left over | `HandshakeTimer`, `DialTimer`, `StaleDialTimer` |
| `close` | `Close` |
| time: the reconnect delay of a server passes | `Rest` |

An armed timer may fire at any moment. The loop of `scheduleReconnect` removes
servers while it counts up, so it ends one visit early for each: `Visited` says
so. `removeServer` of a server that is not in the pool removes the last one, as
`splice(-1, 1)` does. A timer left over that hits a good connection costs a
fault, so that a liveness property does not hang on an endless supply of them.
A listener of 'reconnecting' may close the client, which dials all the same
(365-367): `closed` is chosen in that step. The 'disconnect' event is left out.

### Subscriptions, SubscriptionsProofs

`Subscriptions` is the client's table and the server's, with the SUB, UNSUB and
PING commands between them as sequences, and the drains of a subscription and
of the connection. How a connection is found and when a buffer is flushed are
the subjects of the other modules, so both may happen at any moment; the
handshake is there in full (`conn` is `tcp`, `info`, `ready`), because
`sendSubscriptions` writes past the buffer in the middle of it. `Redial` is
`prepareConnection`: SUBs and UNSUBs go, PINGs stay while callbacks last.
The server is modelled from its use: it ignores a second SUB of a sid it has,
counts messages from the last SUB that created it, and forgets a subscription
at its limit or with a plain UNSUB.

`raised`, `drained`, `drainedOn` and the counters are history for properties
and bounds. A limit of 0 is `max` undefined; `subscribe` with `max: 0` is not
modelled. Of `drain()`, what it does to publishing is in `Requests`.

### Requests, Promises, RequestsProofs

`Requests` has the multiplexer (`reqs`, `received`), the timers and promises of
the requests, the state of the one subscription they share (`mux`), and as much
of the connection as decides which replies arrive: `outbound` and the commands
on their way as sequences, `pongs` with the handshake, the drain of the
multiplexer and the last flush of `drain`. A token is the number of its request.
`request` has three outcomes, as in the code: refused by a closed or draining
client, registered and cancelled again because `publish` throws, or sent.
Responders answer once, again, late, or with what is no JSON.

| Code | Action |
|---|---|
| `Client.request`, `ProtocolHandler.request`, `initMux`, `add` | `Request` (`RequestRefused`, `RequestUnsent`, `RequestSent`) |
| the timeout with `cancelRequest` | `Timeout` |
| `processMsg` and the dispatcher | `ReceiveMsg` (`Dispatch`, `Cancel`) |
| `drain`, its last flush, `close` | `Drain`, `DrainFlush`, `Close` |
| `flushPending`; INFO; the PONGs | `FlushPending`, `ReceiveInfo`, `ReceivePong` |
| `closeStream`, `prepareConnection`, the dial | `Lose`, `Redial`, `Dialed` |
| the server and the responders | `ServerRead`, `Answer` |

`Promises` is the abstract specification: a promise settles at most once, and
resolves only with an answer to its own request. `Requests` implements it with
`promise` and `answered` as they are.

### DataBuffer, Inbound, InboundProofs

`DataBuffer` is the class of that name as operators on its two fields. `Inbound`
is the parser: a line is one byte of text and its CR LF, a payload any sequence
over CR, LF and the text of a line, so that payloads look like frames. `Data`
reads a chunk of any length. `processInbound` is one step for each iteration of
its loop (`ReadLine`, `ReadPayload`), entered by `Data` or by the `Immediate` of
a yield and left by `Wait`; nothing else runs while `looping`. A line is plain,
runs callbacks that may close the client (`Event`), ends the connection
(`Fatal`), or is `Unknown`. `Lose`, `Close` and `Reconnect` are `closeStream`,
`close` and `prepareConnection`. `handled` and `sent` are the frames of the
current connection.

### Handshake, HandshakeProofs

`Handshake` is what happens between the connection callback and the PONG of the
handshake, for every combination of the options and of an INFO that its checks
tell apart. `offer` is the INFO that servers send now and `info` the last one
read. Any field of `offer` may change at any time (`OfferChanges`): the next
connection goes to a server that asks for something else, or an open connection
gets another INFO.

| Code | Action |
|---|---|
| INFO: `this.info`, `CheckTLSMismatch`, `CheckNoEchoMismatch`, `CheckNonceSigner` (650-667, 737-849) | `ReceiveInfo`; of a later INFO this is all |
| `transport.upgrade` (673-678, `tcptransport.ts` 112-147) | `Upgrade`; its callback is `Secured` |
| the constructor of CONNECT with the signer (681, 886-907, 1272-1275) | `Sign` |
| `loadJwt`, CONNECT and PING, `infoReceived` (681-697, 910-918, 1276-1282) | `WriteConnect` |
| the PONG, the handshake timer, a lost socket | `HandshakePong`, `HandshakeTimer`, `SocketFails` |
| the close event, the next connection, `close` | `CloseEvent`, `Reconnect`, `Close` |

One INFO is handled in one go, but the file of the credentials is read up to
three times meanwhile, by the check, the signer and `loadJwt`, and other
processes may change it. So these stages are steps (`at`), nothing but the file,
the server and a listener's `close` comes between them, and each stage fails in
its own way. A built-in signer that fails closes the stream and returns nothing,
and CONNECT's constructor throws out of `processInbound` before `infoReceived` is
set; the model goes on with an application that survives this exception.
`loadJwt` closes the stream and throws nothing, so `infoReceived` is set.
`tls.connect()` that throws leaves the old socket without listeners
(`listening`, `threw`). Which server comes next, and when the client gives up,
is `Lifecycle`'s: here `CloseEvent` and `Reconnect` choose.

## 3. What is checked

States are distinct states. Deadlock is not checked: the bounds of each model
stop it, and a closed client stops for good.

| Run | Bounds | States | Shows |
|---|---|---|---|
| `pipeline_safety` | 4 commands, 2 faults, maxPingOut 1 | 1.5 M | the queues stay matched (`PingAccounting`) and ordered (`OnceInOrder`); no command stuck after the handshake; a single heartbeat; what a closed client keeps (`ClosedIsFinal`); nothing is dropped from an open connection; `ImplementsDelivery` |
| `pipeline_liveness` | 3 commands, 2 faults | 192 k | `Recovers`, `PongsSettle`, `OutboundDrains` |
| `pipeline_buffering` | `PipelineOutage`; as safety, but never gives up | violation of `BufferedPublishesAreKept` | finding 1 |
| `lifecycle_safety` | 2 configured servers, 1 gossiped, counters and leftover timers 1, 1 fault, four combinations of options | 1.1 M | `StreamOfCurrent`, `ConnectSettles`, `OneWayForward`, `EventsOnce`, `NeverGivesUp` |
| `lifecycle_liveness` | 2 servers, 2 faults: one never fails and there is no limit, or all may fail and there is one | 135 k | `Recovers`, `PromiseSettles`, `GivesUp` |
| `lifecycle_timeout` | 2 servers, 1 fault | violation of `TimeoutSparesEstablished` | finding 2 |
| `subscriptions_safety` | 2 subscriptions, limits up to 2, 3 calls, 2 messages, 1 lost connection | 0.8 M | `BelowMax`, `NotStarved`, `NoOrphans`, `TimersOfLiveSubs`, `DrainIsComplete` |
| `subscriptions_drains` | 2 subscriptions, limit 1, no lost connection | 74 k | `DrainEnds` |
| `subscriptions_drain` | 1 subscription, 2 calls | violation of `DrainStopsServer` | finding 3 |
| `requests` | 2 requests, 3 answers, 2 lost connections | 281 k | `PendingIsTracked`, `InboxFirst`, `ImplementsPromises`, `EverySettles` |
| `inbound` | 3 frames with payloads of up to 1 byte, 2 connections, yields | 198 k | `HandledAsSent`, `EveryByteKept`, `EveryFrameHandled` |
| `handshake` | all options and INFOs, 3 faults | 1.7 M | `ReadyAsAgreed`, `NeverStranded`, `Recovers` |

Every module has a type invariant, which a run of it checks.

Why the bounds are enough for what is asked. *Pipeline:* the shortest
confusion of two flushes takes two flushes, a PUB between them and a reconnect;
4 commands and 2 failures have room for that twice over, and the theorems of
section 4 remove the bounds. *Lifecycle:* a server is removed, skipped or
re-added only relative to another one, and the third comes from gossip; a
second leftover timer of a kind does what the first does; two faults let both
servers of `lifecycle_liveness` go down. The configured servers are a symmetry
set in `lifecycle_safety`, which has no liveness property. *Subscriptions:* a
limit of 2 has one message before a reconnect and one after, and two
subscriptions have their drains and timers interleaved. *Requests:* with two, a
reply has somebody else to go to; the third answer is a repeated one; the second
lost connection comes while the first is being replaced. *Inbound:* a payload of
one byte is CR, LF or a text, and with its own CR LF it has CR LF in every
position; three frames put one before and one after a payload; chunks are cut
everywhere, so longer ones add none that matters. *Handshake:* all INFOs are
initial, and a fault changes one field of the INFO, changes the file, or loses
the connection. One change turns any check around between two INFOs; one spoils
the file between two uses and another puts it back; the third is for a failure
before or after.

Fairness, and why the code justifies it. *Pipeline:* immediates, timers that
are due and socket events run (node's event loop); a dial succeeds or fails;
a server that is up reads and answers. Failures stop because `MaxFaults` bounds
them. *Lifecycle:* the same, and only for the timers that the client counts on:
`RetryTimer`, `DialTimer` and the passing of the reconnect delay; a leftover
timer or the handshake timer is never relied on. A dial to a server that is
down ends. *Subscriptions:* drains in progress continue, what is buffered is
flushed, both ends read. *Requests:* armed timeouts fire, and nothing else is
needed. *Inbound:* bytes arrive, immediates run, and `processInbound` goes on
until it returns. *Handshake:* the server greets and answers (only the first
INFO of a connection is relied on), a handler that has begun ends, a TLS
handshake completes or fails, close events and reconnects happen; an answer that comes
after the handshake timer counts as a fault, so timers do not starve the client
for ever. The application is never fair, nor are failures.

Each property of a passing run has a mutant: a definition of the model replaced
by what a plausible slip in the code would make of it (the definitions marked
`Faulty` in the modules), under which TLC finds the property violated.

## 4. What is proved

For every value of the constants, under the assumptions that the modules name
(`BoundsAssumption`, `LifecycleAssumption`, `SubscriptionsAssumption`,
`RequestsAssumption`, `InboundAssumption`, `HandshakeAssumption`: bounds are
numbers, server sets finite, settings of the right type), with TLAPS. Every
type invariant, safety invariant and action property of the runs is a theorem.

| Module | Theorem | Statement |
|---|---|---|
| PipelineProofs | `TypeCorrect` | `Spec => []TypeOK` |
| | `PongsMatchPings` | `Spec => []PingAccounting`: callbacks and PINGs are equally many on a live connection |
| | `NeverStranded` | `Spec => []OneRecoveryPath` |
| | `WrittenOnceInOrder` | `Spec => []OnceInOrder` |
| | `PipelineImplementsDelivery` | `Spec => ImplementsDelivery` |
| PipelineTimersProofs | `NothingStuck`, `ClosedForGood`, `HeartbeatAlone` | `Spec => []NoStuckCommands`, `ClosedIsFinal`, `[]OneHeartbeat` |
| | `OpenDropsNothing` | `Spec => NothingDroppedWhileOpen` |
| LifecycleProofs | `OneWay`, `SomebodySettles`, `EmittedOnce` | `Spec => []OneWayForward`, `[]ConnectSettles`, `[]EventsOnce` |
| | `LifecycleTypes`, `OfCurrent` | `Spec => []TypeOK`, `[]StreamOfCurrent` |
| | `StaysOpen` | `Spec => NeverGivesUp` |
| SubscriptionsProofs | `LimitsKept`, `NoStrayTimers` | `Spec => []BelowMax`, `[]TimersOfLiveSubs` |
| | `SubscriptionTypes`, `NoneLeft`, `NeverStarved` | `Spec => []TypeOK`, `[]NoOrphans`, `[]NotStarved`: client and server agree |
| | `DrainsComplete` | `Spec => DrainIsComplete` |
| RequestsProofs | `NoRequestForgotten` | `Spec => []PendingIsTracked` |
| | `RequestsImplementPromises` | `Spec => ImplementsPromises` |
| | `RequestsTypes`, `InboxLeads` | `Spec => []TypeOK`, `[]InboxFirst` |
| InboundProofs | `AsSent`, `BytesKept`, `InboundTypes` | `Spec => []HandledAsSent`, `[]EveryByteKept`, `[]TypeOK` |
| HandshakeProofs | `AlwaysAWayOn`, `ReadyOnlyAsAgreed`, `HandshakeTypes` | `Spec => []NeverStranded`, `[]ReadyAsAgreed`, `[]TypeOK` |

**Pipeline.** None of the invariants is inductive alone. `PingAccounting` counts
two sets, and a PONG takes the minimum from one and a callback from the other;
that both shrink by one, and that a flush is called for its own PING, needs to
know that PONGs, wire and buffer are in order (`QueueOrder`), that what was
issued on this connection is in both sets or in neither (`OwnPings`; only what
`prepareConnection` has carried over is matched by position), and what the
socket says about the bytes on it (`SocketInv`: none while it dials or is gone,
and no handshake PING before INFO). The barrier of a flush needs that a PUB of
this connection is processed or still ahead (`OwnPubs`), and calls in order
need that waiting callbacks are younger than called ones (`FiredFirst`).
`IInv` is the conjunction; each conjunct has a lemma of its own with one step
per action. The steps that cut the queues rest on `KeptEqually`: pairing by
position keeps as many PINGs as callbacks. It is proved from a rank function
that is injective on a finite set of numbers and from the cardinality theorems
of the library. For the refinement, each action maps to one of Delivery's or
to a stutter, and `Call` uses that the first callback and the first PONG are
the same command, or both older than the connection (`Heads`).

**Queues.** The rules of induction of the library take an operator, which the
provers cannot instantiate. `QueueLemmas` states induction for sets instead: a
set of numbers that has 0 and n + 1 with n has all of Nat (`NatSetInduction`),
and a set of sequences that has the empty one and is closed under `Append` has
all of them (`SeqSetInduction`). Both follow from the well-foundedness of < on
the naturals. From them come the recursion of `FlattenSeq` (`FlattenAppend`,
`FlattenConcat`), what `Among` keeps (`InAmong`, `AmongConcat`), `Count`, and
`Split(q, p, x, r)`, that q is p, x, r: an element of a queue with what is
before and behind it, as the queue gets longer or loses its head.

**Subscriptions, the table.** `SubsInv` is the types of the table and of the
fields with `BelowMax` and `TimersOfLiveSubs`. The lemma for `Cancel` is the
heart: the fields handed to it may be past their limit, as long as those
subscriptions are the ones it removes. `unsubscribe`, the last message of a
limit, drains and `close` follow.

**Subscriptions, client and server.** First a lemma for each operation says
which commands it queues (`SubscribeDoes`, `UnsubscribeDoes`, `DrainDoes`,
`ReceiveMsgDoes`, `RedialDoes`, `SendSubscriptionsAre`, ...); the steps that
queue commands and do nothing else are the group `Speaking`. `TypesInv` needs
`Numbers`: what the client has received and what is on its way to it is not
more than the server has sent. Each theorem adds what it needs:

* `NoneLeft`: `Forgotten`. Of a subscription that the client has cancelled the
  last that is on its way to the server is an UNSUB, or no SUB is on its way and
  the server has a limit for it. This is on the order of SUB and UNSUB over both
  queues, and a flush makes the two one.
* `NeverStarved`: `AllSupplied`. The server knows a live subscription or will,
  or has sent all of it, and each limit that it has or is being sent leaves what
  the client waits for. The counters of the two sides differ by what is on its
  way; that they start again together on a connection needs `Greeting`: until
  the PONG of the handshake the client reads nothing else.
* `DrainsComplete`: `Flushed`. For each callback of a drain that was begun on
  this connection, as many PONGs are ahead of its own as callbacks are ahead of
  it, and its own is either a PING that follows the UNSUB, with no SUB
  behind that (`Coming`), or a PONG that no message for the subscription follows
  while the server does not know it (`Come`). This needs that callbacks and
  PONGs to come are equally many (`Matched`), that a subscription whose callback
  waits is not drained again (`Awaited`), and that only the ready connection has
  drains of its own (`OnThis`), so that the handshake, which would subscribe it
  again, is over.

**Timers of the pipeline.** `TimersInv` stands on `IInv`. Its own part is
`Ticking`: a heartbeat belongs to an established connection, or to one that was
dropped and whose close event, which cancels it, is still due. With
`OneRecoveryPath` that gives that nothing ticks when the retry timer fires.
`ClosedIsFinal` is `ClosedIsEmpty`, what a closed client may have left, and
`ClosedStays`, that none of it comes to life: each of the three ways in which a
listener's `close()` returns to a handler that goes on is a case of both, and
what it leaves is covered by the close event to come (`ClosingKeeps`).

**Lifecycle, the control.** `LInv` needs nothing of the pool. `LoopAlone`: until a socket
connects only the loop of `connect` is at work, so no close event or retry
timer exists. `DialsTimed`: a leftover timer means that the option is set, so the
dial whose socket it destroys has a timer of its own, which is `ConnectSettles`.
`Marked`: after the first handshake every stream that is not ready was opened by
`scheduleReconnect`, which has set `reconnecting`. `ClosedQuietly`: a closed
client has at most one socket to lose, which is the one it dialed when a
listener of 'reconnecting' closed it, and 'close' is not emitted while that
socket or a close event is to come. There is one
lemma for each procedure (`ConnectLoop`, `ScheduleReconnect`, `HandlersClose`,
`CloseStream`, `handlers.error` by a timer) and one for each group of actions.

**Lifecycle, the pool.** `PInv` stands on `LInv`. Rotation, removal, the loop of
`scheduleReconnect` and gossip leave a sequence of distinct known servers
(`Pooled`). `StreamOfCurrent` says `target = current` and that this is one of
`servers` while there is a socket. Only the loops of `connect` and of
`scheduleReconnect` select another server, each dials it at once, and gossip
never drops the current one. `FirstInPool`: before the first
selection the current server is one of the pool, so that rotating to it finds
it. `KeepsAServer`: gossip never drops the server that sent it, and without
a limit `scheduleReconnect` removes nothing, so `NeverGivesUp` follows.

**Requests.** `PendingIsTracked` is inductive with the types of what it speaks
of, that tokens are given out in order (`Unused`), and that a closed client has
no callbacks (`NoCallbacks`). For the refinement a reply on its way has to be an
answer that was given (`RepliesAreAnswers`); the queues of commands stay out.
They are the subject of `QueuesInv`, for `InboxFirst`: on a ready connection the
server knows the inbox, or a SUB stands before every request that is on its way
(`Heralded`, which filters, cuts and flushes preserve) and was not written
between INFO and PONG (`EarlyWritten`).

**Inbound.** `Follows`: what was sent is what was handled and some frames to do,
and their bytes, less a MSG line that has been read, are the buffer and the wire
in this order (`InStep`). So the buffer starts with a line or with the payload
that `msgBuffer` waits for, and the first CR LF that `protoLen` finds ends that
line whatever the payloads contain. What the bytes of a
buffer are when it is filled, packed or drained is stated once for each operation
of DataBuffer (`FillIs`, `PackIs`, `DrainIs`: `Content` is all its chunks in
order, `byteLength` its length), and what `protoLen` finds is `LineLengthIs`. `NothingLeft` says
that a lost connection takes its bytes along, and `Immediates` that a stream is
paused for each yield that is due, so none runs on the bytes of the next one.

**Handshake.** `ReadyAsAgreed` rests on what is known of a connection at each
stage. `Begun`: only the first INFO of a connection is answered, by one CONNECT
(`HandshakePong` asks for none, so this is what counts it). `Checked`: what has
passed the checks agrees with the options, for the last INFO and for what the
first one asked. `Encrypted`: the stream is upgraded in the step after the checks
if the first INFO asked for it, and never later. `Answered`: while INFO is
handled the stream goes only with the client, or by the upgrade that fails, so
no stage writes on a connection that the checks were not made for. Only
`tls.connect()` throwing leaves a stream without listeners (`Deaf`), so any other
end announces itself.

**Only model-checked.** The liveness properties (`Recovers`, `PongsSettle`,
`OutboundDrains`, `PromiseSettles`, `GivesUp`, `DrainEnds`, `EverySettles`,
`EveryFrameHandled`): fairness and ENABLED are out of the prover's reach.

## 5. Findings

Each is a run that TLC must find violated, and quotes the document it refutes
in PROJECT.json.

1. A PUB issued while the client has no stream and waits to reconnect is lost:
   `infoReceived` is still true, so `flushPending` empties the buffer and writes
   to no stream (371).
2. The handshake timer of a lost connection ends a later established one (176).
3. A subscription that drains while the handshake completes is subscribed again
   and stays on the server after its drain has resolved (568).

Also seen in the models or on the way, without a run of their own:

* `tls.connect()` throwing strands the client: `upgrade` has removed the
  listeners of the old socket, and `handlers.error` and `closeStream` count on
  its close event (`tcptransport.ts` 129-145, 450, 984). `NeverStranded`
  excludes this case by name.
* A signer that fails throws out of `processInbound` (681, 1273).
* An INFO that comes to require TLS on an open plain connection passes the checks
  of a client whose option is undefined, and the connection is not upgraded (669-674,
  752-783). `ReadyAsAgreed` speaks of the INFO a connection began with.
* A client closed by a listener of 'reconnecting' (365-367; `test/reconnect.ts`
  219-223 does it) dials all the same and holds a socket on which it is silent,
  until the server or the handshake timer ends it. `close()` in 'pingcount' leaves
  an undefined entry in `pongs` and an armed timer that fires once more (1076-1095);
  in 'serversChanged' it leaves the callback of the handshake (665-683).
* A request written between the INFO and the PONG of a reconnect goes before
  the SUB of its inbox, which `sendSubscriptions` writes with the PONG (680,
  688): its reply may be lost on a working connection. `InboxFirst` excludes it.
* A request pending when the client is closed, also by `drain`, never settles
  (`muxsubscriptions.ts` 58-74); a drain in progress when the connection is lost
  does not either (1011).
* A flush issued during an outage may be called back before the PUBs issued
  before it were processed, because an orphaned PING of an earlier flush is
  paired with its callback (1011, 506-519).
* The timer of a dial has no effect for a server the client was connected to
  before, and the dial goes on without one (451, `tcptransport.ts` 61).
* A line that no expression matches stops the parser until more data arrives,
  however much is buffered behind it (700); a line that ends in CR CR LF is not
  found (`databuffer.ts` 84).
* A client that never completed a handshake retries for ever (363), and so does
  one whose servers name each other in gossip (`servers.ts` 173): `GivesUp` is
  stated for clients that were connected, and checked without gossip.
* `close` is not emitted for a client closed while it waits to reconnect (200);
  `disconnect` is not emitted for a connection the client drops itself (437).
* A SUB flushed between INFO and the handshake's PONG is sent twice (688).
* `unsubscribe(max)` with `max` already received leaves the subscription on the
  server if it was re-subscribed in between (316); `NoOrphans` says how long.
* `parseOptions` replaces a valid `reconnectDelayHandler` (`nats.ts` 390-401),
  and the `timeout` option of `subscribe` in README_old.md is never armed.

## 6. Not modelled

* **Keys, signatures, credentials' text, CONNECT's text, payload encodings.**
  Cryptography, files and formatting. Of the credentials Handshake keeps whether
  they can be read and can sign; which of user, password and token of the options
  and of the url go into CONNECT is copying of fields.
* **The text of protocol lines.** A line is one byte in Inbound; what the
  regular expressions accept is not modelled beyond known and unknown lines.
* **A callback that throws.** `processMsg` emits 'error', and without a listener
  node ends the process (954).
* **parseOptions.** Validation of a record and defaults; the options that change
  behaviour are constants or chosen by `Init`.
* **Error codes, logging, benchmarks, examples.** They keep no state.
* **Server urls as strings.** A server is a name: that an url of the options
  and the one gossip reports for it are spelled alike is assumed.
* **Subjects, queues and permissions.** The server's matter.

## 7. Plan

The modules were written in the order of section 2, the most important
behaviour first; all are done. What could follow:

1. Requests over Subscriptions instead of over its own small connection: one
   table with the multiplexer as a subscription of it.
2. An abstract specification of a subscription (messages are delivered in order,
   at most as many as its limit) that Subscriptions implements.
