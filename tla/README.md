# A TLA+ model of node-rabbitmq-client

The client of this repository is a hand-written AMQP 0-9-1 implementation for
Node.js: a `Connection` that reconnects by itself, `Channel`s multiplexed on it,
and three recoverable helpers on top (publisher, consumer, RPC client). This
directory holds TLA+ modules for the parts whose correctness is a matter of
order: what may happen between two callbacks. TLC checks them on small
instances, TLAPS proves the central invariants for every size.

Paths are relative to the repository; line numbers are those of this commit.

## 1. Inventory

| Component | State | Operations | Hard because | Module |
|---|---|---|---|---|
| `Connection` (`Connection.ts`) | `readyState`, `retryCount`, three timers, `onConnect`, `onEmpty`, `leased` ids, `lazyChannel`, the current socket | `acquire`, `close`, `unsafeDestroy`, `_connect`, `_negotiate`, `_reset`, `_lazy`, frame dispatch | every await may end in another phase; timers and deferreds belong to one socket but live in shared fields; handlers run inside `emit` | `Connection` |
| `Channel` (`Channel.ts`) | `active`, `cleared`, `mode`, one `rpc` slot and its `rpcBuffer`, `unconfirmed` and `deliveryCount`, the incoming message | `_invoke`, `_invokeNowait`, `basicPublish`, `close`, `_handleRPC`, `_onMethod`, `_onHeader`, `_onBody`, `_clear` | replies carry no number, so order is all there is; write callbacks, ticks and frames interleave; both sides may close | `Channel`, `Framing` |
| `EncoderStream` (`util.ts` 107-157) | pending writes, the generator in progress | `_write`, `_loop`, `drain`, `_destroy` | back-pressure in the middle of a message, encode errors | `Channel` |
| async reader (`util.ts` 74-104) | bytes read so far, the pending read | `read` | all frames of a chunk are handled before any tick or timer | `Channel` |
| heartbeat and flow (`Connection.ts` 466-487, 505-538) | `hasRead`, `hasWrite`, `miss`, the corked socket | the interval timer, `connection.blocked` | a flag set between two ticks, silence in one direction | `Heartbeat` |
| contents and frame size (`Channel.ts` 342-403, `codec.ts` 810-843) | `_state.incoming`, `_state.frameMax` | `_onHeader`, `_onBody`, `genContentFrames` | both sides cut and count by a size each holds for itself | `Framing` |
| publisher (`Connection.ts` 258-316) | `_ch`, `pendingSetup`, `isClosed` | `send`, `close` | retries racing setups and closes | `Publisher` |
| `Consumer` (`Consumer.ts`) | `_readyState`, `_processing`, `_prefetched`, timers, `_pendingSetup` | `_setup`, `_reconnect`, `_prepareMessage`, `start`, `close` | messages, handlers, reconnects and `close()` interleave | `Consumer` |
| `RPCClient` (`RPCClient.ts`) | `_requests`, `_pendingSetup`, `active` | `send`, `close` | timeouts, late replies, retries, loss of the channel | `RPCClient` |
| `SortedMap` (`SortedMap.ts`) | a weight-balanced tree | `set`, `delete`, `get`, `pick`, iteration | rotations, and deletion while iterating | `SortedMap` |
| methods and fields of the codec, options, errors, index, docs plugin, scripts, tests | none | | pure, or not part of the client | none |

How they interact: `Connection` dispatches each frame to the channel that has its
id; a channel writes through its own `EncoderStream` into the shared socket, or
directly (`channel.close`, `close-ok`); `_reset` clears every channel when the
socket closes; each channel's `close` event gives its id back and may let
`Connection.close()` go on; publisher, consumer and RPC client take channels with
`acquire()` and take another one when theirs has closed.

What makes each component correct:

* Connection: the books of ids are exact; nothing of one socket (channel, timer,
  deferred) reaches the next; there is always exactly one next step until it is
  closed, and none afterwards; every `acquire()` and `close()` settles.
* Channel: one request at a time, each answered by its own reply; publishes are
  contiguous on the wire and counted alike by both sides; a publish resolves or
  fails with its own confirmation; every call settles, also when the channel or
  the connection ends; trouble of one channel stays with it.
* EncoderStream: order and contiguity under back-pressure; one bad call ends one
  channel only.
* Heartbeat and contents: a silent peer is noticed and a live one is not killed;
  what the user is given is what was sent, whole and in order.
* Publisher, consumer, RPC client: one setup at a time, retries bounded, no work
  after `close()`, concurrency limit, no reply to the wrong request, nobody left
  waiting.
* SortedMap: a search tree after any sequence of operations; `pick` returns a free
  key, and one above the limit only when all are taken.

PROJECT.json lists the hazards one by one, at their lines.

## 2. Modules

Each component has a module of its own. They meet at what a component is
promised by the one below it: `Publisher`, `Consumer` and `RPCClient` use
channels whose calls settle (`Channel!EveryCallSettles`) and an `acquire()` that
succeeds or fails (`Connection!AcquireSettles`); `Channel` is one entry of
`Connection`'s books, `SortedMap` the tree those books are kept in.

Two small modules are abstract specifications:

* `RpcQueue`: requests wait in the order of the calls and are answered in that
  order; one may fail and take the channel with it; when the channel ends all that
  wait fail together. `Channel` implements it (`ImplementsQueue`) with
  `waiting <- <<rpc>> \o rpcBuffer`, `open <- active`: TLC checks every step of
  slots, streams and frames against it, and it is proved when only requests can
  fail to be encoded.
* `IdPool`: an id is handed out only while nobody owns it, its owner has it until the
  owner itself is done, and one who is owed an id is refused only when all of them are
  owned. `Connection` implements it (`ImplementsPool`, checked and proved) with
  `holder <- leased`, `serving <- readyState = "OPEN"`, and the owner's `stage` read
  off where the `acquire()` and its channel are (`StageOf(acq[c])`). The two sides are
  kept apart in the code, one in the map and one in the channel: a lease over an id in
  use, an entry that is dropped early, or one that stays when its channel has ended is
  no step of `IdPool`.

### Channel

One channel from `channel.open-ok` until its id is released, with its stream, the
user and the broker. `CONSTANTS` are the calls the user may make (`Rpcs`, `Pubs`,
`Nowaits`), which of them are `confirm.select`, cannot be encoded, or may be
refused, and what the environment is allowed to do (`Allowed`).

| Model | Code |
|---|---|
| `rpc`, `rpcBuffer`; `Invoke`, `OnReply` | `_invoke`, `_rpcNext`, `_handleRPC` |
| `queue`, `sent`, `phase`, `written`; `WriteFrame`, `FinishWrite`, `FailWrite`, `Drain` | `EncoderStream` with the state of Node's `Writable` |
| `AfterWrite`, `StreamFinish`, `StreamFail` | write callbacks, `finish`, `error` and `close` of the stream, run in ticks |
| `registered`, `unconfirmed`; `BasicPublish`, `AfterWrite`, `OnConfirm` | `deliveryCount`, `unconfirmed`, `basicPublish`, acks and nacks |
| `closer`, `final`; `Close`, `CloseImmediate`, `StreamFinish`, `ResumeClose`, `OnCloseOk` | the two awaits of `close()` |
| `Clear`, `OnChannelClose`, `SocketClosed` | `_clear` and its callers |
| `outbuf`, `c2s`, `s2c`, `chunk`, `socket`, `full` | the socket, the network, the frames of the chunk being decoded |
| `Broker*`, `bState`, `served`, `published`, `unacked`, `acked` | the RabbitMQ server (external): serves requests in order, confirms, refuses with `channel.close`, treats frames on a closed channel as a connection error. `bState` tells a channel that the client closed (`"closed"`) from one the broker closed (`"gone"`) |

A step is one handler. Pending ticks run after all frames of the current chunk
and before any macrotask, as in Node; user code may run between two frames. A
publish has two frames, head and body: two are enough for something to come
between them. The broker and the network interleave with everything.

### Connection

The connection's life. `CONSTANTS`: the `acquire()` calls (`Chans`, of which
`_lazy()` may make `LazyChans`), the `close()` calls, `MaxId` (channelMax),
`MaxFaults`, and two permissions of the user (`MayDestroy`, `FromEvent`).

| Model | Code |
|---|---|
| `readyState`, `retryCount`, `retryTimer`, `connectionTimer`, `heartbeatTimer`, `onEmpty` | the fields of `_state`; a timer is set or not |
| `onConnect` | the deferred of the current outage, replaced in the socket's `close` handler |
| `leased` | `SortedMap`: from the ids in use to channels |
| `acq[c]` | where an `acquire()` and its channel are: waiting for the connection, woken by it, opening, ready, closing, closed, failed |
| `lazy` | which `acquire()` `_state.lazyChannel` is about; promise, channel or nothing follow from `acq[lazy]` |
| `closing[k]` | where each `close()` waits: for `onEmpty`, or for the socket's `close` event |
| `socket` | dialing, open, ended (our side), destroyed (its `close` event is due), closed (it was emitted) |
| `Negotiated` | `_negotiate` from the protocol header to the `connection` event, as one step: before it nothing but a fault can be seen |
| `SocketClosed`, `AfterReset` | the socket's `close` handler, cut where `_reset` has emitted the channels' `close` events: user code runs there |
| `Drop`, `ServerClose`, `ServerEnds` | reset, refusal, timeout, missed heartbeats; `connection.close` of the server and the end of the TCP stream |
| `born`, `dials`, `faults`, `reported` | history for the properties |

A heartbeat and a connection timeout are taken to be configured (the defaults).
Continuations that are ready come before events; user code may run before them
(in `emit('connection')`, for instance). `close()`, resumed by `onEmpty`, needs
fewer microtasks than a woken `acquire()`, hence goes first.

### Publisher

`createPublisher`: sends that share a channel and its setup.

| Model | Code |
|---|---|
| `ch`, `isClosed`, `pending`, `fresh` | `_ch`, `isClosed`, `pendingSetup` and the channel it is declaring on |
| `send[s]`, `attempts[s]`; `Turn`, `Published`, `Nacked`, `Fail` | the loop of `send()`: one turn up to its await, its two outcomes, the `catch` |
| `SetupAcquired`, `AcquireFails`, `SetupDeclared`, `SetupResolves`, `SetupRejects` | `setup()` await by await; its promise settles in two steps, so that a frame of the same read may come between |
| `chan`, `ready`; `ChannelLost`, `ChannelCloseOk`, `Ends` | channels by number, and what `_clear` does to whoever uses one |
| `closing[k]`; `Close` | `close()`: waits for a pending setup, then closes `_ch` |

### RPCClient

Requests by direct reply-to. The parts of `Publisher`, and:

| Model | Code |
|---|---|
| `id`, `requests`, `number[s]`; `Published` | `_id`, `_requests`, entered when the publish is confirmed |
| `asked`, `replies`; `Reply`, `OnReply` | the request at the server; a reply in its `setImmediate`. A server may reply twice, late, or never |
| `Timeout`, `Forget`, `Fail` | the timer of a request and the `catch` of the loop |
| `Ends` | the `close` handler of the channel rejects all requests and empties the map |
| `closing[k]`, `awaiting[k]`; `Close`, `SetupResolves`, `CloseChannel` | `close()`: the setup, the requests it finds then, the channel |

### Consumer

| Model | Code |
|---|---|
| `readyState`, `consumerTag`, `retryTimer`, `setup` | `_readyState`, `_consumerTag`, `_retryTimer`, `_pendingSetup` and where it waits |
| `SetupAfterJobs`, `SetupAcquired`, `SetupConsumes`, `SetupDone`, `SetupFailed` | `_setup()` await by await, and `_connect`'s continuation |
| `prefetched`, `processing`; `OnMessage`, `HandlerEnds` | `_prefetched`, `_processing`; the callback of `basicConsume`, `_prepareMessage`, `_execHandler` |
| `immediates`; `DeliverFrame`, `BrokerCancels`, `OnCancel` | what `Channel` passes on in a `setImmediate` |
| `Reconnect`, `RetryFires`, `ChannelGone`, `ChannelLost` | `_reconnect`, its timer, the `close` handler of the channel |
| `Start`, `Close`, `CloseAfterSetup`, `CloseCancelOk`, `CloseAfterJobs`, `ChannelCloseOk` | `start()`, and `close()` await by await |
| `from`, `via`, `late`, `behind` | history: the channel of a message, the one its ack would use, messages that were passed on when their consumer was gone, and those buffered behind such a one |

In these three modules continuations that are ready come before frames, timers
and immediates.

### SortedMap

The tree with its pointers. `InsertNode`, `DeleteNode`, `Rotate`, `Balance`,
`Pick`, `Upcoming` are the methods of the class, written once for both sides
where the code has two copies. `ScanStep` is one turn of the loop in
`Connection._reset`, which deletes the entry that the iterator has returned.

A loop of the code is a body (`FindBody`, `FirstBody`, `InsertBody`, `DeleteBody`,
`PickBody`, `AscendBody`) that `Loop` repeats `MaxKey` times. Each turn goes one node
down or up, and a body changes nothing once its loop has come to the end, so this is
as often as needed; that it is enough is part of what is proved (`WalkDone`, `FindIs`,
`PickIs`): what comes out of a loop is the state at its end.

### Heartbeat, Framing

`Heartbeat` is one socket as the interval timer sees it: the two flags, the count
of misses, the corked socket; `silence` and `quiet` count the ticks since the last
frame was read and since bytes left. `Framing` EXTENDS it: its frames are what
marks the flags.

| Model | Code |
|---|---|
| `hasRead`, `hasWrite`, `miss`; `Tick` | the closure of `_negotiate`, 466-487 |
| `corked`; `OnBlocked`, `OnUnblocked` | `socket.cork()` and `uncork()` |
| `frameMax`; `Negotiated` | `_state.frameMax`, `_negotiate` 450-453 |
| `incoming[c]`; `OnMethod`, `OnHeader`, `OnBody`, `PassOn` | `_state.incoming`, `_onMethod`, `_onHeader`, `_onBody` |
| `immediates`, `handled`; `Scheduled`, `Handle` | the `setImmediate` of `_onBody`, and what the user got |
| `arrived` | history: the contents whose last frame a channel has read, told by the broker's bytes and not by the client's count |
| `cut`; `Publish`, `Slices` | `genContentFrames` |
| `feed[c]`; `Begin`, `Payload` | the broker (external): cuts bodies by the size agreed on, as RabbitMQ does. A content of kind "get" presumes a `basic.get` that waits for it |
| `Lost`, `Reconnect` | the end of a socket in the middle of anything, and the next one |

### MCChannel

The symmetry of requests that no constant tells apart, for channel_service. The runs
with temporal properties use none. The instances are in the `.cfg` files.

### Proof modules

`ChannelProofs` (types, the rpc slot, errors, order) and `ChannelCallsProofs` (calls,
promises and confirms), which extends it, are about `Channel`; `ConnectionProofs`,
`FramingProofs`, `PublisherProofs`, `RPCClientProofs`, `ConsumerProofs` and
`SortedMapProofs` are about the module they are named for. Section 5.

## 3. Runs

`CHECK_DEADLOCK` is off where the user may simply stop calling; liveness
properties say what may not stop. Several properties are conjunctions of parts
that belong together (`Service`, `Safe`, `Framed`, `BeatSound`...): each part has a
definition and a comment of its own, and TLC names the whole when one fails.

| Run | Question | Bounds, and why they suffice |
|---|---|---|
| channel_service | one request at a time, contiguous publishes, order, no stranded buffer, no call lost from the books, errors of the channel contained, under refusals, close, kick, loss, stalls and encode errors | 3 requests (slot, head and tail of the buffer; one of them cannot be encoded), 1 publish, 1 no-wait call that cannot be encoded, 1 stall |
| channel_outcomes | do both sides count alike, does each publish get its own outcome, and once, does every call settle, does `close()` return while the connection is up, do slot, buffer and wire implement `RpcQueue` | 3 requests (one turns confirms on at any time, one cannot be encoded), 2 publishes (two tags are the least that a multiple ack and an off-by-one tell apart), loss, close, 1 stall. `OwnConfirm` and `SettledOnce` are proved for any number of publishes, with refusals and kicks |
| connection | books of ids (and `IdPool`), sockets, timers, retries, reports, lazy channel, no dial after close; established again, acquires settle, `close()` ends unless the connection is lost under it | 3 acquires for 2 ids (exhaustion and reuse), two of them lazy, 2 closes, unsafeDestroy, 2 faults (an outage and a failed attempt), which strike at any point of a dial, a negotiation or an open connection |
| publisher | one channel, published only when declared, bounded copies, nothing left by `close()`, all settles | 3 sends (one sets up, two share, one of them too late) of 2 attempts, 2 closes, 3 faults |
| rpc_client | own reply or an error, the map, the sends and the channels agree, `close()` drains, all settles | 2 requests of 2 attempts (so a late reply to a first attempt meets the second), 1 close, 2 faults; replies at any time, twice or never |
| consumer | order, limit, acks on the right channel, one way to go on, orderly `close()`, recovery | 3 messages, concurrency 1, 2 and unlimited, with and without acks, 2 faults, 1 start, 1 close |
| sorted_map | search tree, sizes, balance; `pick`; deletion under the iterator | every tree that inserts and deletes of 9 keys can build: single and double rotations at the root and below it |
| framing | contents whole, in order and none lost or repeated, frames accepted, heartbeat | 2 channels, 2 contents of none, one (full) or two body frames, one publish size of a full and a short frame, 1 lost socket, brokers without a limit or with a larger one. Deadlock is checked |

Four runs show where the code does not do what a comment says:

| Run | What TLC finds |
|---|---|
| close_during_drop | `Connection.close()` waits for `onEmpty`, which is not resolved once the state is CLOSED (`Connection.ts` 360, 583) |
| consumer_stranded | the channel ends in the read that brings `consume-ok`: `_reconnect` finds a setup pending and does nothing, the setup then succeeds, and the consumer stays CONNECTING (`Consumer.ts` 370) |
| truncated_body | the broker offers a smaller frame size than the option: a channel computes the number of body frames with the option and passes a message on without its end (`Channel.ts` 145) |
| silent_peer | the broker falls silent: `normalize.ts` 30-34 gives the connection up after `heartbeat` seconds, two missed beats of half a heartbeat; at the third tick that is over, and the code waits for the fourth or fifth (`Connection.ts` 473), two to two and a half heartbeats. `DeadNoticed`, checked by framing, is what the code does keep |

The passing runs leave out some combinations, because the code does not hold the
property there. Each can be reproduced by changing a constant, or by checking
the weaker-named formula that the module also defines:

* `Channel`, `CloseReturns` instead of `CloseReturnsIfUp`: `close()` goes on after the
  connection dropped and waits for a close-ok for ever (185).
* `Channel` with a publish in `Malformed`, `ChannelErrorContained`: a publish that
  cannot be encoded, while a request is in flight, costs the connection; the
  comment at `codec.ts` 818-819 expects that the error only affects the channel.
* `Channel`, the same, `EveryCallSettles`: the `close()` that follows the encode error
  takes the request in flight out of the `rpc` slot (181); when its reply is then
  unexpected, or the connection drops, nobody settles its promise.
* `Channel`, the same, `ImplementsQueue`, for that reason and another: a reply that
  arrives between the encode error and the `error` event of the stream frees the
  slot without starting the next buffered request, as writing has ended; a request
  that is called before the event then takes the slot ahead of the buffer. With a
  request in `Malformed` (channel_outcomes) neither happens, since the request that
  fails is the one in the slot.
* channel_outcomes with `"eager"` in `Allowed`, `OwnConfirm`: a publish made while
  `confirm.select` is in flight shifts all later acknowledgements by one.
* channel_outcomes with `"kick"` in `Allowed` or a publish in `Refusable`, or
  channel_service with a `Confirms` call: a publish called between an ack and a
  `channel.close` of one chunk enters `unconfirmed` after `_clear` emptied it (520),
  so `EveryCallSettles` and `ReleasedHoldsNothing` fail. `CallsAccounted` is
  therefore checked without confirms.
* channel_outcomes with `"bypass"` in `Allowed`, `EveryCallSettles`: an ack that is read before `drain`
  finds no publish and is dropped (309).
* `Channel`, `ChannelErrorContained` with `"close"`: a `channel.close` that crosses the
  broker's is answered for an id that has been released, an error of the
  connection. `ErrorContained` says the rest: this, and the request in flight that an
  encode error takes from the slot (above), are the only ways (`CloseCrossed`). A
  refusal, a kick, an encode error that nothing is in flight with, or a `close()` that
  nothing crosses leaves the connection up.
* `Connection`, `ClosingEnds` with `MayDestroy`: `unsafeDestroy()` between two
  attempts leaves the connection CLOSING for ever. `ClosedForGood` with `FromEvent`:
  `close()` in a channel's `close` handler is undone, the retry is scheduled after it.
* `Consumer`, `HandlersSettleFirst`: a message read together with basic.cancel-ok
  starts a handler that `close()` does not wait for (390, 418). `late` marks those;
  their acks also go to a channel that may be another one (`AckOnOwnChannel`).
* `Consumer` with `"twice"` (a second `close()` while one runs) and two closers,
  `CloseOrderly`: the first call ends, `start()` follows, and the second call, which
  ends after it, sets CLOSED beside the setup that has begun.
* `Framing` with `Offers = {9}` and `Outgoing = {10}`, `NoFrameError`: publishes
  are cut by the option too, and the broker refuses them. (Frames that are sent are
  eight bytes longer than the frame size in any case, which RabbitMQ tolerates.)

Some observations are outside of what the states of a module express, or follow
from a definition alone. `acquire()` does not look at `readyState` after its await
(`Connection.ts` 163), so a `close()` in the `connection` handler is followed by the
opening of a channel. `Connection.close()` chains to the promise of the lazy channel
without a handler for its rejection (200), and clears the heartbeat timer, so a
broker that goes silent while it is CLOSING is not noticed. `Consumer.close()` rejects when `basic.cancel` does
and leaves the state CLOSING (407). Its `basic.cancel` handler (327) looks for CLOSING
only, so a cancellation that is passed on once the consumer is CLOSED starts it again
(`OnCancel` does it in the model). A handler that ends starts the next message of the
buffer whatever the state is (258), also of a `close()` that has not dropped it yet;
and it starts one message only. Messages that are read together with the loss of the
channel, while a `close()` waits for handlers, stay in the buffer over a `start()`
(311-322), and the consumer then runs below its concurrency for as long as that
backlog lasts (`behind`).
In `RPCClient`, the `close` event of an old channel rejects the requests made on the
new one; `close()` does not wait for sends that still publish, and a reply read
before the confirmation of its request is discarded (203).

## 4. Fairness

`Channel`: weak fairness of the event loop, of the broker's handling of what it
read, and of its confirms. Node runs every job that is ready, and a live server
answers; nothing is assumed of the user, of the network's faults or of the
broker's own decisions (`Stall`, `Lose`, `BrokerKick`, refusals).

`Connection`, `Publisher`, `RPCClient`, `Consumer`: weak fairness of `Jobs` as a
whole, that is jobs of the event loop, timers, and answers of a server that is
there. It is enough because no job can go on for ever: attempts fail at most
`MaxFaults` times. `UserIsTidy`, that the user closes its channels, is what the
documentation of `close()` asks for ("Will not automatically close any channels");
`CloseEnds` has it as a premise, and close_during_drop as part of its specification.
`HandlersSettle`, that the user's handlers end, is the premise of the consumer's
`Recovers` and `CloseSettles`: both wait for handlers by design. In `RPCClient`
nobody has to reply: the timer of a request is a job, the reply is not.

## 5. Proofs

All of it holds for every value of the constants that satisfies the module's named
assumption: `ChannelAssumption` (the sets of calls are disjoint, the markers are not
calls), `ConnectionAssumption`, `FramingAssumption` (sizes are natural, a frame is
longer than its overhead), `PublisherAssumption`, `RPCAssumption`,
`ConsumerAssumption` (at least one attempt; bounds are natural),
`SortedMapAssumption` (there is a key). What a theorem assumes beyond that stands in
its statement and below.

### Channel

* `ChannelProofs!TypeCorrect`: types, by one case for each action and in it one
  step for each group of variables. The other proofs use its lemmas.
* `ChannelProofs!ServiceCorrect`: `NoPipelining` is not inductive. That a
  second request cannot get on the wire needs: a request waits in the stream only
  while the wire is quiet (`SlotInStream`), what is on the wire is the call in the
  slot (`SlotOnWire`), an empty slot means a quiet wire unless `close()` took the
  call (`SlotEmpty`), and how far `close()`, stream and socket can be apart (`Shape`).
  With the types, `RepliesServed` (what is read was served), `NoFalseReply` and
  `BufferBehindRpc` they are `Service`, which channel_service also checks.
  `RequestsNotPipelined`, `RepliesGenuine` and `BufferNotStranded` follow.
* `ChannelProofs!ErrorsStayOnChannel` (`ErrorContained`): the broker closes the
  connection over a frame on a closed channel, and the client over a frame it does not
  expect, so the invariant (`ContainedInv`) follows the frames in both directions, in
  two stages. Until the second half of `close()`, whether the user called it or an
  encode error did: nothing is sent behind a close-ok, which is sent once (`Outgoing`),
  nothing comes behind the broker's close (`Arriving`), and the reply to
  `confirm.select` is read before the first confirmation (`ConfirmsInPlace`). After it,
  if the broker had not closed the channel and no request was in flight: the
  channel.close is written on a silent channel (`EndBegins`, from the rpc slot) and is
  the last frame there (`OutgoingEnd`), its close-ok the last one back (`ArrivingEnd`).
  That neither stage is entered twice or undone is `StaysBefore` and `StaysUncrossed`.
* `ChannelProofs!CallsInOrder` (`StreamOrder`): calls that the broker has served
  or will find on the wire (`Passed`) come before those in the stream and the buffer
  (`Coming`), by the order of the calls; the two meet in `Reached`. Both are stated
  with the relation `Earlier` and never with the position of a call, so that a step
  that moves one call moves one pair of sets. `WholeInv` is the other half: in the
  line that begins with the publish the broker has half read, heads and bodies
  alternate, and it ends with a head exactly when the stream is inside a publish.
* `ChannelCallsProofs!CallsHeld`: every pending call is held by the slot, the buffer,
  the stream, a write callback or `unconfirmed`. A stream error drops the whole queue,
  hence `SlotQueued`: a request in the stream has the request of the slot at or behind
  it. `BooksRight` adds that a released channel holds nothing, and assumes
  `Confirms = {}`: section 3 says what happens otherwise.
* `ChannelCallsProofs!SettledForGood` (`SettledOnce`): what the channel holds is
  pending (`HeldPending`), and the queue, the buffer, the slot, the callbacks and
  `unconfirmed` hold different calls (`HeldApart`), so each settling step is the last
  one for its calls. `OwnerInv` is that.
* `ChannelCallsProofs!RequestsAreQueued` (`ImplementsQueue`): each step of `Channel`
  is a step of `RpcQueue` or a stutter. It assumes `Malformed \subseteq Rpcs`
  (section 3). Two states must be excluded for it: a stream that fails while a request
  is not the one in its slot (`SlotHeads`, `EndsEmpty`), and an unexpected frame while a
  request is in the slot, which empties the slot and settles nothing (`RequestKept`,
  from `SlotOnWire` and `ConfirmsInPlace`).
* `ChannelCallsProofs!ConfirmsOwn` (`OwnConfirm`) assumes that neither `"eager"` nor
  `"bypass"` is in `Allowed`; with either it fails (section 3). The client and the
  broker count the publishes of confirm mode separately, and neither count is told
  to the other, so the invariant (`ConfirmInv`) says of each why it is the order of the
  calls without a gap: `Registers` of the client, through stream and callbacks,
  `Publishes` of the broker, from `InCallOrder`. Two such counts agree as far as both go
  (`CountsAgree`). What takes part in the counting is the same on both sides because no
  publish without confirms is behind a `confirm.select`, in the queue or on the wire
  (`Selecting`, `Parting`; `"eager"` breaks it at `NoneSelected`). A confirmation is read
  only in a macrotask, when what has left the client is counted (`InTime`, `ReadInTime`;
  `"bypass"` breaks it). Of the confirmations under way the first one about a publish
  tells its outcome, and later ones find it settled (`Outcomes`, by lemmas on the
  sequence that loses its first frame, gets another, or meets a new publish).

### Connection

* `SafeAlways`: `Safe` is the conjunction of the types, the books,
  what is leased on which socket, the timers, and `PhaseOfSocket`. The last one is
  the key: an acquire goes on only while the negotiated socket has not reported its
  end (so what it leases is of this socket), and the retry timer runs only when the
  old socket has (so `_reset` is over). This needs no restriction on the user.
  `AlwaysRetried` (`OutageHandled`) and `StaysClosed` assume `~FromEvent`, that no
  channel's event handler closes the connection: they fail without it.
* `IdsArePool`: `Connection` implements `IdPool`: initial states map to initial
  states, and every step takes a free id for an `acquire()` that is owed one, refuses
  it because none is free, gives back exactly the ids of the channels that end, starts
  or stops serving, or stutters. It rests on the books (`LeasedExactly`): that the
  owners in the map are those whose channels live is what makes a lease over an id in
  use impossible.
* `OneLazyChannel` (`LazySingle`): a lazy acquire that is pending or in use is the
  last one that `_lazy()` started (`LazyIsLast`).

### Heartbeat and contents

* `HeartbeatSound` is about what the code does, which is later than what is documented
  (silent_peer): between two reads the misses follow the silence,
  at most one behind, since the flag that a read sets is seen by the next tick
  (`SilenceCounted`); bytes left since the last tick, if anything was written
  (`WritesSeen`). Every step of the contents is one of four kinds for the heartbeat
  (`StepsAreBeats`).
* `ContentsWhole`, `FramesAccepted`: assuming `Agreed`, that no broker
  offers less than the option, the content a channel puts together and the one the
  broker is sending are in step (`InStep`): bytes received and bytes left are the
  size, and the frames still expected are those that what is left is cut into. That
  a frame less is expected after each frame is `ExpectedCounts`, from three lemmas
  about division. truncated_body shows the premise is needed.
* `SentOrderKept` (`InSentOrder`) needs no such premise, a content cut short keeps its
  place: nothing that is passed on or waits in an immediate is younger than the
  content the channel puts together or the broker is sending (`Latest`).
* `HandledInOrder` (`InOrder`) adds the number, `EachOnce`: what was given to the user
  or waits in an immediate is what has arrived, without repetition (`CountInv`). A step
  of a channel completes the content that the broker's last byte completes (`Completes`)
  or neither (`Proceeds`), which needs `Agreed`: with a smaller frame size the channel
  is done before the broker is.
* `FramesFormed` (`Framed`): what is on its way is well formed, and the last publish was
  cut into payloads that are its body. Up to the n-th they are the first
  n * `OptFrameMax` bytes of it, or all of them (`SlicesWhole`, by the least n for which
  this would fail). Nothing is assumed of the offers: publishes are cut by the option on
  any socket.

### Publisher, RPCClient, Consumer

Channels are numbered by these modules as they come, and all three proofs begin
with: only the last channel lives, and a setup at a certain await says which
(`Numbered`, `InUse`, `SetupPhase`).

* `PublisherProofs!InvAlways`: with what a `close()` waits for (`CloseWaits`) and the
  attempt that a send going on has left (`AttemptLeft`), `Safe`, `CopiesBounded` and
  `NothingLeft` follow.
* `RPCClientProofs!InvAlways`: `OwnReply` is inductive only with `Traced`: whatever the
  server was asked or replied has an id that belongs to that send or, by now, to none;
  it holds because ids grow and are given once (`OnTheWay`, `OwnNumber`). For
  `CloseDrains` the requests that the first `close()` found are told from later ones
  (`inTime`), and each close waits for those that are left (`WaitsForThem`). Ids are
  all natural numbers, as in the code's counter up to 2^53.
* `ConsumerProofs!InvAlways` assumes `OneCloseAtATime`, as the run consumer does: with
  two at once `CloseOrderly` fails (section 3). A subscription is known by phase, tag
  and what is passed on (`SubscriptionKnown`), so that a message from nowhere cannot
  start; messages that started, wait, are passed on and will come are in that order
  (`InOrder`, `Delivered`), from which `StartsInOrder`; the buffer is of the present
  channel, or nobody acks, or it came late (`BufferOfChannel`), from which
  `AckOnOwnChannel`; and what runs once close() has cancelled the consumer is what it
  waits for, or late (`HandlersFound`), from which `CloseOrderly`. The proof showed
  which messages a restarted consumer may leave waiting: `behind` was found so.

### SortedMap

Three theorems for every number of keys, all from `Invariance`. The induction over the
tree is made by hand: the least counterexample in a set of numbers (`LeastOf`, from
`WFMin`), for the turns of a loop (`LoopInduction`) as for the nodes of a tree
(`FromLeaves`).

* What stands in for the shape of the tree is a function `b` from each node to the keys
  at and below it. `Linked` says that it fits the pointers: each node is above its
  kids' keys, the left ones are smaller and the right ones larger, parents point back,
  NIL is untouched. The invariant says that such a `b` exists, and each lemma gives the
  one after an assignment: of a rotation (`RotateLinked`), a leaf (`LeafLinked`), a node
  taken out (`BypassLinked`), a node whose place the next key takes (`ShiftLinked`).
  `BelowIs` shows that it is the recursive `Below` of the properties.
* `MapWellFormed` (`WellFormed`): sizes and balance are wrong only on the path from
  where the tree changed to the root. The invariant of that walk (`Walking`, `Progress`):
  everything off the path counts and is balanced, the path would be with one node less,
  or more, and the node reached is right already. A turn weighs the parent and rotates
  if it must (`WalkStep`), with the arithmetic of Delta = 3 and Gamma = 2 in
  `SingleSuffices` and `DoubleSuffices`: after one insertion or deletion, one rotation,
  single or double as `Single` says, balances all nodes it touches.
* `FreeIdPicked` (`PickFree`): `pick()` narrows an interval of ids (`Picking`) of which
  the subtree of its node holds all that are taken, and all smaller ids are taken. There
  is a gap in it unless every turn was to the right: a turn to the left is made when
  the ids below the node are more than the keys there. So the id it ends with is free,
  and beyond `MaxKey` only when every id is taken.
* `EachMet` (`ScanMeetsEach`): the iterator stands on a deleted node. `Passed` says why
  it can go on: all that is left is greater, and the least of it is below the deleted
  node's right child, or is its parent when it has none. The pointers of the deleted
  node are old, so the walk of its deletion must not rotate that away (`LeastDeleted`,
  `RestRight`).

### Only model-checked

* All liveness: `EveryCallSettles` and `CloseReturnsIfUp` of a channel; `Reconnects`,
  `AcquireSettles` and `CloseEnds` of the connection; `AllSettle` of publisher and RPC
  client; `Recovers` and `CloseSettles` of the consumer. Fairness and ENABLED are out of
  the prover's reach.
* What the four runs that expect a violation refute.

Every invariant and action property that the other runs check, and both refinements,
are stated by a theorem; the premises are those named above.

## 6. Not modelled

* transaction mode, which only sets `mode`; `basic.return` as the publisher forwards
  it, the reply function of a consumer's handler and the status it returns: they
  choose a method or an argument and keep no state;
* which pending call gets the broker's reason when the channel is closed: all are
  rejected, the choice at `Channel.ts` 217 only picks the wording of one;
* rotation of hosts and the length of the backoff; `onConnect()`, whose promise and
  timer are those of `acquire()`;
* bytes: encoding of fields, parsing, options and URLs (`normalize.ts`), error
  texts: pure functions, a matter for tests;
* the shortcuts of `Connection` (601-665): `_lazy()` and one call of `Channel`;
* the iterators of `SortedMap` other than that of `_reset`, which only read;
* requests and publishes of more than one channel on a socket, except as the
  disturbances `Stall` and `Bypass` of `Channel`; contents of several channels are in
  `Framing`.

## 7. Plan

1. `Dispatch`: `Connection` and several channels of one socket with reuse of ids:
   frames of an old channel never reach a new one.
2. `onConnect()`, and the wait for a lazy channel that fails, as states of
   `Connection`.
