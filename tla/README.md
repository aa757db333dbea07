# webrtcsink: a verification project

TLA+ models of `webrtcsink`: a GStreamer element that serves media to any
number of WebRTC consumers, the signalling server that brings producers and
consumers together, and the congestion controllers that choose the bitrates.
The models are checked with TLC on small instances, and what matters most is
proved with TLAPS for every instance.

Paths below are relative to `src/`.

## 1. Inventory

### 1.1 The signalling side

| component | state | operations | interacts with |
|---|---|---|---|
| **Handler** `signalling/src/handlers/mod.rs` | producers (each with its consumers), consumers (each with its producer, if any), listeners, metadata, queue of items to send | register (3 roles), start and end a session, list, relay an offer, answer or candidate, remove a peer; `poll_next` takes the next input only when no item is left | a stream of (peer, message) in, a stream of (peer, message) out |
| **Server** `signalling/src/server/mod.rs` | the map of peers, one input channel, per peer a channel, a send task, a receive task, a removal task | accept a socket, receive, dispatch an item, remove a peer | drives the handler; WebSockets |
| **Protocol** `protocol/src/lib.rs` | none | message types | all of the above and below |
| **Server binary** `signalling/src/bin/server.rs` | listening socket | accept loop, TLS handshake inline in the loop | server |
| **Web page** `www/webrtc.js` | one listener connection with the catalogue shown, one session object per consumer | connect, list, add and remove entries; open, answer, close a session; retry | server |

Correct means: the maps describe the same sessions whatever roles a peer
takes; a session ends only with a notice to the other side; what is relayed
stays inside a session; a peer that leaves is forgotten, its partners and the
listeners learn of it; what a listener shows is what is registered; a slow or
dead socket stalls nobody.

Hard: sockets end at any point; a task per outgoing message, so order is lost;
the peer is entered in the map after its tasks run; peers may hold all the
roles at once, even a session with themselves.

### 1.2 The element side

| component | state | operations | interacts with |
|---|---|---|---|
| **Default signaller** `plugins/src/signaller/imp.rs` | sender, send and receive task handles, address | connect (spawned by start), receive loop, send SDP and candidates, end a consumer's session, stop (blocks on both tasks) | the server; calls the element from its receive task |
| **Element lifecycle** `plugins/src/webrtcsink/imp.rs` | state lock: signaller state, discovery results, input streams; settings lock | NULL to READY to PAUSED to PLAYING and back, codec discovery task, maybe start or stop the signaller, prepare and unprepare | signaller, discovery, consumers |
| **Consumer sessions** `plugins/src/webrtcsink/imp.rs` | consumers by peer id: pipeline, pads, mids, processors, links | add, offer created, answer handled, description set, candidates, remove, bus and state callbacks | webrtcbin's promises and signals, each naming its consumer by peer id |
| **Homegrown controller** `plugins/src/webrtcsink/homegrown_cc.rs` | two target bitrates, last control op, averages | loss control, delay control, apply | consumer statistics, encoders |
| **GCC estimator** `plugins/src/gcc/imp.rs` | detector (groups, filter, threshold), estimates, paced buffers, clock | feedback event, push, pacing task, property changes | webrtcbin's transport feedback; the element's encoders |
| **Statistics server** `plugins/examples/webrtcsink-stats-server.rs` | list of listeners | broadcast to each, drop on close | statistics page |

Correct means: no two locks or joins wait on each other; a signaller that is
stopped is not left connected; a consumer added is removed once and its
signals come in pairs; a callback about a consumer that is gone, or was
replaced by another with the same id, does nothing; bitrates stay within their
bounds and no arithmetic wraps or divides by zero.

Hard: the element's state lock is held while joining tasks that need it; every
callback runs on a thread of GStreamer's choosing with an identifier rather
than a reference; stop may overtake connect; unsigned and signed widths meet in
the bitrate arithmetic.

### 1.3 Not modelled

Whole components: the statistics server (a broadcast over independent channels), the
server binary (I/O and TLS around one accept loop, in which a client that never
finishes its handshake keeps later ones waiting), the browser's input capture
(`www/input.js`, `www/keyboard.js`), the statistics page
(`plugins/examples/webrtcsink-stats`), style sheets, build files and the plugin
registration: presentation, third-party code or pure plumbing.

Parts of modelled components, with what goes unseen for it:

* The packet groups, the Kalman filter, the adaptive threshold and the overuse filter of
  the GCC estimator: real-valued filters whose outcome, a usage, `GccRate` takes to be
  any. So nothing here says that the detector finds an overuse when there is one.
* The state of a consumer's pipeline and the signals to the application: a pipeline that
  refuses to play leaves its consumer in the map (`webrtcsink/imp.rs:1668`), some
  consumers are dropped without the signal that promises it (line 1844), and
  `consumer-added` is emitted with the settings lock held (line 1655).
* In the page: media, the data channel, its candidates, the player's controls.
* In the server: pings, TLS and the accept loop.

## 2. Plan

1. `SignallingHandler`, its abstract specification `SessionBroker`, its proofs
   `SignallingHandler_proofs`, and `SignallingViews`, which composes it with what
   the peers can know, with `SignallingViews_proofs`. *Done.*
2. `SignallingServer`, the handler behind its tasks and channels, and
   `SignallingServer_proofs`. *Done.*
3. `SinkLifecycle`: the element's state changes, the signaller's connection and
   tasks, codec discovery and the state lock; who waits for whom. *Done.*
4. `ConsumerSessions`: one consumer's life in the element with the callbacks
   that outlive it; the negotiation from offer to answer. *Done.*
5. `BitrateControl`: the bitrate properties, the homegrown controller and what the
   encoders are told, over bounded integers. *Done.*
6. `WebPage`: the page's listener, its retries and its sessions, against the handler.
   *Done.*
7. `GccRate`, `GccDetector`, `GccElement`: the controllers of `rtpgccbwe`, its sequence
   numbers and its pacing, each with proofs. *Done.*
8. `SinkLifecycle_proofs` and `ConsumerSessions_proofs`: the invariants of the element's
   life cycle; who is in the map of its consumers, and that their sessions are the
   server's. `BitrateControl_proofs`. *Done.*
9. `WebPage_proofs`: the page's listener, its sessions and its catalogue. *Done.*
10. What is left is liveness, which only TLC can check.

| module | extends or refines | proofs |
|---|---|---|
| `SessionBroker` | the promise | |
| `SignallingHandler` | refines `SessionBroker` | `SignallingHandler_proofs` |
| `SignallingViews` | extends `SignallingHandler` with what peers know | `SignallingViews_proofs` |
| `SignallingServer` | extends `SignallingHandler` with tasks and channels | `SignallingServer_proofs` |
| `WebPage` | extends `SignallingHandler` with the page and a network | `WebPage_proofs` |
| `SinkLifecycle` | the element, seen from its state lock | `SinkLifecycle_proofs` |
| `ConsumerSessions` | the consumers' lives in the element | `ConsumerSessions_proofs` |
| `BitrateControl` | one consumer's bitrates | `BitrateControl_proofs` |
| `GccRate` | the controllers of `rtpgccbwe` | `Gcc_proofs` |
| `GccElement` | extends `GccDetector` with the pads | `Gcc_proofs` |

The modules `MC...` give TLC its symmetry, the requests that clients make or the
distances of reports. In each module a definition just above another with almost the
same name is a variant with a plausible bug, which nothing uses: each property of a run
is violated when one such variant takes its place (PROJECT.json, "mutants").

## 3. Modules

### SignallingHandler

`Handler`'s fields are the variables, one action per function of the dispatch
(`HandleMessage`), `RemovePeer` for an input without a message, and `PopItem`
for the branch of `poll_next` that yields. `poll_next` takes an input only when
`items` is empty, and so do the actions. Maps are functions on their sets of
keys; `Option<PeerId>` is a set of at most one peer. Iteration over a `HashMap`
or `HashSet` is a choice among all orders (`SetToSeqs`). A refused request is
`Reject`: an `Error` to the sender and nothing else. The contents of SDP, candidates
and error texts are left out, since the handler does not look at them.

An `unwrap()` on a missing producer would be a panic; `SessionsAgree` is the
invariant that excludes it.

### SessionBroker

The promise: roles, and a set of (producer, consumer) pairs that grows and
shrinks one session at a time, or loses all the sessions of one peer that
leaves. `SignallingHandler!ImplementsBroker` is the refinement: `sessions` is the
set of pairs that the `producers` map lists.

### SignallingViews

The handler with an observer at each socket. A client counts its session links
with each other peer: up by one for its own accepted `StartSession` and for a
`StartSession` it reads, down by one for its own accepted `EndSession` and for an
`EndSession` it reads. Counting, rather than a set, is what the protocol allows:
two peers can be in two sessions, one in each direction, and `EndSession` names
the peer only. A listener keeps the catalogue as the web page does. Items are
read in the order the handler yields them; `SignallingServer` gives that up.

### SignallingServer

`accept_async` is split where other tasks run in between: `Accept` (the tasks are
spawned), `Insert` (the peer enters the map). The receive task is `ReceiveText`,
`ReceiveEnd`, `SayGone`, `TakeOut`, the removal task `CloseChannel`, the handler loop
`HandleInput` and `DispatchItem`, each spawned send `FinishFlight`, the send task
`SendText`, `SendFails` and `SendClose`. A text's contents are chosen when the
handler takes it. `Leave` is a client, or the network, ending its WebSocket: from
then on nothing can be written and the receive task, once it has handed over
what it read, sees the end.

From futures-mpsc the model takes that a bounded channel has a place for each sender
beyond its buffer. A sender always puts its item in; if that is more than the buffer, it
then waits (`parked`) until its turn comes with an item taken out (`Enqueue`, `Unpark`).
So the handler's channel holds as many items more as receive tasks have one parked
(`WaitingAreCounted`), and a message for a peer, put in by a fresh clone of its sender,
always finds a place (`Buffer`). A closed channel still delivers what it holds.

A peer whose receive task ends before `Insert` has put it in the map is inserted
after its own removal and stays there; `TasksEnd` therefore speaks of the peers
whose receive task is still reading when they are inserted.

Left out: pings (no state depends on them), TLS, the handshake, and the accept
loop, which serves connections one after the other.

### SinkLifecycle

The element from the point of view of its state lock. `current` is the element's
state, `app` where the application's thread is in a state change; `streams`,
`inCaps`, `outCaps` and `prepared` are the fields of `InputStream`, and `codecs`, `done`,
`abortHandle`, `doneReceiver` and `signaller` those of `State`. A section of code that
takes the lock and does not wait inside it is one action, because nobody sees
its middle. Only `unprepare` waits inside, on the discovery task and then, in
`Signaller::stop`, on the send and receive tasks: it is `RemoveAll`, `StopSignaller`
and `FinishUnprepare`, and `locked` holds between them. All other sections have
`~locked` in their guard.

`tasks` are the discovery tasks that `sink_event` spawns, in order. A phase is a
place where the task can be overtaken: spawned but its handles not yet stored,
stored, being polled, waiting for the discovery pipelines, back from them,
reporting. `Abortable` looks at its flag before a poll and not inside one, so that
`Poll` is the only step at which an abort takes effect.

`links` are the signaller's connections, in order: the connect task, the channel
and its send task, and the receive task with the message it has in hand, which
calls the element (`AddConsumer`, `Negotiate`, `RemoveConsumer`). The send task ends when
its channel is closed (`EndSend`), or when the WebSocket refuses a message (`FailSend`).
`stored` is the one that the signaller's own state refers to; `StoreLink` drops the
handles of an earlier one.

`Habits` are the applications considered. A hurried one stops whenever it likes; a
patient one stops once discovery and the connection attempts are over. `Chatty`
says whether the server may still speak while the element stops. `hurries` keeps
the choice, so that a property can be about one of them.

Of a consumer only its presence is kept. Assumed: upstream is started after the
sink, so that caps reach a pad only in Paused or Playing, and deactivating a pad
clears its events. Left out: a `prepare` that fails, properties, caps that change
during a run (refused by the code), pads released, errors posted on the bus.

### ConsumerSessions

`consumers` is `State.consumers`; `made` are all the consumers ever made, so that a
callback can outlive the one it was made for. `step` and `adding` are the receive
task inside `add_consumer`: waiting for the state lock, about to negotiate, about to
play. It holds the settings lock all that time, and a guard `step = "idle"` stands
for that lock being free. `connecting` is `on_remote_description_set` between two
streams, with the state lock held; `Locked` is that, or the lock poisoned by a
panic (`panicked`). Everything else under the state lock is one action.

The `ops` of a consumer are the promises its webrtcbin has to reply to, in order:
`OfferCreated` and `RemoteDescriptionSet`. As in the code they find their consumer
by the peer's identifier, and the second does not look at the reply. `Break` is a
failed connection, an error or an end of stream; `HandleBreak` its callback. After
`finalize_consumer` the pipeline is stopped by another thread (`ShutDown`), until
when callbacks keep coming; those left may come later still, or never.

The clients are external: `client` is where a session is. `inbox` counts what the server has
still to deliver. Each of its messages is sent by a task of its own (`server/mod.rs:76`), so
that any of them may be the next that the receive task reads (`Coming`, `Reads`); `overtaken`
are the peers whose end it read before their start. `outbox` is what the signaller's tasks have
still to send, in any order. A `patient` client asks for a session when nothing is left of its
earlier one and every other client is settled or has its streams; a `crowding` one does not mind
the others, a `returning` one not what is left of its own. A client answers an offer once.

Assumed: the signaller's connection is stored, and answers are well formed: of the unwraps
in `connect_input_stream` those of payloads and of a second source are modelled (lines
839-877), those of the answer's media and caps (lines 896-909) are not. Left out: candidates and
statistics, which change no session; `unprepare`, which `SinkLifecycle` has; the
state of a pipeline; the signals to the application.

### BitrateControl

One consumer, from the properties to its encoders. `SetProperty` is an application in
Ready, as the properties' flags ask (the heuristic and the first bitrates are choices
of the instance); `AddConsumer` copies `CCInfo`; `Answer`,
`ConnectVideo` and `Connected` are `on_remote_description_set`, which holds the state
lock, with one encoder for each video stream. Then `LossControl`, on feedback, and
`DelayControl`, on the statistics polled every 100 ms, each choose an operation, and
`Apply` is `apply_control_op`: the target of the operation's controller, the share of
the lower target, the FEC percentage and the encoders. `op` is the last operation.
A `panic!` ends in `panicked`, the state lock poisoned: an overflow where the build
checks arithmetic (also of the sum of the encoders' first bitrates, before there is any
feedback), `clamp` with limits in the wrong order, a division by no encoders.

Bitrates are whole numbers in a unit of the instance; `Word` stands for 2^32 and `FecFrom` for 2
Mbit/s. Factors are in percent; products and quotients are truncated towards zero (`Quotient`),
as the casts and the division of the code do; a rounding of the float before its truncation is
not modelled. The fourth root of a high delay factor is any of three values between its bounds.
The average and variance of the target decide only whether it is below, in or above the last
congestion window: `window` says whether there is one, and the model takes any of the three.
`network` is rough, with any feedback, and may become calm for good. Left out: the resolution
and framerate that `set_bitrate` picks by thresholds, and stuffing, which nothing reads back.
The estimate of `rtpgccbwe` is any within the limits it was given, which is what `GccRate` shows
of it (`ToldInLimits`, in `RateInv`).

### WebPage

The page's JavaScript runs to completion, so each handler of an event is one action.
`page` is the listener: `ws` the socket that `ws_conn` names, `attached` those with
their handlers on, `timers` the reconnections that are due, `entries` how often each
producer is in the list. A session is a socket with a `target` and a peer connection,
whose promises are the entries of `chain`, done one after the other (`Operate`) or refused
by the browser (`Refuse`). A connection that fails has an error event and a close event,
one that is closed only the second (`ListenerEnds`), and the handlers of each are those
attached by then.

The server is `SignallingHandler`, action by action: `HandleAsked` takes a request of a socket,
`HandleEnd` its end, `Dispatch` yields an item. Of the server's tasks only what a client sees is
kept: requests of one socket in order, replies in any order (`Deliver`), and that what is
yielded for a peer that is not in the server's map yet is dropped (`Enter`, `GoesWithout`;
`server/mod.rs:74`). A webrtcsink registers (`Come`), leaves, and is told of sessions. For each,
tasks send the offer and a candidate in any order (`Say`), or less: it may fail to add the
consumer, or lose its description. It may end any session it was told of (`EndOf`), for a broken
pipeline, a stream that ended or an answer that is not fit. `troubled` are the sockets that were
cut, had a message overtaken or dropped, or whose producer ended the session or did not offer
it; `unserved` those of them that a dropped message or a missing offer leaves waiting. The
properties that promise more to the others name them. `Crash` loses all that the handler knew,
and the clients learn of it one by one (`Lose`).

### GccRate

A report (`Feedback`) is one action: the delay controller, then, if it changed nothing, the
loss controller, both through `SetBitrate`. The notification of the property comes
after the lock is given back (`Notify`). The time since an operation is "recent" or "past"
(`Pass`), the 100 ms or 200 ms that the controllers wait for. Usage, received bitrate
and loss are anything that their sources can be: a received bitrate of nothing or of
the largest word when packets overtook one another or arrived at once, an average that
is not a number once a report was empty. `network` is rough and may become calm or lossy
for good, for the two liveness properties.

### GccDetector and GccElement

`GccDetector` relates the 16 bits of a report to the packet's true number: `newest` is
the true number, kept by the model, and `extended` what the code makes of it. `received` is
the window behind the received bitrate.

`GccElement` adds the pads. `src_activatemode` holds the state lock from `Deactivate` to
`Deactivated`: the pad is "locked" until the task is told to stop (`StopTask`), when it may
have begun another call, and then "stopping" until that call has ended. Every other
section under the lock is one action with `Unlocked` in its guard. An activation fails
where there is no thread for the task (`Activate`). `task` is where the src pad's
task is: between two calls, called, waiting for its clock, pushing (outside the lock),
back from the push with a result to store, or paused. `CreateList` takes from the bucket
as many buffers as the budget and the 30 ms limit ask for. All buffers have the same
size here, whatever it is.

## 4. Runs

| run | instance | shows |
|---|---|---|
| `handler` | 3 peers, 2 metadata values, any roles, with what each peer knows | `HandlerInv`, `EndIsNotified`, `RelayedInSession`, `ImplementsBroker`; `ViewsInv`, `LinksExact`, `CatalogueTrue` |
| `server` | one producer and one consumer and listener, two texts each | `ServerInv`, `LinksSettle` |
| `server_live` | one producer, one consumer | `DepartedIsForgotten`, `PartnerLearns`, `TasksEnd` |
| `sink` | 2 pads, 1 consumer, 2 starts, 1 message per connection, both habits, the server may speak at any time | `SinkInv`, `CapsAreThere`, `NoOrphan`, `PatientIsQuiet` |
| `sink_live` | 1 pad, 2 messages per connection, a patient application, a server silent during stops | `StopEnds` |
| `consumers` | 2 peers, 2 streams, 2 sessions, all habits | `ConsumersInv`, `SessionsMatch`, `PatientNeverPanic`, `ServedInTurn` |
| `bitrates` | up to 2 encoders, 3 first bitrates, limits set at will, each heuristic | `BitratesInv`, `SensibleNeverPanics`, `EstimateHolds`, `OpsKeepTheirSign`, `Recovers` |
| `page` | 2 connections of the listener, 1 session, 1 producer, a crash at any time, cuts, drops and overtaking | `PageInv`, `RemovalsFind`, `CatalogueSettles`, `OnlyTroubleEnds`, `EndsAtServer`, `ShowsProducers`, `Settles` |
| `gcc_rate` | limits 50 and 54, starts below, in and above them, any reports | `RateInv`, `OveruseLowers`, `HeedsLoss`, `Recovers` |
| `gcc_element` | 3 buffers of 2 bits, 3 reports up to half a cycle apart around a wrap, 2 activations | `ElementInv`, `NumbersAreTrue`, `BuffersFlow` |
| `sink_stop` | 1 pad, 1 start, a hurried application | violated: a stop that has begun ends |
| `consumers_crowd` | 2 peers, 1 stream, crowding clients | violated: a client gets what it is owed |

The invariants whose names end in `Inv` are conjunctions of named parts, each stated by a
comment of its own in its module: the module's type invariant, and what its other
functions rely on between any two steps.

Three peers are enough for the handler: every rule relates a peer, its partner
and one bystander (another consumer, another producer, a listener). Peers are
interchangeable, so the run uses symmetry; it checks no liveness.
In the server's runs identifiers are used once, as UUIDs are, so an instance
comes to rest when both sockets are gone: deadlock is not checked there.
`MaxTexts` bounds what a client sends and `MaxPending` the messages on their way to
one peer. Two in flight to one peer are what it takes to reorder. With a buffer
of one item both receive tasks can be parked behind it.

In the element's runs, two pads are what it takes for the caps to arrive in
pieces and for a second discovery to overlap the first; two starts, for what
the first left behind to meet the second; a message on each connection, for a
consumer that is added while the element stops. Two messages on one connection, the
consumer added and removed, are in `sink_live`.
Pads are interchangeable. An application may leave its element alone forever,
so deadlock is not checked.

In the sessions' runs, two sessions are one client that comes back, or two that
meet; two streams are what it takes for connecting to fail half-way. `Habits` are
all considered in one run, each property naming those it is about.

In `bitrates` the limits are 40 and, with the 1.5 that `do-fec` asks for, 60, with FEC
above 50: narrow, so that all pairs of targets are reached, and wide enough for every
factor to move a target. Two encoders are what it takes for shares, totals and limits
to differ; a first bitrate of 28 is below the limits, and two of 500 do not fit in an
i32. Asking for 70 at least, or for a
maximum that saturates, gives limits in the wrong order. A panic is the end of
the instance, so deadlock is not checked.

In `page`, two connections are one that fails and the one that takes its place; the bounds
on cuts and crashes leave a connection for it, without which nothing could recover.
One session and one producer are what it takes for every order of requests,
candidates, departures and ends. A page
nobody uses stands still, so deadlock is not checked.

In `gcc_rate` the limits are near each other, so that all pairs of targets are reached,
but far enough for every factor to move a target (nineteen twentieths of 50, 108 percent
of 50); starts below, in and above them are the three cases of a first report. Received
bitrates are none, less than the minimum and the largest word; losses are on each side
of the two thresholds. In `gcc_element` three buffers overfill the bucket, and the first
number, 65534, has reports on both sides of a wrap; with jumps of -32767, -1, 1 and 32767
they are as far apart as 16 bits can tell. An element may be left alone, so deadlock is
not checked.

**Fairness** (server_live). The executor runs every task that can run: weak fairness for the
handler loop, each spawned send, the insertion of a peer, the receive task's end, the removal
and the send task. A receive task that waits for the handler's channel is woken in its turn,
which is part of the model. For the send task this assumes that a client that stays reads its
socket, or that the write fails. Nothing is assumed of clients: they need not connect, send or
leave.

**Fairness** (sink_live, sink_stop). A state change that has begun goes on, every
discovery task, connect task and send task that can run runs, a server answers a
Close, and whoever waits for the state lock or the signaller's lock gets it in
turn, since both are handed from thread to thread: strong fairness where a step
needs a lock. Nothing makes the application, upstream or the server begin
anything.

**Fairness** (consumers, consumers_crowd). The receive task, the webrtcbins' threads, the
tasks of signaller and server and the threads that stop a pipeline go on as long as any of
them can: weak fairness for all of it at once, which is enough, since each of these steps
uses up something that is bounded. No client has to come, answer or leave. `ServedInTurn`
is checked under exactly the fairness under which `AllServed` fails: there every thread
waits for another.

**Fairness** (bitrates). The statistics of a consumer are polled by a timer, and a
receiver that stays sends feedback: weak fairness for both controllers. The network
need not become calm; `Recovers` is about what happens once it is.

**Fairness** (page). What runs by itself (the server, the page's promises and timers, the
delivery of messages) goes on as long as any of it can: weak fairness for all of it at
once, which is enough, since each of these steps uses up something that is bounded. No
user, producer, operator or network has to do anything; `ShowsProducers` and `Settles`
assume that the server in the end stays up.

**Fairness** (gcc_rate). Reports keep coming, notifications are made, and time passes.

**Fairness** (gcc_element). The task's thread runs and its clock's time comes. Nobody has
to stop the pad, or to send buffers or reports, and downstream
may refuse.

## 5. Findings

* **A stop that does not end** (`sink_stop`). `unprepare` joins the discovery task and
  the receive task with the state lock held. A discovery task that was polled
  before the abort and wants to look at the streams, or a receive task with a
  `StartSession` in hand, waits for that lock, and the stop for the task.
* **Two locks in both orders** (`consumers_crowd`). `add_consumer` holds the settings
  lock and wants the state lock; the callback of another consumer's answer holds
  the state lock and emits `encoder-setup`, whose default handler wants the settings
  lock.

More consequences show in the models and are not listed as findings, some because
no text of the repository speaks of them:

* A discovery task whose handles were not stored when `unprepare` looked for them
  is neither aborted nor awaited: it can find the element in Ready, or in its next
  run, with a new pad whose caps are not set yet, where it unwraps them.
  `CapsAreThere` is therefore stated for an application that waits.
* A stop that overtakes the connect task finds no connection to close, and the
  task stores an open one in a stopped element. No stop closes it as long as the
  signaller is not started again: `maybe_stop_signaller` does nothing with one that is
  stopped (`webrtcsink/imp.rs:718`). `NoOrphan` names these connections, and
  `PatientIsQuiet` is stated for an application that waits.
* `end_session` and `handle_ice` decide by the sender's producer role when it has one: a
  peer in a session as a consumer that also registered as a producer gets an
  error for its `EndSession` and its candidates.
* Feedback for a consumer without video divides by zero encoders in the homegrown
  controller, with the state lock held; `SensibleNeverPanics` is about consumers with
  video. It is also about feedback: the first bitrates that applications give the
  encoders are added up in an i32 (`webrtcsink/imp.rs:943`), within which two of them
  may not fit.
* A decrease of the loss controller starts from the target on delay, and so may raise
  a target on loss that an earlier, heavier loss had lowered: `OpsKeepTheirSign`
  leaves it out. `Recovers` needs a minimum of 34 bit/s or more, below which 1.03
  times a bitrate truncates to itself.
* Each encoder of a consumer is given the whole of rtpgccbwe's estimate, however many
  there are: `EstimateHolds` is about one encoder.
* Each outgoing message of the signalling server is sent by a task of its own
  (`server/mod.rs:76`), so a client can read the end of a session before its start. An
  element then keeps the consumer it makes for that start, with nobody in session, until
  it breaks (`SessionsMatch`, `overtaken`). `LinksSettle` and the page's `troubled` allow for
  it as well.
* What the handler answers before a connection is in the server's map is dropped
  (`server/mod.rs:74`). A page that loses its `registered` asks for no list and shows
  nothing, a session that loses it never starts (`CatalogueSettles`, `ShowsProducers`,
  `Settles`: the sockets in `troubled`, and of those the `unserved`).
* A removal that overtakes the list or its own addition finds no entry in the page, which
  throws (`webrtc.js:405-407`): `RemovalsFind` is about listeners for which nothing was
  overtaken or dropped.
* The callback of a consumer's answer, late, finds the next consumer of the same peer
  (`webrtcsink/imp.rs:1946`) and unwraps a payload that no answer has set (lines 839-856).
  `PatientNeverPanic` excepts clients that come back so soon.
* Setting max-bitrate with `do-fec`, the default, multiplies it by the old maximum
  (`webrtcsink/imp.rs:2380-2386`). The product saturates; the homegrown controller then
  reads a maximum of -1 and `clamp` panics. `SensibleNeverPanics` is about limits in the
  right order.
* In the page, the handler of a failed `createAnswer` calls `setError` without its session
  (`webrtc.js:129`) and throws: the session stays, unanswered. `Settles` has this exception.
* A report without packets makes rtpgccbwe's loss average not a number, for good: losses
  are no longer heeded. `HeedsLoss` and `Recovers` except it. An estimate set below
  min-bitrate before the start makes each increase on delay look like a change, so that
  the loss controller may never be asked (`Recovers` names it).
* rtpgccbwe stops its pad's task with the state lock held (`gcc/imp.rs:1121-1123`), for
  which the task waits in nearly all of a call: a stop that finds the task in a call, or
  at the beginning of one, waits for ever, unless the task pauses before it wants the lock.
  The model has these states; no property says more of them.
* An activation of rtpgccbwe whose task cannot be started leaves upstream told that all is
  well (`gcc/imp.rs:1118-1119`). `NoSilentPause` names it (a "failed" pad).
* `meta` is kept per peer, so that a producer that also registers as a listener replaces
  what its listeners were told of it.
* The bound of a peer's channel holds nobody back in the signalling server, since each
  message is put in by a sender of its own, which has a place of its own; that of the
  handler's channel makes a receive task wait only behind its own last message.
* An `EndSession` that the element sends for a consumer it gave up can reach the
  server when the same peer is in its next session, and ends that one; the element
  is not told. `SessionsMatch` is stated for clients that wait.
* A consumer that `add_consumer` could not make is logged, and the client waits for
  an offer: `SessionsMatch` and `ServedInTurn` except it (`refused`), and in the page
  `Settles` (`unserved`).

## 6. Proofs

`SignallingHandler_proofs`, for any set of peers, any metadata and any sequence of
requests and departures; the only assumption is that `NoMeta` is metadata.

* `TypeCorrect`. One lemma per handler. The sets the code walks are finite
  (part of the type), which is what makes the walk a sequence.
* `SessionsAlwaysAgree`. `SessionsAgree` is inductive as it stands. The argument is in
  `RemovePeerAgrees`: a producer's sessions are ended before the leaving peer's own
  session is looked up, so its partner, if any, is another registered producer,
  and no consumer of the leaving producer can be listed by anybody else.
* `MetaAlwaysMatchesRoles`, which needs `SessionsAgree`: `end_session` and `remove_peer`
  insert into the consumers map, and only agreement shows that the key was there.
* `HandlerImplementsBroker`. Every step is a broker step or a stutter.
* `EndIsAlwaysNotified`. Two steps can take a session away. In `EndSession` the notice
  is what is queued; in `RemovePeer` the session is either the producer's, and so
  among those the walk reaches (`WalkReachesAll`: a walk over a finite set visits
  every member), or its consumer is the peer that leaves, and the producer the
  partner that is told.
* `AlwaysRelayedInSession`. Only `PeerMessage` queues a forwarded message
  (`OwnMessages`, `WalkQueuesOnly`); for an answer, which is checked against the
  consumer's side only, `SessionsAgree` puts it in the producer's session.

* `HandlerInvHolds` is the conjunction of the first three, the run's invariant.

`SignallingViews_proofs`, for any set of peers and of metadata. The views watch the handler
(`ViewsFollowHandler`: every step of theirs is one of its steps or leaves it alone), so
that what is proved of the handler holds here.

* `LinksAreExact`. While items are queued a count lags behind the handler's sessions.
  `LinksBalance` says by how much: the count and the starts queued are the sessions and
  the ends queued, and never are starts and ends of one pair queued together. What an
  action queues is counted by the lemmas of `SignallingHandler_proofs`, the walks of
  `RemovePeer` included: each session the departed peer was in is told once.
* `CatalogueIsTrue`, of the producers' identifiers; their metadata may be out of date
  (section 5). `CatalogueBalance`: one piece of news at most is on its way to a
  listener that has a list, it is news to it, and with it the list is that of the
  producers there are. `NoSurprise` follows from it, and not from `CatalogueExact`, which
  says nothing while items are queued. `ListsAreCurrent`: a list on its way is the only
  item there is, and still true.
* `ViewsInvHolds`, which needs the balance for its types: a count stays in 0..2.

`SignallingServer_proofs`, for any peers, sizes of channels and kinds of requests
(`SizesAreNumbers`, `AsksAreKinds`).

* `ServerInvHolds`. `TaskInv` says how far the tasks of a peer have come, and that behind
  each of its texts in the input channel its departure is waiting once its receive task
  has ended. So no text is handled after the departure, and a role that is left is one
  of a live peer or of one whose departure is to be handled. With it every step is a
  step of the handler or leaves it alone (`ServerFollowsHandler`), and the server keeps what
  the broker promises (`ServerKeepsPromises`). `WaitingAreCounted` is inductive with the
  types: a task parks itself exactly when its item is one too many, and each item taken
  out lets one go, so that there are as many parked as there are items beyond the buffer.
* `LinksAlwaysSettle`. `ServerBalance` counts the starts and ends wherever they may be: in
  the handler's queue, flying as a task of their own, in the peer's channel. Only the sum
  matters, which no order of delivery changes; for a peer that lost an item nothing is
  claimed.

`Gcc_proofs`, first about `GccRate`, for any limits in the right order, starts, factors and
reports (`LimitsInOrder`, `RatesFit`).

* The inductive invariant `RateIInv` says of `rate` that it is `Sound`: its fields have their
  types, the estimate is the lower target in its limits, or still the start (`Coherent`),
  and is in the limits or a start (`Known`); and of `told` that it is the estimate unless
  a notification is due. What is told could not be inductive alone: `set_bitrate` compares
  the new estimate with the targets as they were, not with the estimate, and only
  because they determine it does "unchanged" mean that it has not changed.
* `RateInvHolds` with its parts, and `OveruseAlwaysLowers`: a decrease on delay sets its
  target to nineteen twentieths of the estimate at most (`Heeded`), no controller that is
  asked after it touches that target, and by `Coherent` the estimate is not above it.

`Gcc_proofs`, then about `GccElement`, for any first number, any jumps of less than half a cycle
(`FirstInCycle`, `JumpsAreNear`, `InstantsAreCounted`), any sizes and bounds (`Sizes`).

* `ElementIInv` is the conjunction of `Numbers` (the code's number is the true one), `Windowed`,
  `Told`, `Order`, `Debt` and `Typed`. `Told` adds to `NoSilentPause` that a task about to
  be called has its clock entry, without which it would pause and tell nobody.
* `NumbersAreAlwaysTrue` is arithmetic on quotients by 65536, one case for each branch of
  the unwrapping. `AlwaysInOrder` follows from the numbers of the buffers in bucket and
  list being consecutive. `DebtIsAlwaysSmall` needs the minimality of the count that
  `create_buffer_list` stops at. `ElementInvHolds` is their conjunction.

`SinkLifecycle_proofs`, for any pads, consumers, numbers of starts and messages, and any
application (`BoundsAreNumbers`).

* `SinkInvHolds`. That the signaller runs when the element plays with discovery done needs
  more than the state that is committed: `PausedToPlaying` tests for discovery before
  Playing is committed, so that `Discovered` says it of the time between the two as well.
* `NoOrphanHolds`, for any application. `Linked`: a connection's channel is open as long as it
  is being made, and its receive task does not start before there is a WebSocket. What
  replaces a stored connection closes it, so that an open one is stored or being made
  (`InReach`); and a stop of a started signaller closes what is stored, so that only those
  being made are left open.
* `CapsAreThereHolds` and `PatientIsQuietHolds`, for one that waits (`hurries` is false).
  `Searching` follows a discovery task from the caps it read to the caps it stored, and says
  that it runs only outside of Ready, where no pad is added. `Found` keeps what it found
  until the reset in unprepare, so that the signaller is stopped in Ready. `OneLink`: there is
  then one connection at most, in the making, stored or being stopped, so that unprepare
  waits for the one that could bring a consumer, and `Emptied` keeps what it emptied.

`IInv`, their conjunction with the types, `Place` (where the application's thread is, and who
holds the lock) and `Seen`, is kept by each of the 25 actions, a lemma each. The steps of a
connection and of a task share one lemma each (`OfLinkKeeps`, `TaskKeeps`), and so do the
two callers of `maybe_start_signaller` (`MaybeStart`).

`ConsumerSessions_proofs`, for any peers, streams, numbers of sessions and habits
(`HabitsAreKnown`).

* `ConsumersInvHolds`, with `IInv`: the types, in parts, `LinksOfPresent`, and in `Target` that
  the consumer whose streams are being connected is in the map. This is what the state lock
  is for in `on_remote_description_set`: whoever else would remove that consumer waits for
  the lock (`TargetUnlocked`), and a stream that is linked is one of a consumer in the map.
  Every other step either leaves who is in the map and the streams of those that are not
  (`Alike`), or finalizes the one it removes (`RemoveKeeps`).
* `PatientNeverPanics`, for clients that are not `returning`. `Sessions`: what a peer's
  session goes on with is in one place at a time (`InOnePlace`): its start or its answer
  in the inbox, the consumer in the making, the callback that webrtcbin owes, the offer on
  its way or with the client, the streams. And a callback finds the consumer it was made
  for, with its answer set if it is that of an answer (`OwnCallback`), so that there is a
  payload to unwrap. That an answer which is read meets such a consumer is `AnswerFits`.
* `SessionsDoMatch`, for the same clients, from `Sessions` and `Agree`: while a session
  starts there is nothing yet of what comes later, an end is told only of a consumer that
  is gone, who is out and has a consumer, or one still to be made, has an end coming or one
  that overtook its start, and who is in has a consumer, or one in the making, or one whose
  end is told, or was refused.

`BitrateControl_proofs`, for any word, limits that are set in whatever order, units, first
bitrates and feedback, and whether or not the build checks its arithmetic (`WordIsEven`,
`RatesFit`).

* `IInv`. `Told`: the encoders hold their share of the lower target, as it was clamped, less
  what their units cannot say, whichever controller spoke last. `Windowed`: where there is
  a congestion window the target on delay is in the limits, so that an addition to it fits;
  before the first decrease it may be anything that first bitrates add up to. `Staged`: what
  a consumer's stage allows. `Budgeted`: under rtpgccbwe an encoder keeps to the estimate
  with its FEC.
* `TypeCorrect` needs that no share is above the maximum even where the cast of the limits
  to an i32 wraps (`MostIsLimited`), or a percentage could exceed 50 (`FecFits`).
* `BitratesInvHolds` and `SensibleNeverPanicsHolds` follow from `Told` and from what
  `Sensible` says of the products (`SensibleFits`). `EstimateAlwaysHolds` is `BudgetHolds`,
  an inequality between two truncated quotients with the same divisor.
* `OpsAlwaysKeepTheirSign`. A factor moves a target its way once it is clamped, a negative
  one too (`TimesClamped`); the lower of two targets follows the one that moves, or stays
  (`LowerFollows`); shares and encoders follow the lower target (`EncoderFollows`).

`WebPage_proofs`, for any number of connections, sessions and producers
(`PeersAreDisjoint`). Every step but a crash is one of the handler or leaves it alone
(`PageStepIsHandlerStep`), and a crash leaves a handler that knows nobody, so that
`HandlerInv` holds here too.

* `PageInvHolds`, with `OneListener`: either there is a timer, with no connection, or one
  connection, which is the one `ws_conn` names and the only one with its handlers on.
  `ListensOnce` alone is not inductive: of a page without a connection it does not say that
  `ws_conn` is null and that no handlers are left on, which the next timer relies on.
* `OnlyTroubleAlwaysEnds`. Where a session has got to is spread over its requests, the
  handler's queue, its messages, the element's send tasks and the operations of its peer
  connection. `Healthy` says, for a session that nothing has troubled and whose producer is
  there, that it is in one phase after the other (`Unregistered`, `Waiting`, then
  `Talking`): the handler can refuse none of its requests; each candidate, wherever it is,
  has the offer before it, and each operation `addCandidate` has its `setRemote` before it,
  or done. That a session is opened only for a producer that has come (`ShownCame`) needs
  the same of the announcements queued and on their way (`ItemsAnnounced`,
  `FlyingAnnounced`). What others do is not seen by a session (`SameView`, a lemma for each
  kind of step), so that each phase is followed through its own steps only. A session is
  among the troubled as soon as its producer ends it or is found not to offer it, or a
  message for it is dropped, so that of a healthy one the offer is still to be said, or was.
* `CatalogueAlwaysSettles`. `ListenersFollow`: what a listener has still to read (`Awaits`) is
  its messages and at most one item that the handler has queued for it. It is to learn that
  it is registered, has asked for the list, is to read it or has read it (`Catalogued`), and
  once there is a list, that list, or else the entries shown, come to who is registered now
  by the announcements behind it (`Follows`): none, the one that is missing, or, of a
  producer that came and left since, both in that order. With nothing to read the entries
  themselves must be right. A message overtaken or dropped puts the socket among the
  `troubled`, of which nothing is claimed.
* `RemovalsAlwaysFind`, from the same `Follows`: with the list read, a removal that is next
  has no announcement before it, and so the entry is there (`RemovalFollows`).

Only model-checked are the liveness properties: `DepartedIsForgotten`, `PartnerLearns`,
`TasksEnd` and `StopEnds` of the server and the sink, `ServedInTurn`, `EndsAtServer`,
`ShowsProducers`, `Settles`, `HeedsLoss`, the two `Recovers` and `BuffersFlow`. Liveness under
fairness is out of the prover's reach, as are ENABLED and induction over data. Every other
property of a passing run is a theorem.
