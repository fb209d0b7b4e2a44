# Verification of flare-core

TLA+ specifications of [flare-core](../src/README.md), a Rust toolkit for long
connections (WebSocket, QUIC, TCP): the modules, the TLC configurations that
check them on small instances, and TLAPS proofs for every instance.
`PROJECT.json` lists the runs, the mutants that show each property can fail, the
source lines of every definition, the hazards and the theorems. Paths below are
relative to `src/src/`.

## 1. Inventory

| Part | State | Operations | Interacts with |
|---|---|---|---|
| Connection manager `server/connection/manager/` | sharded table id → (connection, info), sharded index (tenant, user) → ids, atomic connection and user counters | add (with limit), bind, authenticate, negotiate, touch, remove, cleanup, send, broadcast | called by setup, the CONNECT handler, the heartbeat detector, the application |
| Write queue `manager/mod.rs` | per connection: bounded channel, `closed` flag, writer task, lock around the transport | enqueue, write with timeout, isolate on failure, close in the background | removes its own entry from the table |
| Device strategies `common/device.rs` | none | `check_conflict` | device manager |
| Device manager `server/device/manager.rs` | devices per (tenant, user), reverse index connection → owner, one lock | add, remove by owner, remove by connection | CONNECT handler, disconnect handler |
| Server session `server/transports/server_core.rs`, `connection/device_handler.rs`, `events/observer.rs`, `events/event_wrapper.rs` | per connection: info, inbound queue and its consumer task, disconnect task | set up, CONNECT (parse, authenticate, update, register device, kick, acknowledge, finalise, notify), refuse, disconnect | manager, device manager, transport, application |
| Heartbeat detector `server/heartbeat/detector.rs` | interval task | clean up timed-out connections, stop | manager |
| Shutdown `server/transports/common.rs`, `common/shutdown.rs` | accept gate, running flag | broadcast CLOSE, wait, force close within budgets | manager, accept loops |
| Server transports `server/transports/{websocket,tcp,quic,hybrid}.rs` | listeners | accept, hand over to `setup_new_connection` | shutdown |
| Transport connections `transport/` | observers, closed flag, reader task | attach observer, read, send, close | server and client sessions |
| Negotiation `server/connection/negotiation.rs` | none | parse CONNECT, choose format, compression, encryption | CONNECT handler |
| Client core `client/transports/{client_core,client_core_connect,common,tcp}.rs` | connection state, parser, negotiation flag and failure, pending requests, kick state, frames in flight | connect, handle frames, wait for negotiation, send and wait, disconnect, reconnect | transport, application |
| Client transports `client/transports/{websocket,quic,tcp}.rs` | connection, prepared flag, attempts | connect, reconnect on send, send, disconnect | client core, transport |
| Protocol racing `client/transports/hybrid.rs` | one task and one core per protocol, shared state of the cores | race, pick the winner, detach and close the losers | client transports |
| Client wrapper `client/builder/common.rs` | client behind a lock, `reconnect_gate` | connect, disconnect, send after a reconnect | race, application |
| Client connection manager `client/manager.rs` | a connection state of its own, reconnect task and its handle, attempts | connect, disconnect, send, reconnect with backoff | race, application |
| Client heartbeat `client/heartbeat/manager.rs` | settings, times of the last PING and PONG, timer of the loop | ping, probe, record a PONG, detect a dead peer | client core |
| Message parser and pipeline `common/message/` | parser settings, middlewares, processors | parse, serialise, run | both sides |
| Codec registries `common/{serializer,compression,encryption}/` | names and keys per process | register, look up, detect | parser, negotiation |
| Builders and configuration `{server,client}/builder/`, `config.rs` | settings until `build` | setters, build | everything they build |
| Conversation ids, certificates, errors, generated messages | none | – | – |

Hard behaviour: operations on the table interleave wherever a shard lock is
released or an atomic is touched outside one; every `await` of the CONNECT
handler lets other logins, kicks, disconnects and transport errors in; senders,
the writer and two kinds of closers share one connection; a removed connection
is still referenced by tasks that hold a handle; the two sides switch encodings
at different moments; on the client the read loop, one task per frame, deferred
closes and the caller share one core over successive connections, and the
clients of a race share parts of one core; a shutdown works on snapshots while
accept loops and setups run. The list with source lines is `hazards` in
`PROJECT.json`.

What makes each part correct:

- manager: never more than `max_connections`; counters and index agree with the
  table; an id is under its own (tenant, user) only; what has gone stays gone;
- write queue: order kept, nothing accepted lost while the connection lives, a
  failed or removed connection is closed and out of the table, as far as its
  peer lets a close end;
- devices: index and buckets agree; the strategy's exclusivity holds after any
  sequence of logins; tenants do not affect each other;
- session: racing logins leave one winner, the loser is told and leaves the
  table; nothing unreadable is sent; every end is reported and cleaned up;
- inbound: frames of a connection are handled in order and answered once, and
  hardly anything is handled for a connection that is gone;
- sending: a fan-out misses nobody entitled to it all along, reaches nobody
  outside its audience, and returns;
- transport: the first observer misses no frame, the end is told once to each
  observer, and nothing is told behind it;
- lifecycle: once the gates are closed nobody gets in, nobody is cut off before
  he was told or could not be, stop returns, and a restarted server serves;
- client: a kick is told once, with its reason, before the close behind it; a
  refused CONNECT is reported as refused; no caller waits on a dead connection;
- client layers: losers of a race are closed and do not disturb the winner; a
  client that was disconnected stays down; no circle of waiting callers;
- wire: what either side can lose around the switch of encodings is a frame
  handled at the wrong moment and nothing else, whatever the builders were told,
  and a listener hears what its core hears.

## 2. Plan

Everything is done; the proofs of a row come with its modules.

| # | Module | Content | Checks |
|---|---|---|---|
| 1 | `BoundedRegistry`, `ConnectionManager` (+ `Proofs`) | abstract registry; the interleaved manager implements it | run, proofs |
| 2 | `WriteQueue` (+ `Proofs`) | one connection's write path | run with liveness, proofs |
| 3 | `DeviceConflict`, `DeviceManager` (proofs with 4) | strategies and registry | run, proofs |
| 4 | `ServerSession` (+ `Proofs`) | CONNECT to disconnect; composes 3 with the registry of 1 | run, proofs |
| 5 | `ServerInbound` on 4 (proofs with 4), `Delivery` on 1 (proofs with 1) | inbound queue and handlers; fan-out | 2 runs with liveness, proofs |
| 6 | `TransportConnection` (+ `Proofs`) | reader, observers, methods, end | run with liveness, proofs |
| 7 | `ServerLifecycle` (+ `Proofs`) | start, accept, shutdown, stop, restart | run with liveness, proofs |
| 8 | `Codecs`, `Pipeline`, `Configuration`, `Negotiation`, `Wire` (+ `Proofs`) | from the builders' setters to frames both sides read | run with liveness, proofs |
| 9 | `ClientSession` (+ `Proofs`) | client core: CONNECT, acknowledgement, rejection, kick, close, timeout, reconnect | run with liveness, proofs |
| 10 | `TransportClient`, `ProtocolRace`, `ClientWrapper`, `ClientManager` | a transport's client, the race, the two layers above it; `ClientProofs` | 2 runs, proofs |
| 11 | `ClientHeartbeat` beside 9 | the client's heartbeat in time | the run of 9, proofs with 9 |

## 3. Modules and the code

Composition by EXTENDS: `Delivery` on `ConnectionManager`; `ServerInbound` on
`ServerSession` on `DeviceManager` on `DeviceConflict`; `ClientWrapper` and
`ClientManager` on `ProtocolRace` on `TransportClient`, both in `MCClient`;
`Wire` on `Negotiation` on `Configuration` on `Codecs` and `Pipeline`. By
INSTANCE: `BoundedRegistry` in `ConnectionManager`, as its abstraction.
`MCClientSession` runs `ClientSession` and `ClientHeartbeat` side by side. A
definition `Name_Variant` with a comment that starts with "Mutant:" is a wrong
version of `Name` that some property must catch; nothing else uses it.


**ConnectionManager.** `phase[c]` says where the operation on connection `c`
is; a phase boundary is a point where the code holds no lock or is between two
atomics. Entry and slot are separate: `ReserveConnectionSlot` is the CAS loop,
`InsertEntry` the insertion under the shard lock, `InsertUserConnection` the
insertion into the index while that lock is still held (phase `"indexing"`; no
other step on `c` is possible meanwhile, which is why cleanup waits for it).
`RemoveConnection`, `ReleaseConnectionSlot`, `RemoveUserConnection` are the
three steps of both removal functions; they differ only in whether the shard
lock is held after the entry is gone, which no operation can observe. Rebinding
(`BindUser`, `SetConnectionUser`, `UpdateConnectionNegotiation`) takes the id
out of the old key and then inserts it, as `reindex_user_connection` does.
The `Cleanup*` actions are one call of `cleanup_timeout_connections`: scan shard
by shard, wait for the lock and the close of every connection found, remove what
is still there, subtract the slots at once, filter the index, subtract the users
at once. A close has no timeout (`trait_impl.rs:144-147`): the constant `Deaf` has
the connections whose close never ends, because the peer does not read or somebody
holds the lock for good, and a pass that meets one stays there. Ids are generated and never reused
(`server/transports/common.rs:33`), so one that is gone stays gone. The clock is
the action `TimeOut`. Locks are not poisoned: no code under them panics.

**WriteQueue.** One connection: senders holding a handle, the writer, the
background closer, the closes of the detector, the writes of the handshake that
pass the queue by (`Direct*`), the peer, and removals from elsewhere. The peer may
stop reading (`"stalled"`) and start again: meanwhile no close ends, nor a write
without a timeout, and whoever is at one keeps the lock; only the writer's own
writes are bounded. `closed` is swapped by
removers and stored by the writer, as in the code. The table is one bit. A task
is always spawned from within a tokio runtime; without one the code starts no
writer and leaves the connection open. The error and the timeout arm of
`writer_task` do the same and are one action, in which the frame may have been
written.

**DeviceConflict, DeviceManager.** Pure strategies as operators on sets of
platforms, and the two maps under one lock, so every operation is one step.
`ExclusiveClasses` states what a strategy promises without using
`CheckConflict`. `update_strategy` needs the manager by `&mut`, which nobody has
once it is shared.

**ServerSession** extends `DeviceManager`; the table is a set with atomic entry,
removal and lookup, the interface `ConnectionManager` is shown to provide
(without the limit: a refused connection never starts a session). Per connection
there are three tasks: the consumer that runs the CONNECT handler (`pc`), the
task of the terminal event (`disc`), and the application's pushes (`push`). Each
`await` is a step boundary. A connection handles one CONNECT: the consumer is
sequential, a failed CONNECT removes the connection, and after a successful one
`negotiation_completed` routes frames elsewhere. Frames are abstracted to their
purpose and to the encoding they were written in. KICKED may fail to be encoded
(`KickUnserialized`). CONNECT_ACK and KICKED are written without a timeout: `Hung`
is a handler at such a write towards an open transport. Server and application always
have a device manager and an event handler. `Written` stands for the send of
every transport.

**ClientSession.** One client over its successive connections, numbered as
dialled. The core's fields are variables of their own; `call` is the caller's
operation in progress (they exclude each other, `&mut self`), `frames` the
tasks of frames read, `deferred` the closes put off until those are done,
`clears` the spawned cleanups of the pending map (more than `MaxRequests` of
them at once would find the map empty, so the cap loses nothing). A step is a
stretch of code without an `await`: `handle_connection_event`, run under no
single lock, is taken as one step although two threads may be in it; the
decision about the report, which the code guards with the lock of
`pending_kick`, is the part two threads contend for. The transport is the TCP
client's; QUIC's has the same control, WebSocket's leaves a stale connection to
`Drop` instead of closing it. The server is what `ServerSession` says it
writes: nothing before CONNECT, one answer to it, replies and data only after
CONNECT_ACK, KICKED and CLOSE at any time and as the last frame, and KICKED in
the negotiated format even before CONNECT_ACK. `Plain` says whether the
pre-negotiation parser reads a frame; `PlainFormat` is the case that the
negotiated format is readable by it. `ends` in `HandleKicked` is
`kick::ends_session` of a reason the server chooses. `told` is what the
application's observers hear of closes since the last new connection. `late` is
TRUE when tasks of before the last new connection, or frames a deferred close
did not wait for, were still at work, or an earlier connection was still read,
when the client went on: the core does not tell its connections apart, so they
act on the new one, and the properties about the order of frame and close exclude
that. Left out: `fail_negotiation` (`handle_connect_ack`
does not fail on the frames that lead there), the length of the reconnect pause
and `server_shutdown`, which only chooses it, a heartbeat stopped in the middle
of its probe, a heartbeat disabled by configuration, the forced format (which
differs in the parser only), and a second `disconnect`.

**ClientHeartbeat.** The loop of `HeartbeatManager::start` on one connection, in
units of time: `Tick` lets one pass while the loop sleeps and no answer is
overdue; whatever the loop does between two sleeps takes no time, the lock of the
connection and the write of a PING included. `covered` is `pong_covers_ping`:
instants are not compared, it is FALSE from the dating of a PING until the next
PONG. A peer that is there answers each PING within `RoundTrip`, which is assumed
shorter than the configured timeout and than `PROBE_TIMEOUT`; one that falls
silent may have answers on their way. Settings, NAT timeout and foreground state
change at any time. The loop reads them where the code does: the interval when a
sleep begins, the timeout when it ends. The verdict is what `HeartbeatCloses` of
`ClientSession` does to the connection. `Keepalive` says that a silent peer is
found out within `Patience`, the sum of the waits that can follow each other (one
unit less and TLC finds an order that takes longer), and that a peer that answers
is not given up. Left out: a PING that cannot be serialized, which the code skips
and tries again after the next sleep.

**Delivery.** A call of `ServerHandle` or of the sending half of
`ConnectionManagerTrait` is a record that goes through the stages of the code:
the ids of its target (`ReadIds`), their entries, each under its own lock
(`ReadEntry`; `ReadHandle` for raw bytes), the check of `authenticated` and the
encoding, `try_enqueue` of each, the eviction of a connection whose queue is full
or closed, and the refresh of the ones reached. The operations of
`ConnectionManager` run between any two of these steps. The queue itself is
`WriteQueue`'s.

**ServerInbound.** The queue of `ConnectionHandlerObserverAdapter`, its one
consumer, the choice between awaiting a handler (messages, notifications) and
spawning it (pings, custom commands, events), CONNECT and NEGOTIATION_READY on
the same consumer, and `ServerMessageWrapper`, whose answers are sent by tasks
of their own. A full queue drops the frame, and an answer to a client that is not
authenticated is refused (`refused`), although its message was handled. The consumer looks at the table once
per frame; the tasks of `ServerSession` remove the connection meanwhile.

**TransportConnection.** The methods of the `Connection` trait exclude each
other and run beside the reader; they share `is_closed`, the observer list, the
reader's gate and the writing half. `wire` has what the peer can send, the
different ways to end among them; each protocol's reader maps it to events as
its code does (`ReaderTake`). What a method tells is snapshotted with the list
and delivered one observer at a time.

**ServerLifecycle.** `HybridServer::start` and `stop` go through the transport
servers in order; each start has its own gate and its own accept loop, which
outlives `stop` for as long as it takes to see the gate. A connection is
dialled, in its handshake (a permit), open, in the table, observed. The pass of
`shutdown_connections_within` counts, broadcasts CLOSE, waits for the grace
period, closes each connection within the budget and drops the rest. The broadcast
goes from connection to connection: the queue takes CLOSE (`Tell`), CLOSE cannot be
encoded as negotiated (`TellUnserialized`), the queue is full or closed and the
connection evicted (`TellEvicts`), or the second it has is over before its turn
(`BroadcastTimesOut`). Timers are
steps that may come at any time.

**TransportClient, ProtocolRace, ClientWrapper, ClientManager.** The four
layers of a client, with a frame of the server reduced to an event
(`ClientSession` has the frame handlers in full). A limit of attempts may be `None`,
for none. `TransportClient` is `connect`,
`try_reconnect` and `disconnect` step by step; `ProtocolRace` adds the tasks of
the race, its timeout and the background task that detaches and closes losers;
the other two are alternatives for the layer on top. Locks of a layer
(`client`, `reconnect_gate`, `reconnect_handle`, `is_reconnecting`) are variables
that name their holder. An aborted reconnect loop stops at its next await and
frees what it holds. The loops of a manager are numbered in the order they are
started.

**Codecs, Pipeline, Configuration, Negotiation, Wire.** Encoded data is a record
of the message, the format, the compressor applied and the key; `Parses` says
which parser of which process reads it, fallbacks and detection included.
`Configuration` has the setters of all builders as calls on a configuration,
`Negotiation` what CONNECT declares, what the server decides from it and what
CONNECT_ACK announces. `Wire` runs a connection on these: both parsers, the task
per inbound frame on the client, the parser of the pipeline of a listener, and
frames in both directions at any time. The server may refuse the CONNECT (ERROR),
fail to write CONNECT_ACK, or refuse the connection in `on_connect` (KICKED in the
agreed encoding, right behind CONNECT_ACK), and closes then; its inbound queue
drops what comes while it is full. `Pipeline` is the order of middlewares
and processors and where they stop. A setter takes a value of the type of its
field (`ClientTypes`, `ServerTypes`), so any sequence of calls gives a configuration
of the right shape. Every registry holds what `register_defaults` puts there, and
an application's frames are none of the negotiation's.

## 4. Runs

| Run | Instance | Shows |
|---|---|---|
| `connection_manager` | 3 connections, 2 slots, 1 user, 2 tenants | `WithinLimit`, `IndexExact`, `AtRest`, `ImplementsRegistry` |
| `delivery` | 2 connections, one of which reads nothing, 1 user, 2 tenants, authentication on, 3 calls | `NobodyMissed`, `AudienceOnly`, `TimedOutRemoved`, `CallReturns` |
| `write_queue` | 2 senders, capacity 2, 3 messages, a peer that may stop reading | `FifoDelivery`, `NothingLost`, `NoZombie` |
| `device_manager` | 3 connections, 2 owners, 5 platforms, every strategy | `OwnersExact`, `Exclusive`, `OwnerIsolation` |
| `server_session` | 2 connections of one owner, authentication on, 1 push | `ExclusiveOnline`, `WinnerSpared`, `KickedWasTold` |
| `server_inbound` | 1 connection, authentication on, queue of 2, 3 frames, 1 push | `ReadableBeforeAck`, `InOrder`, `OneAfterRemoval`, `EndReported`, `Answered` |
| `client_session` | 2 connections, 1 request, 1 reconnect attempt, every frame; a heartbeat with 2 settings | `KickOrder`, `TypedRejection`, `Keepalive`, `WaiterReleased` |
| `transport` | each transport, 2 observers, 1 numbered frame | `QuietAfterEnd`, `FirstHearsAll`, `EndReaches` |
| `client_race` | 2 protocols; 2 senders and the application, or a caller and 2 reconnect loops | `LosersQuiet`, `StaysDown`, `LayersMove`, `LosersClosed` |
| `server_lifecycle` | WebSocket and QUIC, 2 connections, 2 starts, 1 handshake at a time | `ShutOut`, `Reasoned`, `Responsive` |
| `wire` | 3 setter calls out of 13, 4 pairs of builders, 4 pairs of registries, an inbound queue of 1, a frame each way | `SwitchLossless`, `CompressionAccepted`, `FlareHears`, `Negotiates` |
| `client_reconnect` | TCP under the manager, attempts without limit | the finding of section 6 |

Why the bounds are enough to meet the interesting cases:

- `connection_manager`: three connections and two slots give a refusal, a removal
  that overlaps an admission, and a cleanup of two at once; two tenants give a
  rebinding.
- `delivery`: the same user id in two tenants, rebound during a call; one call at
  a time, since calls share nothing but the manager. A pass of the detector does
  not overlap a call and no connection times out during one: what a pass does to a
  connection, its removal does too. One connection is `Deaf` and one is not, so the
  detector works with the one and is stopped by the other.
- `write_queue`: a queue of two with two senders runs full, also after the writer
  has started: three messages are one on its way, or written, and two queued.
- `device_manager`: two mobile platforms, two desktop ones and one outside both,
  with three devices of an owner at once.
- `server_session`: two racing logins meet in every pair of handler steps; the
  kick of one by another needs no third.
- `server_inbound`: three frames and a queue of two give a full queue beside a
  frame in its handler; with authentication on, a message can come before CONNECT,
  between it and CONNECT_ACK, and after. Others touch a connection only through its removal, which
  `ServerDisconnect` performs at any time, so there is one.
- `client_session`: two connections let the tasks of the first meet the second.
  The request, data, CLOSE and an end by error are on the first connection only;
  at most one frame of a kind per connection is in flight (`ReadFrame`). The
  heartbeat sleeps for 1 or 2 units with timeouts of 2 and 3, probes for 2 and is
  answered within 1, so that PINGs overtake a timeout, and answers a probe.
- `transport`: two observers, since what differs is who is first; a frame of each
  kind, among them one that ends.
- `client_race`: two protocols give a winner, a loser that is established late
  and one that is aborted; `MaxDials` lets the winner reconnect once. Two loops
  are needed for one aborted beside its successor. WebSocket, which keeps the old
  connection in its field while it dials, races QUIC, which does not; TCP, which
  does as QUIC, is in the other run, and in the proofs.
- `server_lifecycle`: two servers, since closing the gates one after the other
  is the point; two connections compete for one handshake permit; a second start
  overlaps the loop of the first.
- `wire`: three setters are enough for a wish of the client, a default of the
  server and one thing in their way; the registries differ in compressors and in
  whether there is a key. The 13 calls are one or two for each thing the negotiation
  depends on. A queue of one is full as soon as CONNECT or a frame of the application
  is in it when NEGOTIATION_READY comes.

`MaxMessages`, `MaxPushes`, `MaxFrames`, `MaxCalls`, `MaxManaged`, `MaxRequests`,
`MaxDials` and `MaxLives` bound what peers and callers begin, and `ServerSends`,
`Endings`, `FrameKinds` and `Calls` choose what an instance has. Deadlock checking
is off in all but the device run, since a system whose connections have all ended
may stop there.

Fairness. `ConnectionManager` and `Delivery`: an operation that began is a
synchronous call and ends (weak), a call of a sender is polled to its end, and
the detector's loop keeps running; where they wait for a shard lock that others
take and release they are strongly fair: the locks do not starve a waiter.
A close of the detector ends unless the connection is `Deaf`. `WriteQueue`: spawned
tasks are polled, tokio's mutex is a FIFO queue (strong fairness of the steps that
wait for it), the writer's write ends, with success or by its timeout; closes and
handshake writes end while the peer reads, and nothing is assumed of the peer, so
`NoZombie` says what holds when it does not stop for good and what holds in any
case. `TransportConnection`: tasks are polled, and a write or a close ends with or
without success: a local close towards a peer that never reads is outside
`EndReaches`. `ServerInbound`: setup, the consumer, the spawned tasks and the answers
run on, and handlers return; a handler that is `Hung` owes nothing, and nobody
assumes that the background close of a removed connection gets through, so
`EndReported` begins when the transport has ended. `ServerLifecycle`: the tasks of the
server run and its timers fire; no peer, close or callback is assumed to end.
`ClientSession`: frame tasks other than those running an application's handler,
deferred closes (a timer bounds their wait), cleanups and the steps of a call
that wait for nothing but the runtime; the timeouts of a request and of the
negotiation are not assumed to fire. `client_race`: the background task that
closes losers, and in `client_reconnect` the reconnect loops. `Wire`: every task
of either side; an authenticator and `on_connect` answer, one way or the other. No client, peer, clock or application is assumed to do anything.

## 5. Proofs

`ConnectionManagerProofs`, from the assumptions that ids, users and tenants are
finite sets, the default tenant is one of them, `None` is no user, tenant,
connection or pair of the former, and the limit is a natural number. The
inductive invariant is `Inv`: the types, the exact slot count (`SlotsExact`: the counter is the number of connections from
reservation to release, which `WithinLimit` alone does not say and the unsigned
counters need), the exact user count (`UsersExact`: off by what cleanup has
taken out and not subtracted), `IndexExact`, and `PhaseOK` (which phases occur
in which cleanup stage). One lemma per action, then `Invariance`. From it:
`TypeCorrect` (not among the runs' properties: its counters follow from
`SlotsExact` and `UsersExact`), `LimitCorrect`, `IndexCorrect`, `RestCorrect`, and
`ManagerImplementsRegistry`, in which every step is shown to be a step of
`BoundedRegistry` or a stutter under the refinement mapping.

The registry part of `ServerSessionProofs`, from the assumptions that the mobile and the desktop
platforms are disjoint sets of platforms, the strategies are strategies, and
`None` is no owner or platform. The invariant is the types with `OwnersExact`
and `Exclusive`. The argument rests on `ConflictClears`: for a class the
strategy makes exclusive and a new platform in it, every platform of the class
that is online is in `CheckConflict`; for a Custom group this needs the group to
be isolated, since the loop stops at its first match. `OwnersCorrect` and
`ExclusiveCorrect` follow for every strategy, and `IsolationCorrect` (an action
property: the devices of an owner change only by a call for that owner) from
`OwnersExact`, which is what makes removal by connection find the right owner.

`WriteQueueProofs`, from a positive capacity. `FifoDelivery` and `NothingLost` are
not inductive. `Conserved` says where the accepted writes are while the writer
works (on the wire, in its hand, queued, in that order) and that afterwards the
wire is still a prefix; `Isolated` says that a writer past its failure, or an
entry out of the table, means a closed queue, without which a sender could be
accepted behind a writer that has gone. From it `QueueTypeCorrect`, `FifoCorrect`,
`NothingLostCorrect`.

The rest of `ServerSessionProofs`, from the assumptions of the device manager and that `None`
is no connection or encoding. The invariant `SessionInv` has a part for each
hand-over between tasks: who may be on a kick list (`KicksOwned`), who in the table
has which device (`OnlineRegistered`), what a victim has been told at each step
of the loop (`VictimTold`), what comes after the CONNECT_ACK
(`NegotiatedAfterAck`), and the order in which an end is handled (`EndsInOrder`).
`DeviceInv` is not proved again: `RegistryNext` shows that every step of a
session is a step of the registry or leaves it alone. From it `SessionTypeCorrect`,
`WinnerSparedCorrect`, `ExclusiveOnlineCorrect` (the registry's exclusiveness carried
over to the table), `ReadableCorrect` and the action property `KickedWasToldCorrect`.

The last part of `ServerSessionProofs` is about `ServerInbound`, from a positive
queue capacity as well.
`InboundRefinesSession`: every step of the pipeline is a step of the session or a
stutter, so `SessionInv` holds with it. `InboundInv` adds the order of arrival:
what has left the consumer arrived before what it works on, which arrived before
what is queued (`HandedOn`, `HandlersBehind`, `QueueOrdered`), and after a call for a
removed connection the consumer is not on its way to another (`LastCall`, which
needs that an observed connection never comes back into the table). From it
`InOrderCorrect`, `OneAfterRemovalCorrect`, `InboundReadable`.

The second part of `ConnectionManagerProofs` is about `Delivery`, from the same
assumptions.
`DeliveryRefinesManager` makes `Inv` hold during calls. `DeliveryInv` adds what is
still owed to the connections entitled all along (`Owed`), that an id still to be
looked up is in the audience or of a connection that has left for good, however
old the index entry it was read from (`Meant`), and that what was copied of a
connection's authentication still holds (`Cleared`). From it `DeliveryTypeCorrect`,
`NobodyMissedCorrect`, `AudienceOnlyCorrect`.

`ServerLifecycleProofs`, from a list of distinct servers that is not empty, a
finite set of connections (the handshake permits are counted) and natural limits.
`LifecycleInv` says which gates may be open at each stage of start and stop
(`Entrances`), what was dialled after CLOSE (`Late`), who may still be set up
(`Admitted`) and what the pass has still to deal with (`Emptied`: once the broadcast
is over whoever is in the table is told, missed or was being set up, and until then
he may also be one it has still to come to); `Permits` counts
the handshakes of each server for the types. From it `LifecycleTypeCorrect`,
`ShutOutCorrect` and the action property `ReasonedCorrect`.

`TransportConnectionProofs`, from the transports being among the three and `None`
no observer. For `QuietAfterEnd` the invariant follows each observer through the
three lists it can be on (registered, taken by a close, taken by the reader):
they name nobody twice, nobody on one has been told of the end, and whoever is
still to hear of a frame has heard of no end or of a local one just now
(`Listed`, `Untold`, `Midway`). `FirstHearsAll` needs that the frames on the wire are
the last ones sent, in order (`OnWire`), and that the first observer lags behind
by at most the frame in the reader's hands (`Caught`). From it
`TransportTypeCorrect`, `QuietAfterEndCorrect`, `FirstHearsAllCorrect`.

`ClientProofs`, about the composition `MCClient`, from the assumptions that the
protocols are among the three, `None` is no protocol or caller, the callers are
distinct and the limits are natural numbers. `ClientInv` says that a decided race
has a winner whose task is joined (`Decided`: a protocol that is still dialling,
or that the background task closes, is another one), that a loser past
`detach_race_state` shares nothing any more (`Detached`), that a result stands only
when nothing runs on the client and that with its lock free nothing does
(`Exclusive`), and that after the application's disconnect nothing runs and the
core says why (`Finished`). Behind `ClientManager` an aborted loop may drop what it
ran, so `Exclusive` speaks of the wrapper's lock only. From it `ClientTypeCorrect`,
`LosersQuietCorrect`, `StaysDownCorrect`.

Its second part is about the locks of the layers, from the loops being numbered.
`LockInv` says that whoever holds `reconnect_gate` is at a step that does not wait
for it (`WrapperLocks`), that whoever holds the lock of the client is in an
operation on it, which goes on or has returned (`WrapperLocks`, `ClientLock`);
behind the manager, that the mark `is_reconnecting` is never kept over an await,
that `reconnect_handle` is held only while the mark is cleared (`HandleLocks`), and
that a handle to be stored is that of a loop that was started (`Started`). From
it `NobodyStuckCorrect`: as long as a sender, the application or a call of the
manager is on its way, an operation on the client is running or one of them (or a
reconnect loop) has all that its next step waits for. It is `LayersMove` with the
guards of the steps written out where that property says ENABLED; TLC found the
two to agree in every state of the run's instance.

`WireProofs`, for any messages, any number of typed setter calls and any two
registries, from the assumptions that each registry has the identity compressor of
`register_defaults` and that application frames are no frames of the negotiation.
The properties say what the receiver can read, the argument is about what is on
its way: between the encoding of a frame and its reading either side may switch
its parser. A frame is bare (serialized only, as the parser before the negotiation
leaves it) or agreed (compressed and sealed as the negotiated one does). `WireInv`
adds to the types what the builds came to (`ProfileFacts`: the agreed compression
is one the client asked for or has registered, and a pipeline no middleware stops
reaches the listener), which parser a side has in which state (`Switches`), and
what can be where: what waits to be written (`Unwritten`, `Compressions`), that
NEGOTIATION_READY is nowhere before it is sent (`ReadyLast`), that behind it on the
line to the server only stale frames are bare (`ServerLine`), which is where the
server's tolerance ends, that every frame of the server is bare or agreed all the
way to the client's tasks, so that a client that has switched reads it whichever
flag it was read with, and agreed if the server was confirmed (`ClientLine`), and
that what waits for a listener is
read by the parser its pipeline has by then (`Listening`). From it
`WireTypeCorrect`, `SwitchLosslessCorrect`, `CompressionAcceptedCorrect`,
`FlareHearsCorrect`. Where a registered middleware stops a pipeline is a least
index, by well-foundedness of the naturals.

`ClientSessionProofs`, from a positive number of connections and natural limits,
whatever frames and endings the server chooses. The properties are about the order
in which the read loop, the frame tasks, the heartbeat and the call leave their
marks on a core that does not tell its connections apart, so `CoreInv` says who
can still add one: a kick is queued, pending or reported and the server sent
nothing behind it (`KickOnce`); each step of the call knows its connection, and the
one just dialled is known to it alone (`CallShape`, `Unused`); unless the client
went on with work left over, everything in flight is of one connection
(`Current`); after a kick was taken, or the state fell back unreported, no other
can come (`Spent`); after a close was reported none can be noted (`Heard`); a
rejection that was read stands, or was `Forgotten` and nobody is left to replace it
(`Rejected`). From
it `CoreTypeCorrect`, `KickOrderCorrect`, `TypedRejectionCorrect`. The proof found
that `late` had to count an earlier connection that is still read, which needs
three connections (section 6).

Its second part is about `ClientHeartbeat`, from a finite, non-empty set of
settings, a round trip shorter than every timeout and than `PROBE_TIMEOUT`, and an
`Unset` that is no number. `Keepalive` bounds a sum of waits, none of which knows
of the others: `HeartbeatInv` says what a wait has left and how old the watched
PING is when the loop goes on (`Waits`), that while the peer answers the dated PING
is on its way and a window does not end before it (`Answering`), and, once it is
silent, how much time has passed together with what is left of the wait, before
and after the last PING that is dated (`Silent`). That the settings have a longest
sleep and a longest timeout is `Longest`, by well-foundedness of finite sets. From
it `KeepaliveCorrect`.

Every inductive invariant was first checked by TLC on the instance of its run. The
bounds (`MaxMessages`, `MaxFrames` and so on) are arbitrary numbers in the proofs.

Only model-checked: all liveness (`NoZombie`, `TimedOutRemoved`, `CallReturns`,
`EndReported`, `Answered`, `WaiterReleased`, `EndReaches`, `LosersClosed`,
`Responsive`, `Negotiates`: fairness is outside the prover), and `LayersMove` as it
stands, since it speaks of ENABLED (`NobodyStuckCorrect` is its provable form).

## 6. Findings

`client_reconnect`: the reconnect loop of `ClientConnectionManager` looks for the
manager's own state `Disconnected` (`client/manager.rs:326`). A lost connection
changes the state of the client's core, not that one, so the loop never makes an
attempt, while the doc of `start_auto_reconnect` (`client/manager.rs:223`) says
it reconnects after a disconnection.

What the models also show of the code, without a run of its own:

- Session. A connection kicked before its CONNECT_ACK gets KICKED in the
  negotiated format, which it does not read yet (`device_handler.rs:137`). One
  that closes during the pause before `handle_device_conflict` is registered
  after its cleanup and stays (`server_core.rs:515`), until the owner's next
  login throws it out.
- Client. When the server refuses the CONNECT and closes before
  `internal_connect` reports Connected for the second time, that Connected counts
  as a new connection and wipes the recorded reason (`client_core.rs:1147-1148`):
  the caller waits for the timeout of the negotiation. The comment above it
  (1140-1141) says that this must not happen, and
  `rejected_connect_surfaces_the_typed_reason` (`../tests/quic_kick_reconnect.rs:344`)
  expects the typed reason without the timeout. `TypedRejection` holds in every
  other order and names this one (`Forgotten`). A
  kick during the pause before a transport client's reconnect does not stop it
  (`tcp.rs:160`). A CONNECT_ACK whose task runs after the client went on starts a
  heartbeat on the new connection (`client_core.rs:539`); if the new connect fails,
  the heartbeat keeps that connection, and its close is reported amid the next
  one.
- Transport. A frame whose delivery had begun may be delivered after a local
  close told Disconnected (`QuietAfterEnd` allows exactly that one). A clean end
  within the length prefix is a disconnection on TCP and an error on QUIC. A
  dropped connection tells nobody.
- Client layers. `stop_reconnect` misses a loop whose handle is not stored yet; an
  aborted loop may set the manager to Connected after `disconnect`; a race that
  times out while the winner sends CONNECT leaks the winner's transport; nothing
  resets `disconnect_requested`.
- Closes without a timeout. One timed-out peer that does not read holds up the
  detector, which from then on removes nobody (`trait_impl.rs:144-147`; `Stuck`). The
  entry of a connection whose writer failed stays in the table while its peer does
  not read, until the next sender is refused (`mod.rs:253-255`). A connection that
  the server removes is reported to the application only when its transport ends,
  which a peer that does not read puts off (`mod.rs:208-211`, `websocket.rs:312-322`).
  A login waits for the KICKED of the device it replaces to be written
  (`device_handler.rs:154-155`).
- Lifecycle. The broadcast of CLOSE misses a connection whose negotiated encoding
  is not available, one with a full queue, which is evicted, and whoever it has not
  come to within a second; they are cut off without the reason. Starting and stopping the detector are spawned tasks without an
  order. A QUIC server cannot be started twice, and a restart may fail to bind. A
  connection in its handshake when the gates close can enter after the last pass
  (`midway` in `StopClears`).
- Wire. `SimpleClientObserver` keeps a fixed protobuf parser, and a FlareClient over
  a race gets the parser the client began with. CONNECT_ACK announces none for a
  codec the server has not registered. A forced compression can make CONNECT
  unreadable. A frame encoded as agreed and read right behind CONNECT_ACK, a push or
  the KICKED of a refusing `on_connect`, is lost if its task runs before that of the
  CONNECT_ACK, or after the end of the connection reset the flag (`outrun`). A
  NEGOTIATION_READY that a full inbound queue drops is not sent again: the server
  goes on accepting both encodings.
- Inbound. A message that comes before CONNECT is through reaches its handler, but
  its answer is refused while the client is not authenticated, and the connection
  stays (`ops.rs:568-575`). A middleware that answers or fails does not keep a frame from the
  server's handler. Answers may leave in another order than their frames came. A
  handler may run after `on_disconnect`, for the frame the consumer was at.
- Heartbeat. The lower bound of the interval, 15 s by default, wins over 70 % of a
  shorter NAT timeout (`config_types.rs:379`; the field's doc, line 246, speaks of
  the latter only). A stop during the window of a probe is seen after it, and
  the loop may close the connection first.
- Delivery. A connection rebound during a call still gets the frame
  (`AudienceOnly` says "at some moment"). Unknown ids are not counted as failures.

## 7. Not modelled

The browser's inbound
queue and the router of the client core; chains of several server observers;
removal of middlewares and processors at run time and what the hooks after a
frame make of its response; the meaning of timeouts, addresses and TLS settings.
Codecs and ciphers on bytes are library calls. Conversation ids are string
functions without state; certificates, errors, plain settings and generated
protocol types have no behaviour of their own; the wasm client runs the same
client on one thread. `TransportConnection` has no peer that stops reading, and what
`Drop` of a transport does to a connection nobody closed is left out of the race
(`LosersClosed` wants an explicit close). Authentication is an
outcome chosen freely.
