# TLA+ model of helbreath-backend

`helbreath-backend` is the server of an online game, written in Rust as a set of
services on tokio. This directory holds TLA+ modules of its core protocols, TLC
configurations that check them on small instances, and TLAPS proofs about them.
Paths below are relative to the repository.

## Inventory

| Component | State | Operations | Correct when |
|---|---|---|---|
| Gateway `apps/gateway` | session table (RwLock), connections per address (RwLock), phase of each socket, channel of 4096 commands | accept, frame -> validate -> phase -> queue, idle timeout, read error, router: login, character calls, world calls, logout, disconnect | the count per address is exact; the router acts only for sessions the auth-service accepted; what it believes about a session agrees with the world; an ended session is forgotten |
| Command validation `crates/application` | none | table of commands per phase, payload checks | gameplay is not accepted before the session asked to enter |
| World coordinator `crates/world` | senders per map, players per map, map per session | RegisterMap, UnregisterMap, RouteToMap, Broadcast, GetStats | no session is counted twice; counts agree with the presence table; requests are answered |
| Map runtime manager `apps/world-service` | table of runtimes (async mutex), one router task and one map task per active map | activate, deactivate, shutdown, HTTP handlers that may be dropped | every running task has one owner; manager and coordinator agree on the active maps |
| Map instance `crates/map_server` | players, pending attacks, skills and inventory changes, scheduled events, tick counter | tick: scheduled events, input, movement, combat, AI, AOI, inventory | only players on the map act or are hit; each accepted command has its effect once and in order |
| Outbound and persistence workers `apps/world-service` | two channels of 8192, ring of 256 records | drain, store, write to PostgreSQL | a slow worker delays and never blocks for good |
| Auth-service `apps/auth-service`, `crates/auth`, `crates/infrastructure` | accounts, sessions, characters; logins per address | login, logout, list, create, delete, select | overlapping, failing and late requests only ever perform whole operations; a session plays a character of its own account; a slot has one character |
| Jobs-runner `apps/jobs-runner` | status of the last sweep | every 30 s close expired sessions, expire sanctions | expired sessions end |
| Admin API `apps/admin-api`, `crates/admin_portal` | admin sessions, registry of active maps, audit log | login, RBAC, map control, accounts, moderation | the registry agrees with the runtimes; no endpoint opens to a session that ran out or to the wrong role |
| Wire codec and limiters `crates/net`, `apps/gateway` | read buffer, token bucket, counter per address in Redis | split, decode, translate, compress, obfuscate, acquire | decode inverts encode; frames are neither lost, merged nor reordered; no limiter gives away more than its rate |
| Chat `crates/chat`, `apps/chat-service` | bounded queue, ring of 256 records | say, whisper, guild | records keep their order |
| Map-server app, config, observability, proto, deployment | - | - | not modelled (see PROJECT.json) |

How they interact: a client's frame becomes a `ClientCommand` in its connection
task, which splits the stream, asks the limiters, decodes, and queues the
command for the one router task of the gateway; the router calls the
auth-service or the world-service over HTTP with a timeout of two seconds; a
world-service handler queues a `WorldMessage` for the one coordinator task,
which counts the session and awaits the send to the channel of the map; the
router task of the runtime copies the command to the map's queue; the map task
handles it on its next tick and queues outbound events and persistence
operations for two workers that all maps share. The auth-service answers with
what PostgreSQL holds; the jobs-runner changes the same tables behind its back.
The admin API activates and deactivates maps over the same HTTP interface and
records the result in the registry the world-service starts from.

What is hard: state read before an await and used after it (the manager's table,
the statistics a deactivation rests on, the session the router checked),
handlers dropped at an await when their client goes away, calls and statements
that take effect although their reply is lost, operations made of several
statements without a transaction, two stores of one truth (registry and
runtimes, presence and session table), sockets whose phase runs ahead of the
router, and bounded channels whose full end suspends a task the others need.
`PROJECT.json` lists each hazard at its line with the properties that cover it.

## Modules

| Module | Models |
|---|---|
| `WorldCoordinator` | `crates/world/src/lib.rs` and the channels around it |
| `MapRuntimes` | the manager and its handlers; EXTENDS `WorldCoordinator`, with which it is composed |
| `Gateway` | connections, session table and router of the gateway, with the services it calls |
| `MapInstance` | the tick loop of one map, and the outbound and persistence workers |
| `SessionStore` | abstract: what the auth-service promises about sessions and characters |
| `AuthStore` | the auth-service, its repository and the sweep of the jobs-runner, statement by statement; implements `SessionStore` |
| `AdminApi` | admin sessions and permissions; map control over world-service and registry |
| `FrameChannel` | abstract: what a client may rely on about the frames it writes |
| `Framing` | frames: encoding, decoding, splitting |
| `GatewaySocket` | the read loop of one socket, its token bucket and the limiter in Redis; implements `FrameChannel` |
| `WireCodec` | the optional compression and obfuscation of payloads |
| `WireProtocol` | `GatewaySocket` and `WireCodec` together: all that `crates/net` does for a connection |
| `WorldCoordinatorProofs`, `MapRuntimesProofs`, `GatewayProofs`, `GatewaySocketProofs`, `MapInstanceProofs`, `AuthStoreProofs`, `AdminApiProofs`, `WireCodecProofs` | theorems about the module each is named after; `WireCodecProofs` also has those about `Framing` |
| `MCWorldCoordinator`, `MCMapRuntimes`, `MCGateway`, `MCMapInstance`, `MCAuthStore`, `MCAdminApi`, `MCGatewaySocket` | symmetry sets, command sets and operation sets for TLC |

Operators named "Mutant of ..." in a module are deliberately wrong variants of
the definition that follows them. They are used nowhere in the specification;
they record, for each property, a plausible bug that makes TLC refute it.

### WorldCoordinator

One task receives from one bounded channel. `inbox` is that channel,
`map_senders`, `players_by_map` and `session_map` are the fields of the struct,
`forwarding` is the send the coordinator is suspended on, and each message kind
is an action. An absent counter and a counter of zero are one value: the code
reads both as zero. `chan`, `opened` and `closed` are the channels to the maps;
every activation takes a fresh one. The commands the coordinator only forwards
are one value, `Play`. The environment may queue any message at any time, so the
properties hold for any client of the coordinator.

### MapRuntimes

`activate` keeps the mutex across the send of `RegisterMap`; `deactivate`
removes the handle, releases the mutex, sends `UnregisterMap`, and then aborts
the tasks. Each await is a step of its own, and `HangUp` drops a handler at an
await: axum does that when the client of the request disconnects. Steps without
an await between them are one action. The module's actions conjoin the
environment actions of `WorldCoordinator`, and `CoordinatorSpec` states that the
composition implements the coordinator's specification. A `deactivate` dropped
while it waits to send (`apps/world-service/src/main.rs:195`) leaves the map
task running for ever; `detached` records such tasks, and `OneOwnerPerTask` says
exactly which tasks have an owner.

### Gateway

`Client(s)` are the steps of a connection that its client decides, and
`ConnectionTask(s)` those the runtime owes it once it ends. The router's
handling of one command is a sequence of steps (`Take`, `Check`, a call,
`Apply`, `AuthLogout`, `RouterRemove`), one per await, since the connection task
may change the session table in between. A call has two independent outcomes:
whether it took effect and whether the router saw its reply. A selected
character's map is whatever the auth-service answers. The world-service is
reduced to its effect (`WorldEffect`): its queue and the map's queue are FIFO,
so commands of one session take effect in the order the router sent them. A
process restart empties the table, the counts and the queue, and leaves what the
services know.

### MapInstance

`Tick` drains the command channel and emits the events scheduled for the tick;
then each command is an action of its own (`EnterWorld` ... `Logout`) and each
system another (`Movement` ... `Inventory`), in the order of `process_tick`. A
system awaits room for every item it emits: it puts them into `sending`, `Flush`
emits them one by one, and the next step of the loop waits until `sending` is
empty. `Strike` resolves one pending attack, `Pay` takes the mana of one pending
cast and moves it to `paid` (`resolved_skills`), and `Cast`, in the phase
"effects", lets one paid cast take effect; `Resolved` ends each of these queues.
The code works off a queue completely before it announces the first result. Only
the map itself reads the state in between, so resolving and announcing one item
after the other shows the same updates and the same emissions in the same order.
Texts and positions on the outbound channel are alike, so the channel is a
count. Ticks are counted modulo a common multiple of four (the variance of an
attack) and of the periods of AI and AOI. `mover`, `lost` and `reported` are
history: no action reads them except to write them. `PersistWorker(ok)` applies
or loses an operation.

### SessionStore and AuthStore

A request is a task that sends SQL statements one after the other: `find` and
`upsert` for a login, `account` and then `list`, `create`, `delete` and `clear`,
or `load` and `bind` for the character operations, `close` for a logout. A
statement is atomic, and any number of requests interleave between statements.
`Drop` is a statement that failed, or a task dropped before it sent its
statement; `Abandon` is a task that ends by its timeout of three seconds, or
because its client went away, while the database has its statement, which may
then run at any later time. `Sweep` is the jobs-runner closing any set of open
sessions. Passwords, names and the limiter of addresses decide whether a request
is valid, which is a choice here; time is not modelled, so any open session may
have run out.

`SessionStore` says what all this amounts to: atomic operations `Open`, `Close`,
`Create`, `Delete` and `Select`, each with the guard that matters (a slot is
free, the character is alive and of the same account). `ImplementsStore` maps a
session to its account while it is open and to its character while that
character is alive. A character deleted while a session plays it thereby
disappears from that session at once, although the statement that clears the
binding comes later or never; `DeadBindingExplained` says when such a row can be
found.

### AdminApi

`Permission` and `permissions_for_role` are tables of the code; `Authenticated`
is `authenticate` with its pruning. The read of the pruned sessions and the
look-up happen under one lock and are one step. An activation or deactivation is
a call to the world-service followed by a statement on the registry, and by the
opposite call when the registry refuses the map; a restart stops the map, starts
it, and records it. `calls` holds what was sent and not yet carried out; `Abort`
gives up at any await (error, 900 ms, client gone), after which the call may
still be carried out late or lost. The world-service carries out a call in one
step: what may go wrong inside is the matter of `MapRuntimes`. It may stop at
any time and starts from the registry, or with map 1 when the registry is empty
or unreadable; the admin API may restart too. `disturbed` is history: the maps
on which a request failed, overlapped another or left a late call, since the
last request that had the map to itself and reached its end.

### FrameChannel, Framing, GatewaySocket and WireCodec

`Read(n)` takes any part of the bytes that have arrived, as TCP may deliver it;
`split_frames` takes out the complete frames, which are then handled one by one.
`HandleFrame` counts the frame in Redis or, when Redis is not configured or
fails (perhaps after it has counted), in the bucket of the socket, decodes it,
and puts its command into the channel; whether it translates depends on the
phase of the session, which is `Gateway`'s matter, and is a choice here. The
bucket is counted in parts of a token and time in ticks where the code computes
with `f64` and `Instant`; the wall clock that selects the counter in Redis runs
in step with the monotonic one. A client may end its stream after a frame
(`EndStream`) or within one (`EndWithin`).

`ImplementsChannel` maps the queue of the channel to the frames that wait, are
in the buffer, or are on the wire. The abstract channel closes on its own only
when its queue is empty; a task that ends by the idle timeout or a broken
connection maps to its `Abort`. `cut` is history: it tells the two ends apart.
`ASSUME SocketConstants` says that a client writes whole frames, and that is no
restriction: the length fields cut any bytes into such frames, except the last
of them, which `EndWithin` leaves incomplete.

The codec has no state. The gateway does not use it; `decode_wire_frame` and its
inverse are operators, and `CodecFaithful` is a statement about constants, which
`CodecRoundTrip` of `WireProtocol` makes of every connection. A payload that
fits can be refused when compression lengthens it, and the length field of 16
bits wraps: `RoundTrip` says so, and that everything else comes back. The loops
of `split_frames`, compression and decompression are recursive functions of the
position, so that theorems can speak of them. Of the exclusive or of two bytes
`ASSUME CodecConstants` keeps what the codec needs: it is a byte and undoes
itself. TLC runs with the real one.

## Runs

Capacities are 4096 and 8192 in the code; what matters is that a sender can find
a channel full, which a capacity of one or two already shows. The fresh
identities (channels, sessions) bound the number of activations and connections.

| Run | Instance | Shows |
|---|---|---|
| `world` | 2 maps, 2 sessions, 2 activations, inbox 1, map channel 1 | `TypeOK`; `NeverOverCounts`; `OnlyStrayLogoutMiscounts`. Two maps and two sessions are the least on which a session can move and another stay behind |
| `world_stray_logout` | same | `CountsExact` fails: see findings |
| `runtimes` | 1 map, 1 session, 2 activations, 2 handlers, capacities 1 | `RTTypeOK`, `NoOrphanSender`, `OneOwnerPerTask`, `CoordinatorSpec`, `RequestsEnd`, `StatsAnswered`. Two handlers let a deactivation overlap an activation; full channels of one show every wait |
| `runtimes_reachable`, `runtimes_empty` | 3 activations, inbox 2 | findings |
| `gateway` | 1 session, 1 address with limit 1, 2 characters, 2 maps, queue of 3, 1 restart | the properties of a session, from connection to removal, under lost and late replies. Three commands ahead of the router cover select, enter and logout behind one another; sessions only meet in the count of an address, whose exactness for any number of sessions and any limit is proved |
| `gateway_ghosts` | 1 session | finding |
| `map` | 2 players (one without a character), command channel 2, budget 2, other channels 1, 6 health, mana for 1 skill | `TypeOK`, `DamageReported`, `ReenterDoesNotHeal`. Two commands to a tick let a player leave or come back between the queueing and the resolution of a blow; damages of 5 to 8 on 6 health hurt, defeat and hit the defeated |
| `map_moves` | 2 players of one character, command channel 1, persistence channel 2 | `PositionsSaved`, `NoStrandedEvent`, `RxDrains`. Two operations behind each other are the least a worker could reorder |
| `auth` | 2 sessions, 2 accounts, 2 characters, 1 slot, 2 requests | `TypeOK`, `SelectedIsOwn`, `DeadBindingExplained`, `SlotsUsedOnce`, `ImplementsStore`. Every hazard needs two requests: one between the statements of the other; one slot makes every second creation compete |
| `admin` | 3 maps, 2 of them in the catalog, 1 token, 2 requests, 1 late call (`MaxLate`), users with role readonly beside the bootstrap administrator | `TypeOK`, `RegistryAgrees`, `OnlyOnDuty`. Two requests switch one map or two; the third map is one that nobody knows. `Operations` are the endpoints that switch maps, the control of the service, and `block` for all others |
| `wire` | bytes of two bits, payloads up to 2, 3 frames (each too short, without payload, or with one that is too large; the last may end early), 4 moments, 2 moments to the second, limit 2 | `TypeOK`, `LocalBound`, `SharedBound`, `ImplementsChannel`, `FramesAreHandled`, and `CodecRoundTrip` over all payloads up to 5 bytes and runs up to 17 bytes, whose length does not fit the length field. Three frames of three lengths cut everywhere put a read boundary into every length field and between any two frames |

The tick period is 4 in both runs of the map, so every variance occurs, AI runs
on every fourth tick and AOI on every second. `CodecRoundTrip` says nothing
about later states and is evaluated in the initial one.

The deadlock check is off for `Gateway`, where session ids are finite and an
idle gateway has no step left once all are used, and for `GatewaySocket`, where
a socket that has closed is done and time is bounded.

### Fairness

* `RTFairness` (`MapRuntimes`): the coordinator and the router tasks are
  scheduled by the runtime (weak fairness). Handlers wait for a tokio mutex and
  for channel permits, both of which queue their waiters in FIFO order, so a
  handler gets its turn although others pass before it: strong fairness. Nothing
  is assumed of the clients.
* `MapInstance!FairSpec`: the map task and both workers are scheduled; whether
  the database ever accepts an operation is left open.
* `Gateway!Fairness`: every HTTP call of the router ends within its two seconds,
  so the router always moves on, and connection tasks that are ending are
  scheduled. Clients owe nothing.
* `GatewaySocket!Fairness`: the network delivers what was written, and the
  runtime schedules the task of the socket. `FramesAreHandled` is the fairness
  of `FrameChannel`, weak fairness of `Handle`: a frame that was written whole
  is handled while the socket is served.

The specifications of `WorldCoordinator`, `AuthStore` and `AdminApi` are checked
for safety only: their requests may be dropped at any await.

### Findings

* `CountsExact`: the `Logout` of a session that is counted nowhere takes a
  player off the map it names. The gateway sends such a Logout whenever a client
  logs out before it entered the world.
* `ActiveMapsReachable`: `deactivate` releases the mutex before it queues
  `UnregisterMap`. An activation in between is registered first and then
  unregistered: the manager holds a running map that gets no commands, and every
  later activation answers "already active".
* `StopsOnlyEmptyMaps`: the player count a deactivation rests on is stale.
* `EndedSessionsLeaveWorld`: a connection that ends without `Logout` is counted
  for ever, which also blocks the deactivation of its map.

Two more observations have no run. A `deactivate` dropped at
`apps/world-service/src/main.rs:195` leaves a second task for its map (see
`MapRuntimes`). The bootstrap administrator gets a user id that no row has
(`apps/admin-api/src/main.rs:1157`), so the foreign key of the audit log refuses
the records of its actions, of which README.md:365 and docs/architecture.md:80
say that they are audited; audit rows are not modelled.

## Proofs

All theorems hold for every value of the constants that the named ASSUMEs allow
(sessions are finite, "absent" values are not members, capacities are positive,
the catalog is among the maps, and the like).

`WorldCoordinatorProofs`:

* `TypeCorrect`: `TypeOK` is inductive by itself; `TypeStep` has one step per
  action.
* `NeverOverCountsInvariant`: the inductive invariant is `TypeOK /\
  NeverOverCounts`. `PlaceSession` and `RemoveSession` say what placing and
  removing a session does to the cardinality of the sets `SessionsIn(m)`;
  `EnterCounts`, `LogoutCounts` and `UnregisterCounts` combine them with the
  arithmetic of the counters.
* `ExactUntilStrayLogout`: the same lemmas show that from exact counters every
  step except the one `StrayLogoutNext` describes leads to exact counters.

`MapRuntimesProofs`, which EXTENDS `WorldCoordinatorProofs`:

* `ImplementsCoordinator`: `RTSpec => CoordinatorSpec`. `StepRefines` shows that
  each step of the composition is a step of the coordinator's environment or
  leaves its variables alone. The theorems of `WorldCoordinatorProofs` therefore
  hold of the composition.
* `RTTypeCorrect`, `OneOwner` and `NoOrphans`, from the inductive invariant
  `RTInv`. Neither `OneOwnerPerTask` nor `NoOrphanSender` is inductive. The
  first needs that the mutex keeps a second handler from the table while one is
  between its look-up and its insertion (`LockOK`, `HandlerOK`), and that the
  activations with an owner are exactly those running and not detached, each
  with one owner (`Ownership`). The second needs its counterpart for the
  coordinator's queue: a queued `RegisterMap` whose activation nobody answers
  for any more is followed by an `UnregisterMap` of its map (`PendingBacked`),
  and so is a sender the coordinator already holds (`SendersBacked`).

`GatewayProofs`:

* `GatewayTypes` and `PerIpLimitHolds`: the count of an address is the
  cardinality of the set of its live connections, which every step changes
  together with it.
* `NeverOnTwoMapsHolds`, `PresentWereAuthenticated`, `InWorldIsJustified`,
  `GameplayHitsPlayer`, `LogoutReachesPlayer` and `EntryIsFrozenInWorld`, from
  one inductive invariant. It relates the commands of a session that are still
  queued, and the one the router is working on, to the phase of its socket, its
  entry in the table, and what the services know of it: no Login is queued
  behind another Login or an EnterWorld, no character command behind an
  EnterWorld, and an entry that is in the world was put there by a command that
  left the queue. Phases alone do not suffice, because they run ahead of the
  router.

`WireCodecProofs` proves what the recursive functions of `Framing` and
`WireCodec` compute, for every input:

* A recursive function is a CHOOSE in TLA+. `SplitExists`, `CompressExists` and
  `DecompressExists` build the function from its last position backwards;
  `SplitAt`, `CompressAt` and `DecompressAt` are the equations that follow.
  Induction goes over sets of numbers (`NatInduct`, `StrongInduct`, from the
  well-foundedness of the natural numbers).
* `SplitAnywhere`: splitting a stream at any byte, and going on with what was
  left and the second part, yields the frames of the whole stream. The step is
  that bytes behind a complete frame do not change it (`WholePrefix`) and that
  what is split off a suffix does not depend on what is before it
  (`SplitShift`).
* `CompressionRestores`: decompression goes through the runs that compression
  made. An escape is read back as its run (`DecompressEscape`), a copied run
  byte by byte (`DecompressCopies`, with an induction of its own). `Restored`
  carries the limit along: whatever exceeds it is refused.
* `FrameDecodes`, `WireRoundTrip`, `CodecIsFaithful` and (in
  `GatewaySocketProofs`) `CodecOfEveryConnection` compose the layers. That a
  length which wraps is refused rests on `LengthField`: the two bytes then say
  another length than the frame has.

`GatewaySocketProofs`, which EXTENDS `WireCodecProofs`:

* `BucketNeverOverspends` and `SharedLimitHolds`. `LocalBound` is not inductive;
  `LimiterInv` adds what is left in the bucket: what was taken since a moment,
  and what is available, are together at most the capacity and what the time up
  to the last refill yields.
* `SocketTypes`: from the invariants of the limiters and of the stream.
* `ImplementsFrameChannel`: the safety part of the refinement, for any frames
  and any reads. The inductive invariant `StreamInv` says that the buffer holds
  no complete frame between reads, that each frame that waits is one a client
  may write, and that the bytes in the buffer and on the wire are whole frames,
  followed by part of one only if the stream has ended. A read stutters by
  `SplitAnywhere`; a write appends one frame to the queue because nothing
  incomplete is in front of it; the end of the stream finds the queue empty
  because `split_frames` leaves no complete frame behind.

`MapInstanceProofs`: `MapTypes`, `DamageIsReported`, `PositionsAreSaved`,
`NoEventIsStranded` and `ReenteringDoesNotHeal`, from the inductive invariant
`MapInv` (`MapInvariant`). Beside types and `DamageReported` it says that only
the head of `sending` is ever a hit or a position (`LoopOK`), that who last
moved under a name is still on the map under that name (`MoverOK`), that the
last place of a character on its way, or else the database, is where its mover
stands (`PlacesOK`), and that events are scheduled for the next tick only, also
during a tick (`EventsOK`).

`AuthStoreProofs`: `StoreTypes`, `SelectionIsOwn`, `DeadBindingsAreExplained`,
`SlotsNeverShared` and `ImplementsSessionStore`. The inductive invariant adds to
the properties what a request has learnt and may still rely on: a character it
loaded belongs to the account it remembers, for characters never change their
account, and the dead stay dead (`Keeps`). That the first free slot exists and
is a slot follows from the well-foundedness of the natural numbers
(`LeastSlot`). The refinement has one lemma per statement that writes; the
others stutter.

`AdminApiProofs`: `AdminTypes`, `RegistryAlwaysAgrees` and `OnlyOnDutyHolds`,
from `AdminInvariant`. `RegistryAgrees` speaks of maps nobody is switching; the
invariant speaks of the others. On a map that is not disturbed there is no late
call and one request at most, and registry and runtimes stand where the step of
that request leaves them (`MapsOK`); a request that has a disturbed map to
itself will leave it settled (`AloneOK`); `CallsOK` says which calls a request
awaits at which step.

What stays with TLC: everything under fairness, which is out of the provers'
reach with ENABLED (`RequestsEnd`, `StatsAnswered`, `EndedSessionsForgotten`,
`RxDrains` and `FramesAreHandled`). All other properties of the passing runs are
theorems.

## Not modelled

* Errors of `accept` and the choice of protocol version in the gateway. The
  opcode tables of both versions are the same.
* A restart of the world-service under live gateways: `Gateway` assumes that it
  keeps running; `AdminApi` restarts it with its maps and the registry, without
  players.
* Several maps on the shared outbound and persistence channels: `MapInstance` is
  alone on them. Another map's events make the channels full more often, which
  the capacities of one and two already do. The abort of a map task in the
  middle of a tick is in `MapRuntimes`, without the players it loses.
* The panic of a debug build on `skill_id.abs()`: the model has the release
  build.
* The limiter of logins per address, and what passwords and names may look like.
* The payload parsers and the translation of commands of `crates/net`: data that
  no property tells apart.
* Audit rows, the expiry of sanctions, moderation, searches, inventory and
  combat rows: inserts and listings nothing reads back.
* The chat-service, whose bounded queue and ring no other component writes to;
  the map-server application, which starts one map and serves its health;
  configuration, observability, generated protocol code, deployment.
* Text and item contents, coordinates beyond two places, metrics, logging and
  HTML.

## Further work

`Gateway` composed with `WorldCoordinator` in place of `WorldEffect`, with
restarts of the world-service under it; the chat-service; the limiter of logins.
