# TLA+ verification of ff-vpn

ff-vpn is a mobile VPN client: a Flutter app, an Android (or iOS) host that owns
the TUN interface, and a Rust core that runs two Leaf instances, an Arti (Tor)
client, a DNS proxy and an IPC server. This directory holds TLA+ models of its
control flow, TLC configurations that check them and TLAPS proofs about them.
Paths in this text are relative to the repository's root.

Run the tools in this directory: `tlc -config MCEngineOne.cfg MCEngine` checks a
model, `tlapm EngineProofs.tla` checks a proof. A configuration `MCXyz*.cfg` goes
with the module `MCXyz` where there is one (it defines symmetry, or fixes
constants that a .cfg cannot) and with `Xyz` itself otherwise:
`tlc -config MCPipeline.cfg Pipeline`. `PROJECT.json` lists every run,
every mutant, every theorem, and the source lines behind every definition.

## 1. Inventory

| Part | State | Operations | Hard parts |
|---|---|---|---|
| Cancellation token, `rust/core/src/runtime.rs` | a watch channel of a Boolean | `cancel`, `cancelled` | check-then-subscribe against a concurrent store and notify; futures dropped by `select!` |
| Engine life cycle, `lib.rs`, `engine.rs` | the slot mutex, the session in it, task handles, status | `start`, `stop`, `status`, failures of each bring-up step, drops | callers in parallel, partial bring-up, a session cancelled from within, join timeouts |
| Leaf instances and PT, `engine/leaf_config.rs`, `pt/` | a blocking thread and a watcher task each | spawn, shut down, exit | shutdown before registration; detached threads |
| Arti, `engine/arti_runtime.rs` | task, SOCKS5 listener, connections | bootstrap, accept, handshake, dial, pump | half-closes, cancels at any await, a far end that stays silent |
| DNS proxy, `dns.rs` | UDP socket, buffer, query tasks, HTTP pool | receive, post, reply, SERVFAIL | detached tasks share the socket; the proxy may be its own resolver |
| Pipeline, `engine/leaf_config.rs`, `engine/arti_runtime.rs` `build_arti_config`, `util.rs`, `FfVpnService.kt` | a drawn port and its listener per SOCKS end point, the applications routed into the TUN, connections on their way | draw, bind, dial, forward | ports are bound long after they were drawn; the app's own sockets meet the TUN; Arti needs a bridge that Leaf #1 reaches by such a socket |
| IPC server, `ipc.rs` | socket path, auth token, handlers | bind, rotate, accept, Auth, Status, SubscribeLogs, Stop | detached handlers across sessions, pipelined requests, early closes |
| TUN descriptor, `util.rs`, `lib.rs`, `rust/jni/src/lib.rs`, `FfVpnService.kt` | a raw number and who closes it | establish, hand over, close | reuse of numbers, late failures |
| Android host and Dart controller, `MainActivity.kt`, `FfVpnService.kt`, `VpnEventBus.kt`, `vpn_state.dart` | UI status, pending results, intents, service instance | connect, disconnect, permission dialogs, events, calls the system refuses | all of it asynchronous; intents, events and results cross |
| iOS packet tunnel, `PacketTunnelProvider.swift`, `ffi.rs` | a pending settings callback per start, the last error of each thread | `startTunnel`, `stopTunnel`, the callback | completion handlers called once on each way out; a stop overtakes a callback; errors kept per thread |
| Configuration, `config_service.dart`, `config.rs` | imported, saved and native configuration | parse, save, load, inject, parse again | three parsers of what should be one document |

How they interact: the controller calls the host by method channel and is told
by an event channel. The host calls the core synchronously on its main thread
(`NativeBridge`). `crate::start` builds the session in order PT, Arti, Leaf #2,
DNS, IPC, all of which share one `Cancel`; any of the two Leaf threads, the Arti
task and an IPC client may cancel it from within. `crate::stop` takes the session
out of the slot, cancels, aborts and joins. On iOS the system calls the provider,
which calls the same core by its C functions from the callback of
`setTunnelNetworkSettings`. Data flows TUN, Leaf #2, Arti's SOCKS listener, Tor,
and Tor's own bridge connection by Leaf #1.

## 2. Modules

| Module | Models | State and actions in the code |
|---|---|---|
| `Latch` | abstract: a one-way latch that releases its waiters | - |
| `CancelToken` | `runtime.rs` `Cancel` | `value`, `version`, `notifies` are the tokio watch channel; `Store` and `Notify` are the two halves of `cancel()`; `Enter` ... `Woken` the steps of `cancelled()`; `Abandon` is a future dropped by `select!` |
| `SessionSlot` | abstract: phases of a session, at most one occupying the slot | - |
| `Engine` | `lib.rs`, `engine.rs`, thread and task life in the other files | one action per bring-up and tear-down step of a caller (`pc`), one per step of a thread, watcher or task of each session; the lock is held from `Begin` to `Publish` or `Unwind` as in `start()` |
| `TunFd` | descriptor ownership | `stage` is who holds the number on the main thread: Kotlin's flag, the JNI guard, the guard of `crate::start`; `leaf[a]` is the thread that takes it over; `Close` is `close(2)` on a number, whatever it is by then |
| `VpnApp` | controller, activity, service, event bus | `toDart`, `looper`, `ams` are the message queues; `call` is the await each Dart coroutine is suspended at; the service has a record with the activity manager and numbered instances |
| `IpcServer` | `ipc.rs` | a token is the number of the session that generated it; `conn[c]` is a record: `inbox` is what a client has sent and nobody read, `handler` where `handle_client` is |
| `SocksConn` | one SOCKS connection | `handler` is where `handle_socks_conn` is, `up` and `down` are its pumps |
| `DnsProxy` | `dns.rs` | `stage` is what became of a datagram, `lookup` the resolver's query that the DoH client waits for |
| `ConfigPath` | the three parsers and what lies between | a document is a function from its fields to "right" or one of the ways to be otherwise |
| `Pipeline` | ports, listeners, per-app routes and the way of a connection: `leaf_config.rs`, `build_arti_config`, `util.rs`, `runtime.rs`, `FfVpnService.kt` | `Draw` is `random_local_port`, `owner` who listens on a port, `part` the life of Leaf #1, Arti and Leaf #2 in each session, `conn` where a connection is; `RouteOut` and `RouteIn` a socket's way by the system's routes, `Chain` the chain of Leaf #2 |
| `ProviderContract` | abstract: what NetworkExtension expects of completion handlers | - |
| `AppleTunnel` | `PacketTunnelProvider.swift`, `ffi.rs` | `pc` is where a start or a stop is, `thread` the thread of its callback, `lastErr` `LAST_ERR`; the engine is its lock and slot |
| `MC*` | constants for TLC | - |
| `*Proofs` | TLAPS proofs, each about the module of its name; `TaskProofs` about `DnsProxy`, `SocksConn` and `CancelToken` | - |

`DnsProxy`, `SocksConn` and `CancelToken` carry their names in what every module
has (`DnsInit`, `SocksTypeOK`, `TokenSpec`), so that `TaskProofs` can extend all three.

`Engine` uses the token as a flag per session. `CancelToken` refines `Latch`,
which is the justification. `Engine` in turn refines `SessionSlot`, and
`AppleTunnel` refines `ProviderContract`. `Pipeline` is the composition of both
Leaf instances, Arti and the TUN by the end points that `Engine` leaves out; it
takes sessions to follow one another, as the host's calls do. `VpnApp`
uses an engine that is off, up or dead in its slot: the phases of a session that
`Engine` shows to the outside, with `start` and `stop` atomic because the host
calls them on its main thread.

### Decisions a reader should know

- The wrapper task that `run_leaf_with_config` returns only awaits the blocking
  thread. Aborting it detaches the thread, so it has no state in `Engine`.
- `LeafLatches` says whether leaf remembers a shutdown of a runtime id that is
  not registered yet. Leaf is not in this repository. `MCEngineOne` uses `TRUE`,
  on which `CancelWindsDown` depends: with `FALSE` a session cancelled before its
  thread registers never winds down. The proofs hold for both values.
- `MayTimeout` says whether a 2 s join of `stop()` may elapse. `StoppedIsReaped`
  and `PathServed` are checked without it: with it the task that was not reaped
  can still remove the next session's socket file. `MCEngineTwo` has it.
- `Engine` only counts a session's DNS queries in flight, up to `MaxInflight`;
  what a query does is in `DnsProxy`.
- `VpnApp` has history variables for what its properties relate a state to: `wish`,
  what the last press of this UI asked for, a disconnect told apart that was pressed
  while a `connect()` was suspended at one of its awaits ("crossed"), and set back
  when the system refuses the call; `fresh`, that the UI had no press yet; and
  `overtaken`, whose dialog took the place of a call's pending result. `MayThrow`
  says whether `startService` and `startForegroundService` may throw, which the
  channel turns into an error for the Dart side (`vpn_state.dart:169-171, 179-181`).
  Where `onActivityResult` calls them nothing catches it, and the process ends.
- `VpnApp` numbers service instances because an intent or a destroy belongs to
  one, and `stopSelf()` of an earlier one does nothing. Destroy, intents, and
  results reach the main thread in the order they were sent per queue.
- `DnsProxy` has two facts as variables chosen in `Init`, so that one run has all
  cases: `pinned`, whether the address of the DoH host is known, and `exempt`,
  whether this app's own traffic goes past the tunnel. Without an address the
  system resolver is asked; it asks this very proxy where the app is not exempt,
  and the network's own server where it is (`Resolve`, `ResolveOutside`). By
  `Pipeline` only an exempt app has an engine that carries anything, so the first
  case is the one in which nothing would be answered anyway.
- In `IpcServer` a handler remembers the token its client presented (`auth`), next
  to the one it expects, and whether its client was ever served. `OnlyHoldersAreServed`
  compares the two, and further says that such a client had been given the token of
  its session or of a later one; it depends on the comparison in `handle_client`.
- In `IpcServer` a session may bind before the one before it is cancelled, since
  `stop()` cancels after it let go of the lock. One client is enough for TLC:
  clients share nothing but the token and the session's `Cancel`, both of which
  the model may change at any time. The proofs are for any number.
- `Pipeline` is about Android, where the sockets of the VPN app are routed into
  its own TUN unless a per-app list exempts it or `VpnService.protect` is called;
  nothing in `src/` calls it. The two lists are chosen in `Init` and stay, with
  any part of them not installed: an entry that cannot be added is skipped, and a
  list of allowed applications that comes out empty routes everything.
- What Leaf and Arti make of their configurations is not in this repository.
  Arti's transport is given the address of Leaf #1 and no credentials, while
  Leaf #1 is configured with some: `PtChecksAuth` says whether it insists on
  them. The bridge line names 0.0.0.0:1 and Leaf #1's outbound is `direct`:
  `BridgeCarried` says whether such a dial reaches the bridge. `MCPipeline`
  assumes what lets the system work; the proofs hold for all four cases.
- A bootstrap completes with a directory, which `arti-cache` may still hold or the
  bridge brings (`cached`); streams need the bridge in any case.
- Other programs bind ports too. `PtRefused` and `ArtiRefused` are always possible
  while a port is not bound, which for Arti's is the whole bootstrap. Such a
  program is taken not to accept the session's random credentials, so that
  nothing flows through it. `util.rs:7-8` says that the consumer retries on
  `EADDRINUSE`; no code does, the refused part cancels its session.
- Several connections of one application do not meet; one of a session's bridge
  dials and one of a chosen application are followed. `Closes` stands for every
  way in which a connection ends, an ended Leaf #1 included.
- `AppleTunnel` lets two starts overlap when the system gives the first one up:
  a stop neither withdraws nor awaits the settings callback. The descriptor is
  always -1, which no `FdGuard` closes, so `TunFd` has no part in it.
- In `ConfigPath` a value such as an address or a port is one of the classes the
  parsers tell apart.

## 3. Runs

Passing runs:

| Run | Shows | Bounds, and why they are enough |
|---|---|---|
| `MCCancelToken` | no lost wake-up; with fairness it implements the latch that releases every waiter | 3 waiters, 2 cancellers: a second `cancel` during the first, and waiters at different steps |
| `MCEngineOne` | nothing orphaned, stopped means reaped, the IPC path is the live session's, a cancelled session winds down | 1 caller, 2 sessions, Leaf #2, 1 query: the leftovers of one session against the next |
| `MCEngineTwo` | one live session, refinement of `SessionSlot`, every call returns; what a join gave up waiting for ends all the same | 2 callers, 2 sessions, no leaf threads: callers interact by lock, slot and tasks |
| `MCTunFd` | who may close what | 2 numbers, 3 attempts: a third attempt reuses a number after a late close |
| `MCVpnApp` | when all is delivered, "connected" has an engine and a running engine is shown; a disconnect that no `connect()` crossed leaves no engine; engine, service and permission stay together; a channel call is answered at most once, and lost only to the dialog that took its place | 3 presses, 1 new UI, a revocation, a dying engine, refused calls: connect, disconnect, connect in all interleavings |
| `MCIpcServer` | old tokens are dead, nobody is told or obeyed who did not present the token expected, a handler without client and session ends | 2 sessions, 2 pipelined requests: a token of the session before, and a request behind an unanswered one |
| `MCSocksConn` | authenticated dials, half-close, cancel, end of stream | 2 bytes each way |
| `MCDnsProxy` | every reply answers the bytes its own peer sent, and no query has two kinds of reply; every datagram is dealt with, and a cancelled socket closes | 3 queries, the resolver's own included, address known or not, app exempt or not, posts may fail: a datagram in the buffer, one in a task, one that is waited for |
| `MCPipeline` | a session carries something only if this app is exempt from the TUN; a connection stays with its session's Arti; a bring-up whose bridge can be reached serves or ends | 2 sessions, 2 ports, 2 applications: a port of an ended session drawn again, both listeners on one port, every list of applications, the connection of either |
| `MCAppleTunnel` | completion handlers are called once, with their own error and the truth about the engine | 3 starts, 2 stops, 2 threads, 1 end of the process: a start that overtakes a callback, a thread used again, a stop of each |
| `MCConfigPath` | an import survives, the country arrives, the engine runs what upstream says | at most 2 odd fields of 13 |

`MCEngineOne` has one of the two leaf threads and `MCEngineTwo` none, because
fairness and both threads together are too much for one instance; what is proved
in section 5 covers every set of leaf threads, callers and sessions.

Runs that end in a counterexample. Each states what a document, comment or test
of the repository says. `PROJECT.json` lists the first as a finding:

| Run | Statement | What the code does |
|---|---|---|
| `MCTunFdTwice` | the descriptor is closed exactly once if bring-up fails | after a late failure both leaf and the guard close it |

The other configurations state further such sentences, one each, and are run by
hand. All of them end in a counterexample:

| Configuration | Statement | What the code does |
|---|---|---|
| `MCEngineDnsPort` | disconnect tears down every socket | a query in flight holds the DNS port |
| `MCVpnAppStuck` | an unexpected stop is reflected in the UI | a bring-up that fails with a return code leaves it connecting |
| `MCPipelineDoh` | a DoH query is delivered to the TUN inbound of Leaf #2, and "rides the tunnel" (`dns.rs:8-10, 108-114`, `README.md:33-36`) | an engine that serves has this app exempt, so the query goes past the tunnel |
| `MCAppleTunnelStop` | there is no engine when the system holds no tunnel | a stop before the settings callback is overtaken by the start |
| `MCEngineLeafLeft` | `stop()` returns once all tasks are cancelled and resources released | leaf threads may still run |
| `MCEngineSlot` | the slot holds the engine *if running* | a dead session stays and blocks `start()` |
| `MCEngineBoot` | cancelling stops everything | the Arti bootstrap does not watch the token |
| `MCVpnAppCrash` | a crash of the core is reflected in the UI | it emits nothing |
| `MCVpnAppAnew` | the status is driven from the native side | a new UI never asks for it |
| `MCVpnAppLast` | disconnect aborts everything | a disconnect during `connect()` is overtaken |
| `MCIpcServerStop` | Stop stops the engine | not if its reply cannot be sent |
| `MCIpcServerCancel` | disconnect tears down every socket | an idle IPC connection stays |
| `MCSocksConnLeak` | bytes are pumped until EOF | a connection whose client left waits for the far end |
| `MCSocksConnCancel` | disconnect tears down every socket | handshake and dial do not watch the token |
| `MCDnsProxyLoop` | `doh_server_ip` is optional | without it, and without an exemption, nothing is answered |
| `MCConfigPathDrift` | the two parsers cannot drift silently | they differ on nulls, ports, addresses, other outbounds |
| `MCConfigPathRefused` | the native start is given a parsed configuration | an empty address or a large port is refused there |

The statement of `MCAppleTunnelStop` is no quotation: it is what the name of
`stopTunnel` promises. The modules' type invariants, and that no waiter of the
token is released early, which `Latch` implies, are proved (section 5) and not
checked by a run; each is a line to add to a configuration.

`CHECK_DEADLOCK FALSE` is set where the modelled part really comes to rest: all
waiters released, the connection ended, all queries dealt with, every start and
stop answered. `Engine` always
has a caller that may call again, and is checked for deadlock.

## 4. Fairness

- `CancelToken`, `SocksConn`, `DnsProxy`, `IpcServer`: weak fairness of each
  task's own steps, since tokio polls every task that was woken. Clients, far
  ends, cancellers and failures have none.
- `SocksConn` also has strong fairness for a pump's end: `select!` polls its
  branches in random order, so a cancelled pump does not copy for ever.
- `Engine`: strong fairness for taking the mutex (parking_lot's is eventually
  fair), weak fairness for bring-up and tear-down steps, threads, tasks and
  queries. The Tor bootstrap may take for ever, and nothing forces a client to
  stop the engine.
- `DnsProxy`: the client's 15 s timeout ends every post.
- `Pipeline`: weak fairness for the bring-up's steps and for Leaf #1's bind. Strong
  fairness for a bridge dial that gets out and for Arti's bind, since Arti dials
  again and again and a dial that gets through is used before it is cut. All of
  it for the latest session only: those before it are cancelled, and their parts
  may linger.
- `AppleTunnel`: weak fairness of each start's and stop's own steps: the callback
  comes, a thread goes on, the lock is held for a bounded time. The system's
  calls, and the end of the process, have none.
- `TunFd`, `VpnApp`, `ConfigPath`: safety only. What the UI shows "in the end" is
  stated of the states in which nothing is under way.

## 5. Proofs

All for every value of the constants, subject to the named assumptions that
each module declares (`EngineAssumption`, `FdAssumption`, `IpcAssumption`,
`SocksAssumption`, `DnsAssumption`, `PipelineAssumption`, `AppleAssumption`,
`AppAssumption`; `CancelToken` and the proofs about `ConfigPath` need none). They
say that bounds are natural numbers and switches are Booleans.

- `EngineProofs`: type correctness, `NoOrphan`, `OneLiveSession`, the refinement
  of `SessionSlot`, and two theorems with an assumption on the constants:
  `StoppedIsReaped` when no join times out, `PathServed` when there is also only
  one caller. The invariants add that the lock's holder is the
  one caller that builds, that the slot is empty while it does, that callers
  hold different sessions, none of them the one in the slot, that sessions not
  begun have nothing spawned, and that what a caller is about to finish was
  cancelled. `OneLiveSession` follows from `NoOrphan` and that exclusion.
  `ReapingInv` adds how far each teardown has come: the tasks joined so far have
  ended, and an ended task stays ended. `PathInv` adds whose IPC loop still
  serves: the one in the slot or one the caller holds, and with one caller the
  slot is empty while it holds one, so a loop that ends removes its own path.
- `TunFdProofs`: type correctness and all four safety properties of the
  descriptor. The invariant ties the number of closes of an attempt to the stage
  of the main thread and to leaf's thread, and says that a number whose owner has
  not closed it still refers to that owner while no attempt has failed late.
- `IpcServerProofs`: type correctness, `OldTokensAreDead`, `OnlyHoldersAreServed`,
  for any number of clients. The invariant adds that no client has, or has sent, a
  token newer than the one it asked for last (`Honest`), that only the newest
  session can be about to rotate, that a serving session generated the token or an
  earlier one, and that a spawned handler, which has not read the token yet, belongs
  to a session no newer than the token. A step of one connection is reduced to its
  record by one lemma (`StepOfOne`).
- `TaskProofs`: what the session's tasks are made of.
  - `CancelToken`: type correctness, `NoLostWakeup`, `NoSpuriousRelease`, and that
    the token implements `Latch` (safety). `TokenInv` adds that the version has
    moved exactly when the value is set, that a stored canceller means the value
    is set, and that no snapshot is ahead of the notify count; without these a
    parked waiter could be one whose wake-up was counted before it subscribed.
  - `SocksConn`: type correctness, `DialsAreAuthenticated`, `ReplyOutlivesHalfClose`.
    `SocksInv` adds that credentials are right behind the check and that pumps run
    behind the confirmation only.
  - `DnsProxy`: type correctness, `RepliesAreOwn`, and `SelfResolverIsMute`: where
    the address is not known and the app not exempt, nothing but SERVFAIL is sent.
    `DnsInv` adds that the kind of a reply is what became of its query, whose task
    has ended, and that in the latter case no query is ever posted: a post needs an
    open connection or an answered lookup, and both need a post.
- `PipelineProofs`: type correctness, `ServingNeedsExemption`, `ChainIsWhole`, and
  that no DoH query of a live session travels through its tunnel
  (`DohGoesPastTheTunnel`, which follows, and which is against what the comments of
  `dns.rs` promise), for any applications, ports and sessions and whatever
  leaf and Arti make of their configurations. The invariant adds three facts. In
  turn: of the sessions begun only the latest is not cancelled, a later one has
  spawned nothing, and Leaf #2 of one that lives has not ended. Carriage: what was
  carried was carried by sessions that exist, and what came in by the TUN is of
  an application that is routed there. And the bridge
  waits: without an exemption no live session's bridge connection is ever at the
  far end, because a socket of this app can then only enter the TUN, whose chain
  needs a bridge first. That circular wait is an invariant by induction over the
  steps; neither of the two properties is inductive without it.
- `AppleTunnelProofs`: type correctness, `ReportedErrorIsOwn`, `AnswersAreTrue`, and
  that no handler is called twice (the safety part of `ProviderContract`), for any
  calls and threads. The invariant adds that a thread runs one start at a time,
  whose failure is the last error of that thread, that an engine in the slot
  belongs to a start that has succeeded and stays there until it is reaped, and
  that a handler was called exactly when its call is done.
- `VpnAppProofs`: type correctness and all seven properties of `MCVpnApp`, for any
  numbers of presses and new UIs. The properties speak of states in which all is
  delivered; they hold because of what is behind what in the queues before that.
  `Followed(q, m, p)` says that behind every message m of a queue there is a p, and
  a set of lemmas what appending, taking, posting and a new UI do to it; the last
  needs that a queue without its calls keeps its order (`Places`), which is shown
  with the least-number principle, since there is no induction to do it with. The
  parts of the invariant:
  - `Counts`: each call is in one place, once, under the name its coroutine awaits
    (`Placed`), and the calls that may still open a dialog or send an intent leave
    room for it (`CountInv`). The bounds of `TypeOK` follow from nothing less.
  - `GrantInv`: a result is pending only while the permission is missing, so a grant
    and a start never meet an old pending one.
  - `ServiceInvs`: behind every start or stop for an instance that is gone comes its
    destroy; an engine has a service, unless such an intent or destroy is coming;
    one without the permission is on its way down. These give `EngineHasService` and
    `RevokedIsOff`.
  - `SinkInv`: nothing is shown before the events are listened to, and a press comes
    behind the request to listen.
  - `OffInv` and `UpInv`: without an engine `running:false` is behind every
    `running:true`; with one, the UI had no press yet, or `running:true` or the error
    of a refused call is the last that the screen learns, or a call or an intent is
    under way that ends the engine. `UpInv` needs all the others, because a start
    that comes to a running engine ends it.
  - `LostInv`, on top of these: an awaited call is in a queue or pending, or the
    dialog of another press took the place of its result. It gives `CallsAreNotLost`.
  - `HoldInv`, on top of these: after a disconnect that nothing crossed no `connect()`
    is under way, so no start can be sent; and the call is still to be handled, or was
    refused, or its stop is behind every start there is, in one queue or over both. It
    gives `DisconnectHolds`.
- `ConfigPathProofs`: type correctness and the four properties of `MCConfigPath`, for
  documents with any number of odd fields where the run has two. Document and
  country are constant, so the invariant says of what function of them the screen,
  the file and the engine are. The argument is in two lemmas: loading what was
  saved gives back what was parsed, for every document (`LoadsWhatWasSaved`), and
  what the native parser finds in the flat document (`FlatFields`).

Every safety invariant that a passing run checks is proved. TLC only: every liveness
property, and the liveness half of the three refinements (fairness and `ENABLED`
are out of the prover's reach).

## 6. Not modelled

- The text of the Leaf and Arti configurations beyond what connects to what: the
  Reality and VLESS fields, logging, the Tor exit's country.
- Random runtime ids are distinct: leaf's registry is not in this repository.
- C pointers and string ownership in `ffi.rs`, and its status and token getters,
  which the provider does not call. `ffi.rs:62-65` and the comment in the provider
  speak of a packet-flow bridge for a descriptor of -1; there is none in `src/`,
  so what Leaf #2 does with -1 is not modelled.
- The provider's injection of the exit country, the same as the service's in
  `ConfigPath` but for blank strings; `parseJson` of a status.
- Widgets, except the decision which call the button makes.
- The text of statuses, log lines and errors.
- A panic in a task, and memory exhaustion.
- Builds, CI, scripts.

## 7. Plan

Done: every module of section 2, in the order token, engine, descriptor, app,
IPC, SOCKS, DNS, configuration, pipeline, packet tunnel.

Next:

1. `VpnApp`: an abstract specification of the user's view (off, starting, on)
   and the conditions under which the app implements it, with the safety part
   proved from the invariant of section 5.
2. `IpcServer` and `DnsProxy` composed with `Engine`, so that the path, the port
   and the cancels of the one are those of the other.
