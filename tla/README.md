# TLA+ models of NapCatQQ-RS

Specifications of the asynchronous core of `napcat-rs` (a QQ bot runtime in
Rust/tokio), model-checked with TLC; most of their safety properties are proved
with TLAPS for all values of the constants. The reader
needs the repository; paths below are relative to `src/napcat-rs/crates/` and
line numbers are those of the commit kept in `src/`.

    tlc -config QQBackend.cfg MCQQBackend.tla      a model-checking run
    tlapm Runtimes_proofs.tla                      the proofs

`PROJECT.json` lists the components, the runs, the mutants, the hazards, the
theorems, and for each definition the source lines it translates.

## 1. The system

| part | state it keeps | operations | talks to |
|---|---|---|---|
| `core` `Runtime` | `state`, the task map, a shutdown broadcast | `start`, `register_service`/`spawn_task`, `shutdown` | the tasks it spawns |
| `protocol` `QQClientBackend` | four atomics, the `listen_task` mutex with a `JoinHandle` | `connect`, `disconnect`, `listen`, the spawned listener | `QQClient`, `protocol_events` |
| `protocol` `OneBotHttpBackend` | three atomics, `listen_task` | the same, and a long-poll task | a OneBot HTTP server, `protocol_events` |
| `qq-client` `TcpQQClient` | state, stream, token, timeout, each behind its own mutex | `connect`, `login`, `receive_packet`, `send_packet`, `heartbeat`, `disconnect` | a TCP server of JSON lines |
| `qq-client` `MockQQClient` | the same without a network, two packet queues | the same, `inject_packet` | - |
| `event` `EventBus` | a tokio broadcast channel | `publish`, `subscribe` | everyone |
| `api` `ApiState` | bus, `protocol_events`, `dispatch_tx`, the two tasks that empty them | send handlers, `/message/listen`, `/ws` | backend, plugins, clients |
| `api` `run_with_state` | the running flag | parse the address, listen, bind, serve, disconnect | backend |
| `plugin` `PluginManager` | the registry behind an `RwLock` | `load`, `unload`, `dispatch`, reads | child processes, Wasm modules, HTTP plugins |
| `storage` | a map behind an `RwLock`, or a SQLite pool | `put`, `get`, `remove`, `clear_namespace`... | nobody yet |
| `desktop` `DesktopRuntime` | a snapshot, a stop channel, a `JoinHandle` | `start`, `stop`, the task | `EventBus` |
| `config`, `cli`, `message` | none that lasts | load configuration, wire the parts together, data types | - |

How they interact: `cli` reads the configuration, connects a backend and hands
it to `run_with_state`, which calls `listen` with `protocol_events`. The
listener of the backend decodes packets and sends events into that channel; the
relay task of `ApiState` takes them out, shows messages to the plugins, and
publishes all of them on the bus. Send requests go to the backend and then,
through `dispatch_tx`, to the dispatcher task, which publishes them too.
Sockets, polls and the desktop's task read the bus.

What is hard here: nothing is behind one lock. A lock is dropped between a
check and the act it guards (`Runtime::register_service`,
`PluginManager::load`), flags are stored before a mutex is taken
(`QQClientBackend`), or with no mutex at all (`OneBotHttpBackend`); a task is
spawned before it is known whether it may; an abort takes effect later than it
is asked for; a future may be dropped at an await, with half of its work done;
two locks are taken in two orders (`MockQQClient`); and bounded channels drop
what a slow reader has not read. What makes each part correct:

* Runtime: every registered task is owned by one party, `Ok(n)` is true,
  shutdown ends, and it leaves nothing running that it was told about.
* Backends: the flags say what the client is; one listener at a time, which
  belongs to the current connection and ends with it.
* TCP client: LoggedIn means that the server said so on this connection; a
  disconnect leaves nothing behind; packets arrive whole or not at all.
* Mock client: a session is opened, logged in to, ended; calls return.
* Pipeline: order, no holes, each accepted message published once, every
  request's answer true, no task that dies early.
* Plugins: the registry holds what has loaded; a dispatch reaches each plugin;
  nobody waits for the lock for ever.
* Storage: both stores are one map, whatever overlaps or fails; its views agree.
* Main task: serve only with the settings of the topmost layers over a backend
  that is ready; leave nothing of it behind on the way out.
* Desktop: a stop stops the event loop, and the dashboard can start again after
  it; no event is counted twice.

`PROJECT.json` lists 40 hazards of this kind at their lines, with the property
that would catch each one, or the reason why none does.

## 2. The modules

| module | models | checked in |
|---|---|---|
| `Runtime` | `core/src/lib.rs` 83-233 | `RuntimeProps`, `MCRuntime`, `MCRuntimes` |
| `ListenSession` | what `ProtocolBackend` promises, without flags, locks or tasks | refined by the next two |
| `QQBackend` | `protocol/src/lib.rs` 779-933, `QQClientBackend` | `MCQQBackend` |
| `OneBotBackend` | `protocol/src/lib.rs` 555-762, `OneBotHttpBackend` | `MCOneBotBackend` |
| `PluginManager` | `plugin/src/lib.rs`: the manager, validation, and the runtimes as outcomes; the plugin handlers of `api` | `MCPluginManager` |
| `Broadcast` | `tokio::sync::broadcast` as used through `event` | |
| `EventPipeline` | what the listener makes of packets (`protocol`), and `api/src/lib.rs`: the tasks of `with_protocol`, the send and delete handlers, `/message/listen`, `/ws`, the OneBot payload | `MCEventPipeline` |
| `TcpClient` | `qq-client/src/lib.rs` 361-626 and its server | `MCTcpClient` |
| `ClientSession` | what the trait `QQClient` promises, without locks or tokens | refined by the next |
| `MockClient` | `qq-client/src/lib.rs` 133-288, `MockQQClient` | `MCMockClient` |
| `Desktop` | `desktop/src/lib.rs` 32-170, `DesktopRuntime` and its task | `MCDesktop`, `MCRuntimes` |
| `RecordMap` | what the trait `Storage` promises: one map of timed records | refined by the next |
| `Storage` | `storage/src/lib.rs` 54-459, `MemoryStore` and `SqliteStore` | `MCStorage` |
| `App` | `config`, `cli`, `run_with_state` (`api/src/lib.rs` 1257-1301) and the status routes, composed with `QQBackend` and `OneBotBackend` | `MCApp` |
| `OneBotBackend_proofs`, `TcpClient_proofs`, `MockClient_proofs`, `PluginManager_proofs`, `EventPipeline_proofs`, `Storage_proofs` | the theorems about the module of that name (section 4) | |
| `Runtimes_proofs` | those about `Runtime` and `Desktop`, the two that own tasks and stop them | |
| `QQBackend_proofs` | those about `QQBackend` and `App`, which extends it | |

A component's module holds its state, its actions and its fairness; its
properties are in the `MC` module (for `Runtime` in `RuntimeProps`), and its
`_proofs` module extends that one. `MCRuntimes` puts `Runtime` and `Desktop`
into one run, one of them in each behaviour (`runtime`): they share nothing. Two
`_proofs` modules extend the properties of two components; the definitions of
the second are then named for it (`AppSpec`, `MainTypeOK`, `DesktopSpec`,
`DesktopTypeOK`). Each theorem is about the specification of one of them.

**Steps.** An action is what runs between two points at which another task can
run: an `await`, the release of a lock, or an atomic store that somebody else
reads. A variable `pc` (in `Runtime`: `reg`, `stop`) says where each call
stands. A call goes on to its end where nothing in the code cancels it; where
something does, there is an action for it: the HTTP server drops a handler when
its client leaves (`RequestDropped` of EventPipeline, `CallDropped` of
PluginManager), and the owner of a `DesktopRuntime` may drop a `stop`
(`CancelStop`). Critical sections without an `await` are one step. Steps that
read or write what no property tells apart (endpoints, message contents, log
lines) are left out; so are calls that fail before they change anything
(`Runtime::start` in a wrong state).

**Callers.** Some of the guarantees need callers who do not overlap their
calls, and the code has no document that says which. A model in which that
matters quantifies over disciplines: a variable that never changes (`callers`,
`loads` in PluginManager) is chosen in `Init`, so that one run checks them all,
and a property says for which discipline it holds. The weakest that we found it
to hold for is used.

| discipline | in | the callers |
|---|---|---|
| `overlapping` | Runtime, QQBackend, OneBotBackend, PluginManager, MockClient, Storage | any number of calls at a time |
| `serial` | Runtime, QQBackend, OneBotBackend, App, Storage | await each call before the next (what tests, benches and `cli` do) |
| `one_at_a_time` | PluginManager | one load at a time; everything else may overlap |
| `settled` (QQ) | QQBackend | serial, and no call during the last steps of a listener that leaves or was aborted |
| `settled` (OneBot) | OneBotBackend | serial, and after a disconnect no call until the old listener has ended |
| `backend` | TcpClient | connect, login, sends and disconnect one at a time, and one `receive_packet` beside them, which is how `QQClientBackend` uses its client as long as nobody sends during its connect or disconnect |
| `backend` | MockClient | the lifecycle calls one at a time, any traffic beside them |
| `exclusive` | TcpClient | one call at a time |

**Correspondence, module by module.**

*Runtime.* `state`, `tasks` are the fields. A registration call `c` owns a task
of the same name, since the code spawns before it looks up the name
(142 before 149). A receiver of `shutdown_tx` lives as long as its task, so
`Receivers` is the set of running tasks and `signalled` the tasks whose
receiver holds the message. `shutdown` is ShutdownEnter (186-198), Count (200),
Send (201), Drain (206), then one Join or Fail per handle (224-227) and Finish
(229). The timeout wrappers are `WrapperExpire`; `timers` says whether they may
fire at all.

*QQBackend.* The flags are one function `flag`; `connect` and `disconnect`
begin with four `StoreFlag` steps in the order of the code and then wait for
the `listen_task` mutex (`lock`), which connect keeps through
`client.disconnect`, `client.connect` and `client.login`. `handle` is what
`listen_task` holds, `aborted` the tasks `abort()` was called on; `Die` is the
moment it takes effect, possible wherever the listener awaits or has not been
polled. The client is its `ConnectionState`.

*OneBotBackend.* The same shape without the mutex: `listen_task` is only ever
written, so it is left out, and nothing aborts the listener.

*PluginManager.* tokio's RwLock serves in order of arrival: `queue` is who
waits, `readers` who reads. A writer's critical section is one step; `dispatch`
keeps reading across its calls, everything else reads or writes in one step.
`instance` is the ghost of each plugin instance (loading, active, dropped,
unloading...). `Kind` is its runtime. A call of a plugin is one step whose
outcomes are those of `RustPlugin`, `WasmPlugin` or `HttpPlugin`: an instance in
`Failing` may have any of them, also the Rust plugin's that does not read its
event (`stalled`: the write at 436 is outside the timeout). `CallDropped` is a
load or unload whose HTTP client has left, and with its future goes its place
in the lock's queue (`LeaveQueue`). `dispatch` has none: the relay makes
it, and is not dropped.

*Broadcast, EventPipeline.* A broadcast channel is the log of what it was sent
and a receiver is a position; what lies further back than the capacity cannot be
read any more (`HasLagged`). `Decode` is `decode_inbound_packet` and
`BackendEvent` one turn of the listener's loop; `ListenerStops` is its last
event, after the packets of this instance. `relay` and `dispatchQueue` are the
two tasks of `with_protocol`. A request of one of the five routes (`Required`,
`Asked`) is `400`, or goes `sending`, `emitting`, and ends in its HTTP status; a
deletion begins at `emitting`. A reader is a socket or a poll, with the filter
`EventTypes` makes of its query, and is given `Payload`s. The properties speak
of positions on the bus: those of the backend's events (`Relayed`), of the send
handlers' (`Published`), of what a reader has read and its filter accepts
(`Due`). The n-th of them (`Rank`) is the n-th of the log, of what the plugins
were shown, or of what the reader was given.

*Desktop.* `stop_tx` and `join_handle` (the field `task`) are the two `Option`s
of the struct, by the task they belong to. The owner is in `stop` (`send`,
`join`) or not; `mail` is the stop channel from the receiver's end, `closed`
when the sender is gone. `last` stands for all of the snapshot that is about the
last event, and `counted` is a history variable: which events the total is made
of. `faults` remembers whether a stop was cancelled or a task killed.

*MockClient.* One step for each mutex that is locked for one assignment;
`holder` is who keeps one across an await, which only `login` (the token's) and
`disconnect` (the state's and the queues') do.

*TcpClient.* `send_packet` and the packet of `heartbeat` are `SendCheck`, where
the state is read, and `Transmit`, where the stream is taken; `sent` is the set
of connections that something was sent on. A packet travels as two fragments,
the second holding the newline, so that reads fall between them and around
them. `wire[c]` is what was sent on connection `c` and not read; `line` is what
a read has in its BufReader, and a BufReader that goes out of scope takes its
contents with it. The server grants a login only on a connection it was asked
on.

*Storage.* `store` is the `HashMap` or the table, keyed by `Slot`: for
MemoryStore the characters of namespace, separator and key in a row (`Joined`),
which `SplitOnce` takes apart again. `validate_namespace` refuses blank
namespaces only, so one may hold the separator: MemoryStore then takes its
records for those of the part before it (`Apart` says which namespaces a store
keeps apart, `Places` which names it has slots for). A call reads the clock when
it begins; then a memory put is one step under the write lock, a SQLite put a
select and an upsert in one transaction: `snapshots` is the transactions that
nobody has committed behind, the others fail at their upsert. A failing
statement is `SqlFail`.

*App.* There is only ever one backend, so `QQBackend` and `OneBotBackend` share
the variables `flag`, `pc`, `op`, `listener` and `callers`; the configured mode
decides whose steps are taken. `patches` is what each layer sets, `config` the
configuration so far, `at` where the main task stands; `Apply` is
`apply_patch`. The calls of the backend are the backends' own: `Call` begins
one, `Connected`, `Listening` and `Disconnected` are the awaits of their
results, `QQStep` and `OneBotStep` are everything the backend and its listener
do meanwhile. A step of the main task changes only its own variables, except
`BuildBackend`, which gives the backend its credentials.

## 3. The runs

A passing run checks all its properties on the complete state space of its
instance.

| run | instance | shows |
|---|---|---|
| `QQBackend` | 5 calls (3 if overlapping), with and without credentials | `TypeOK` (with who may touch the client), `CallsAndListenersEnd` always; `FlagsHonest` for serial callers; `ImplementsSession` (with one listener at a time) for settled ones |
| `OneBotBackend` | 5 calls (4 if overlapping) | `FlagsConsistent`, `ImplementsSession` likewise; `ListenersEnd` always, but for a listener in a poll that is never answered |
| `PluginManager` | 4 calls, 2 names, the first instance a process that may fail or stall | `RegistryExact`, `DispatchComplete`, `CallsReturn` |
| `EventPipeline` | 4 packets of which 3 are events, 2 requests, 1 reader, channels of 1, a queue of 1, polls of up to 2 | `NoGapsInStream`, `RelayInOrder`, `SendAccounting`, `NothingIsLost`, `PollsEnd` |
| `TcpClient` | 5 calls, 2 packets in two parts each, 2 retries | `LoginHonest` (with: packets only after a login), `DisconnectedIsClean`, `PacketsIntact` |
| `MockClient` | 4 calls (3 if overlapping) | `CallsReturn` always, but for the embrace of a login and a disconnect; `SessionHonest`, `ImplementsSession` for the backend's calls |
| `Runtimes` (Runtime) | 3 registrations under 2 names and 2 shutdowns by one caller, or 2 registrations that overlap with them; task 1 and 2 obey, 2 may panic, 3 ignores the signal; with and without timers | `TypeOK`, `HandleAccounting`, `OkMeansJoined` always: one owner per handle, `Ok(n)` counts returned tasks only; `SerialStopIsClean` for one caller; `ShutdownReturns`: with timers always, without them for one caller whose tasks obey |
| `Runtimes` (DesktopRuntime) | 2 tasks, 4 events, a bus of 2 | `DesktopTypeOK` (with: the handles come and go together), `CountsOnce`: the total is the number of events counted, `StopReturns` |
| `Storage` | 3 puts, removes or clears on either store, one at a time or overlapping, 2 namespaces, 3 keys, 2 values, a clock to 2 | `ViewsAgree`, `ImplementsMap` |
| `App` | three layers of up to 2 settings each, the three modes, connect, listen and disconnect once, every step may fail | `ServesReady`, `CleanReturn` |

Three runs end in a counterexample. Each states what a comment or a test says
and shows that the code does something else:

| run | property | what happens |
|---|---|---|
| `Runtime_fully_stopped` | `FullyStopped` | the task of a registration refused as a duplicate is already running and stays so in the Stopped runtime ("Runtime fully stopped.") |
| `QQBackend_ghost` | `NoGhostConnection` | disconnect clears the flags, a connect under way sets `connected`, disconnect then drops the client: connected over a Disconnected client |
| `Storage_times` | `TimesInOrder` | a put reads the clock and waits while another creates the record: its "latest write" (`storage/src/lib.rs` 79) is before the "first write" (77) |

Other weaknesses of the code are stated as the exception in a property that
otherwise holds:

* `CallsReturn` of MockClient (`Embrace`): a login and a disconnect that overlap
  may wait for each other for ever.
* `CallsReturn` of PluginManager and `NothingIsLost`: a Rust plugin that does
  not read its event.
* `DesktopTypeOK` and `CountsOnce`: a stop that is dropped leaves a task that
  counts beside its successor; one that is dropped or finds its task killed
  leaves a `DesktopRuntime` that can neither start nor stop.
* `ListenersEnd`: a long poll has a connect timeout only (`protocol/src/lib.rs`
  378-381, 671-678), so a server that accepts it and never answers keeps the
  old listener, and with it `listening`.
* `ViewsAgree` and `ImplementsMap`: MemoryStore does not keep a namespace apart
  that holds the separator `'\0'`. `a\0b` with key `k` is the record of `a` with
  key `b\0k`; `keys` and `clear_namespace` of `a` list and remove what was put
  under `a\0b`, and those of `a\0b` find nothing. `CHANGELOG.md` 31 speaks of
  namespace isolation; MemoryStore has it for the other namespaces, SQLite for
  all.

Every property has a mutant in `PROJECT.json`: a plausible slip in one
definition, kept beside it in the module with the comment `(mutant)`, under
which the run finds that property violated.

**Bounds and why they are enough.** `MaxCalls`, `MaxOverlapping`, `MaxStops`,
`Packets` and `MaxPackets`, `MaxSends`, `MaxEvents` (of a poll: 32 in the code,
2 here; of Desktop: what is published), `MaxStarts`, `MaxRetries` (4 in the
code, 2 here), `MaxTime` and `MaxPerLayer` are the caps; they bound how much is
asked of the system, never how it answers. Two shutdowns and three registrations
under two names give a duplicate, a failed shutdown that is repeated, and a
registration between two shutdowns. Five calls are connect, listen, disconnect,
connect, listen: an old listener beside a new one; three overlapping calls are
enough for two listeners and for a disconnect inside a connect. Four plugin
calls are a load, a second load or an unload of the same name, a dispatch and a
waiting writer behind it. Three events through a channel of one make relay and
readers lag and leave one for a listener whose relay has ended, and two requests
fill a queue of one; `Types` is `message` only, so that a filter takes
everything or rejects the `meta_event`s. Four events through a bus of two
overwrite some that a task has not read, and two tasks let one that was left
behind count beside its successor. Four calls of the mock client are connect,
login, disconnect and one more beside them. Two packets in halves, with five
calls, let a read begin in the middle of a packet and a second one lose what the
first had buffered. Three storage calls are two puts of one name and a remove or
a clear between them; the namespaces are `a` and `a\0b`, so that one begins with
the other and holds the separator, and of the keys `k`, `b\0k` and the blank one
(refused) two make names that join to one string. Two settings for each of three
layers let the layers contradict each other and still give a complete qq or
onebot configuration. The runs' mutants confirm that each of these cases is
reached.

Deadlock checking is off: a finite number of calls ends, and the systems then
rightly stand still. That none of them is stuck before is what the liveness
properties say (`ShutdownReturns`, `CallsAndListenersEnd`, `CallsReturn`,
`PollsEnd`, `StopReturns`).

**Fairness.** Weak fairness of the steps of a call that was made and of a
spawned task: tokio polls what is ready. It is justified where a step waits for
somebody else: the calls of the client under `listen_task` have timeouts
(QQBackend), plugin calls have timeouts (PluginManager), a full queue is given
up after 80 ms and a poll's wait for an event ends by its timeout
(EventPipeline), shutdown's wrappers expire (`WrapperExpire`, only when
`timers`), a tokio mutex serves its waiters in turn (MockClient). Desktop's
`Break` has strong fairness: `select!` picks at random among the branches that
are ready, so a stop message that stays there is taken some time, however busy
the bus is. No fairness for: making a call, a task's return (only an obedient
one, once signalled), a WebSocket client's reading, the backend's events, the
desktop's reading of the bus, and `RelayPublish`, since a stalled plugin may
hold the relay for ever; `NothingIsLost` states that it does not as a condition,
and that the relay never falls a whole channel behind. The write that stalls is
likewise not assumed to end in PluginManager, nor is a long poll of
OneBotBackend assumed to be answered. TcpClient, Storage and App have no
liveness property and no fairness.

**Refinement.** `ListenSession` is what a user of `ProtocolBackend` wants: up or
down, at most one listener, started only while up, and never inherited by a
later connection (`GoUp` needs `listener = None`). `QQBackend` and
`OneBotBackend` implement it for settled callers under the mapping `Session`:
up is `connected`, the listener is the live task (for QQ, the one that was not
aborted). A backend with several listeners maps to `Several`, which no session
has. For other callers neither does, so their behaviours are mapped to a
session that is never opened, and the promise is made to settled callers only.
`App` is a serial caller: a remote end of the listener may still be under way
when it disconnects, which is why `CleanReturn` lets a listener be on its last
steps.

`ClientSession` is what a user of the trait `QQClient` wants: open, log in,
close, and never logged in to a session that is not open. `MockClient`
implements it for a caller that makes these calls one at a time, beside any
traffic.

`RecordMap` is one map from names to records with the time of the first and of
the latest write. `Storage` implements it under `Map`, whatever overlaps or
fails. Its names are the `Places`: for SQLite those are the names, each looked
up with `Get`; MemoryStore has one for each joined name, and a name whose
namespace it does not keep apart has no record of its own: a put there is one of
the place it is taken for, and a clear there empties nothing. For serial callers
each put writes a time that is not before the record's latest; for overlapping
ones `RecordMap` allows any time up to now, which is what `TimesInOrder` shows
to happen.

## 4. The proofs

Every theorem is about the `Spec` that TLC checks, for all values of the
constants: any number of calls, names, tasks, packets, plugins and readers, any
capacity, every discipline of the callers. The assumptions on the constants are
the `ASSUME` of each module: bounds are numbers, capacities are
not zero, `None` is none of the values it stands beside, subsets are subsets.
`StorageAssumption` says of names that they are sequences, of any characters.
The theorems about `AppSpec` have one hypothesis,
`MaxCalls = 3`: a program makes three calls of its backend, as `run_with_state`
does.

| module | theorem | says |
|---|---|---|
| `Runtimes_proofs` | `TypeCorrect`, `Accounting`, `OkIsHonest`, `SerialStopLeavesNone` | `TypeOK`, `HandleAccounting`, `OkMeansJoined`, `SerialStopIsClean` of Runtime |
| | `DesktopTypeCorrect`, `CountedOnce` | `DesktopTypeOK`, `CountsOnce` of Desktop |
| `QQBackend_proofs` | `TypeCorrect`, `FlagsAreHonest`, `Refinement` | `TypeOK`, `FlagsHonest`, `ImplementsSession` of QQBackend |
| | `MainTypeCorrect`, `ReadyWhenServing`, `ReturnsClean` | `MainTypeOK`, `ServesReady`, `CleanReturn` of App |
| `OneBotBackend_proofs` | `TypeCorrect`, `FlagsAreConsistent`, `Refinement` | `TypeOK`, `FlagsConsistent`, `ImplementsSession` |
| `TcpClient_proofs` | `TypeCorrect`, `LoginIsHonest`, `DisconnectIsClean`, `PacketsAreIntact` | `TypeOK`, `LoginHonest`, `DisconnectedIsClean`, `PacketsIntact` |
| `MockClient_proofs` | `TypeCorrect`, `SessionIsHonest`, `Refinement`, `NoEmbrace` | `TypeOK`, `SessionHonest`, `ImplementsSession`; no `Embrace` for the backend's calls |
| `PluginManager_proofs` | `TypeCorrect`, `RegistryIsExact`, `DispatchIsComplete` | `TypeOK`, `RegistryExact`, `DispatchComplete` |
| `EventPipeline_proofs` | `TypeCorrect`, `StreamsHaveNoGaps`, `RelayKeepsOrder`, `AnswersAreTrue` | `TypeOK`, `NoGapsInStream`, `RelayInOrder`, `SendAccounting` |
| `Storage_proofs` | `TypeCorrect`, `ViewsAlwaysAgree`, `Refinement` | `TypeOK`, `ViewsAgree`, `ImplementsMap` |

A module's `IInv` (`DesktopIInv`, `MainIInv`) is its inductive invariant. It was
checked with TLC on the instance of the component's run before it was proved. A
lemma `...Kept` says that a step keeps one part of it, action by action;
`Inductive` puts them together, and the theorems follow from `Spec => []IInv`.

**Runtime.** `HandleAccounting` and `OkMeansJoined` are not inductive: a
shutdown about to drain could already hold handles, and the drain's assignment
`drained[s] := Managed` would lose them; and a call that returns 0 from Stopped
would have `joined # drained`. What excludes both is the order of a shutdown,
`NothingBeforeDrain`: a call that has not reached the drain holds no handle.
`RegisterKeepsBooks` and `DrainKeepsBooks` are the two steps that move a handle.
`SerialStopIsClean` needs in addition that one call at a time is under way, that
a registration finds the runtime Running all along, and that the map stays empty
once it is drained (`SerialOK`).

**QQBackend.** `TypeOK` is inductive: it says who may touch the client, and each
step up to the release of the mutex is the holder's. `FlagsHonest` speaks of
the time between calls, so `SerialAt` says for a call under way which flags it
has reset and what it has made of the client, by where it stands, and
`SerialFlags` what holds of the others meanwhile. For settled callers
`SettledInv` adds that the one live listener that was not aborted is the one
whose handle is stored, that a listen call finds the place free, and that a
connect has freed it. `SessionStep` then shows each step of the backend to be a
`GoUp`, `GoDown`, `StartListener` or `EndListener`, or a stutter of the session.

**OneBotBackend.** The same argument without a mutex: `SerialInv` relates the
flags by where the one call stands, and `SettledInv` says that `connected` is
only stored where no listener is left over, which is all that keeps a second
one away, since nothing aborts the first.

**TcpClient.** `GrantsOK` carries the proof: an `auth.ok` that can still be read
from the connection in use was granted on it, also when its login has it in its
buffer (`Accepts`), and a login that has understood one has the server's grant
for the connection opened last. It rests on `StreamOK` (the stream slot holds
that connection or none, and nothing is sent on one that is not open),
`SessionOK` (what a lifecycle call finds and leaves), and `SerialOK`: beside
one lifecycle call there may be one receive call, whatever the discipline.
`PacketsIntact` needs another invariant, `WholeOK`, for callers who make one
call at a time. What a reader holds followed by what is still on the wire is
`Paired`, a head always before its own tail, and what is sent next continues it
(`Continues`). A read that gives up drops a beginning of that sequence, and what
remains may begin with a tail but never joins one to another's head
(`LineIsWhole`). The lemmas `FirstTail`, `FirstLineOK`, `Joined` and `ReadStep`
say what reading a line makes of a buffer.

**MockClient.** `TypeOK` says who holds which mutex and is inductive;
`SessionAt` says what the one lifecycle call under way has done so far. That no
two of them wait for each other (`NoEmbrace`) follows: the embrace takes a login
and a disconnect at a time.

**PluginManager.** `RegistryExact` says what is registered; that it stays so
needs to be known of each load and unload by where it stands: `LoadsOK` (the
instance of a load is not known to anybody else), `EntriesOwned` and
`ActiveRegistered` (an instance is active exactly under its own name),
`UnloadingOwned` (each instance being unloaded has one call that does it). For
loads that do not overlap, `LoadsAlone` keeps the name of the one under way
free. `DispatchComplete` rests on `DispatchHolds`: a dispatch has the lock while
it calls, so the registry stands still.

**EventPipeline.** `Positions`, `PositionMore`, `BusGrows` and `BusPositions`
are about ranks: a new last position has the highest rank and leaves the others
as they are. With them each of the three properties is kept by the one step that
touches it. `RelayOK` adds the place of the relay's cursor and the event that it
holds between showing it to the plugins and publishing it; `ReadersOK` the
cursors; `WireOK` and `EmittedOnce` count each answered request once, in the
queue or on the bus.

**Desktop.** `HandlesOK` says where the sender and the JoinHandle of a task
are. `OneAlive` follows from it while no stop was cancelled: a task that is
alive is the stored one, or the one a stop waits for. So what it counts next is
beyond what was counted last (`ReadsOn`), whatever the bus has overwritten, and
therefore not among what was counted (`CountedOK`: nothing beyond the last).

**Storage.** `SplitJoined` is the lemma MemoryStore needs: when a namespace
holds no separator, the first one in a joined name is where it was joined,
whatever the key holds. `SplitAnyName` is the one for the others: any joined
name splits into a place with the same slot, whose namespace holds none. Then a
slot belongs to one place (`SlotPerKey`; `StoreOK` says that a valid name was
put there), and the prefix of a namespace that is kept apart matches its own
slots only (`PrefixIsNamespace`): `get`, `keys` and `count_namespace` are views
of the same records. `TimesOK` bounds the stored times by the clock and, for
serial callers, by what the call under way has read. For SQLite, `SnapshotsOK`
says that a transaction whose snapshot still stands has seen what is there, so
its upsert keeps the `created_at` it read, and `CallsOK` what each call knows by
where it stands. The refinement maps the one write of each call, a put, a remove
or a clear, to that of `RecordMap`; a statement that fails, a remove of what is
not there and a clear that finds nothing are stutters.

**App.** `ConfigOK` says which layers are in the settings by where the main task
stands, and `TopmostIsLast` that applying them in order is the same as taking
the topmost. `BackendOK` describes the backend by the stage of the main task:
nobody has called it, it connects (`QQConnect`), it listens over a connection
that is up (`QQListen`), it is torn down (`QQClose`), and the same for onebot.
Within a stage only the one call that belongs to it and the listener of call 2
can take a step; `QQConnects`, `QQListens` and `QQCloses` say that each of their
steps stays in the stage, `StagesFollow` that the end of a call is the
beginning of the next stage, which is where the main task may go on. The
backends' own invariants are not used: they speak of any callers, these of the
one sequence of calls the program makes.

**Only model-checked.** All liveness: `ShutdownReturns`, `CallsAndListenersEnd`,
`ListenersEnd`, `CallsReturn`, `NothingIsLost`, `PollsEnd`, `StopReturns`.
Fairness and ENABLED are out of the prover's reach. So is induction over data;
the properties of EventPipeline and the queue of PluginManager are therefore
stated by positions, not by filtering sequences, whose results no lemma could be
proved about. The three properties of the runs that
expect a violation, `FullyStopped`, `NoGhostConnection` and `TimesInOrder`, are
refuted, not proved.

## 5. Not modelled

* `MockProtocol` (`protocol/src/lib.rs`), which only tests use.
* The length of a timeout (which `heartbeat` sets); times are only before and
  after.
* The text of the configuration file and the variables: a layer parses or fails.
* A `listen` that is refused in `run_with_state`: it can be, to a caller beside
  another listener or without a connection, but in one run of the program
  nobody else listens, and `connect` has returned Ok. What
  App does then (`Listening`) is modelled and not reached with `MaxCalls = 3`.
* A clock that goes back (`unix_seconds_now`).
* HTTP routing and parsing, and the lists of groups, users, friends and members:
  the routes read fields that nothing but tests ever fills (`set_groups`,
  `set_users`), or constants, so there is no behaviour to check. The doc of
  `no_cache` (`api/src/lib.rs` 199) speaks of a cache; the code only leaves out
  the two defaults (829-833).
* The ids the compat routes make (`api-<length>`, 562) are not unique; no
  property rests on them, a request is its number here.
* `message`: serde types and constructors; which fields may not be blank is in
  `EventPipeline`.
* The inside of a plugin call (processes, pipes, wasmtime, HTTP): its outcomes
  are modelled. A child that timed out is left running, which nothing here sees.
* The desktop's heartbeat branch, which writes a log line.
* The clock, the allocator, crashes: nothing is recovered from a crash but the
  SQLite file, which is the library's business.

## 6. Plan

In order; all but the end of the last are done.

1. The core: `Runtime` with its proofs, both backends against `ListenSession`,
   the plugin registry, the event pipeline, the TCP client, the stores against
   `RecordMap`, the main task.
2. `Desktop` over `Broadcast`; a stop that fails half way or is dropped.
3. `App` in every mode, over both backends, with the status routes.
4. `MockClient` against `ClientSession`.
5. `EventPipeline` from the packet to the payload: decoding, the handlers'
   validation, deletions, filters, polls on a silent bus; the plugin handlers,
   the runtimes' outcomes, and clients that leave.
6. Proofs. Done: every safety property the runs check, and the refinements, of
   `Runtime`, both backends, both clients, `PluginManager`, `EventPipeline`,
   `Desktop`, `Storage` and `App`. Left: that `Broadcast`'s ring refines an
   unbounded log, and lemmas that say what the runs' liveness rests on, step by
   step (each enabled action brings its goal nearer), so that fairness is all
   that is not proved.
