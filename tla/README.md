# Lomiri location service: verification project

TLA+ models of the location service daemon, the TLC runs that check them on small
instances, and TLAPS proofs for every instance. Every definition is translated from
the source; `PROJECT.json` maps definitions to lines. Paths below are relative to
`src/src/location_service/com/lomiri/location/` unless they say otherwise.

## 1. The system

A daemon offers positions, headings and velocities on the D-Bus. Clients open a
*session* and start or stop the three kinds of updates; an *engine* owns *providers*
(GPS, remote processes, dummies) and starts and stops them on behalf of all sessions;
settings and properties of the service switch everything, or satellite positioning,
on and off.

| Component | State | Operations | Talks to |
|---|---|---|---|
| GPS HAL `providers/gps/android_hardware_abstraction_layer` | driver handle, `callback_mutex`, `emit_mutex`, `positioning_active`, `last_gps_ms` | start, stop, register_callbacks, recovery thread, watchdog thread, driver callbacks, injections | vendor driver (external), GPS provider by signals |
| Controller `provider.cpp`, `state_tracking_provider.h` | a count per kind, a state property | start, stop, enable, disable | wrapped provider by calls, engine by property |
| Engine `engine.cpp` | providers, engine state, satellite state, reporting state, reference updates | add_provider, observers of its own configuration, constructor, destructor | providers by calls; settings, service by properties |
| Service `service/implementation.cpp`, `service/skeleton.cpp` | bus properties, session store, client applications | create session, owner lost, property writes | engine by properties, sessions, bus |
| Session `service/session/*` | three status properties, last updates | start, stop, destroy, deliver | proxy and fusion provider by calls, client by the bus |
| Proxy, fusion provider | last position and its source | fan-out of start and stop, choice between positions | providers |
| Update policy, selectors | last accepted update | verify_update, select | - |
| Connectivity manager `connectivity/` | caches of modems, cells, devices, networks | bus signals, work posted to a dispatcher | oFono, NetworkManager (external) |
| Harvester, reporters `service/harvester.cpp`, `service/ichnaea_reporter.cpp` | running flag, submit queue | start, stop, report | connectivity manager, HTTP (external) |
| Remote provider `providers/remote` | proxy of a provider in another process | start, stop, updates over the bus | bus |
| Runtime, daemon `service/runtime.cpp`, `service/daemon.cpp` | four workers, one strand | start, stop, dispatch | everything |
| Qt plugin `qt/position` | session, timer, suspended or running | requests, time-outs, suspension | session stub |

What is hard here:

* **GPS HAL.** Callers, the driver's threads, detached recovery threads and a detached
  watchdog share one handle that is deleted and recreated whenever another client of
  the driver (Waydroid) takes the callbacks away. The driver calls back synchronously
  from inside its own functions, so a lock held in the wrong place blocks its owner.
* **Engine.** Everything happens by synchronous notification: a property calls its
  observers, these change further properties, whose observers change the first one
  again. A notification that is under way continues with a value that is no longer
  current.
* **Sessions.** Clients come and go, give calls up that are executed later, and leave
  while their session is being created; the store, the watcher of the client's name, the
  list of applications and the client's own view must agree.
* **Updates.** Providers emit on threads of their own. The policy decides under a mutex,
  but returns a reference that is read afterwards; the fusion provider has no mutex at
  all; copies of the space vehicles travel through a strand.
* **Remote providers.** Two processes that are restarted independently, calls that time
  out and are executed all the same, counters on the other side that nobody resets.
* **Connectivity, harvester.** State is looked at on the bus thread and acted upon by
  work posted to another thread; requests are made with the lock held that the handler
  before their answer is waiting for.
* **Qt plugin.** Updates are handled on the bus thread, requests, time-outs and the
  application's state on the main thread.

Correctness, per component: reclaims exclude each other, leak no handle and never free
one that is in use, and silence is answered (GPS HAL); a provider runs exactly while
somebody wants it (controller, remote provider); off means off, and what the bus and the
settings show is the engine's state (engine, service); a session is opened once per
permission and ends with its client, and both ends agree on its status (sessions); what
is published is recent, was measured, and arrives (updates); what is decoded is what was
encoded (codecs); caches agree with what oFono and NetworkManager announced, and nobody
waits for ever (connectivity); what asked not to be mapped is not reported (harvester);
updates survive the background and requests are answered (Qt plugin).

## 2. Modules

### GpsHal, MCGpsHal, GpsHalProofs

One process per thread, `pc` its place. A step is one lock acquisition, one access to an
atomic or one driver call outside a lock. `register_callbacks` is `Phase1Lock` to
`Phase4Dispatch`; `SyncCallback` is a callback the driver runs on the caller's own
thread; recovery thread and watchdog go on with `ReadBack`, `Arm`, `Go`, `Release`. The
watchdog's loop is `Tick`, `WatchdogCheck`, `WatchdogCas`; a tick that finds nothing to
do is left out. `start_positioning` is `StartTry`, then `StartFast`/`StartArm`/`StartGo`
or `StartSlow`/`StartCas`; `stop_positioning` is `StopDisarm`, `StopTry`, `StopHal`.
Callbacks that report (`Report*`) and the others (`Other*`) take the shared lock;
`UnlockedRead`/`UnlockedCall` stand for the functions that use the handle without one.
External: `HalStart`, `Fire`, `Steal`, `Silence`. `last_gps_ms` is `zero`, `fresh` or
`stale`; handles are addresses and may be reused. `wanted` is a history variable: which of
start and stop was called last. `Refused` is the state in which the driver has given no
handle and no reclaim is under way that would ask for one.

### Engine, MCEngine, EngineProofs

`calls` is the stack of calls and notifications that are still to be executed; a step
executes its head and pushes what it calls. `counter` and `implCounter` are the controllers of the
engine's `StateTrackingProvider` and of the provider it wraps; `running` is what the
provider itself has been told. A session's own proxy and fusion provider count only that session, so
`status` stands for them. `SetEngineState` notifies, in the order of connection, the
engine (`EngineOn`, `EngineOff`, `EngineActive` per provider), the settings (`Persist`) and the
service (`Serve`, `SetState`); `Recompute` is the observer of a provider's state,
`OnlineChanged` that of IsOnline. `StartTarget` is what `on_start_heading_updates` does:
it sets the position status. `Shutdown`, `Halt`, `Exit` are the destructor of the engine, which
runs only if no session is left (a session's watcher holds the service); otherwise, as
in `Crash`, the process just ends. `used` and `switched` are history variables.

External assumptions: `core::Property` compares before it notifies and may be set from its own
observers; libdbus dispatches one message of a connection at a time, and requests,
property writes and owner changes all arrive on the incoming connection, so that a
request starts when the one before is done.

### RadioStack, MCRadioStack, RadioStackProofs

The caches of modems and cells of the connectivity manager. Three threads: `main`
constructs the manager, `bus` runs the handlers of signals, `disp` is the dispatcher's
worker. `net` holds the signals on their way, `jobs` what is posted, both in order.
`setup_radio_stack_access` is `SetupGetModems`, `EachModem`, `ConnectAdded`,
`ConnectRemoved`, run by the constructor or, after a failure (`Watch`) and oFono's start
(`RegisteredSignal`), by a job. `on_modem_added` is `AddModem`, which takes `cached.guard`,
`AddCell`, which releases it, and `AnnounceAdded`; `on_modem_removed` is `RemoveModem` and
`AnnounceRemoved`; `on_modem_interfaces_changed` is `InterfacesJob`, and the creation it posts
`CreateJob`. A signal for which no handler is connected yet is lost (`Receive`).
Enumerating the cells takes the lock, which is why an announcement waits for it. Cells are
numbered by creation; `announced` is what a consumer of the two signals takes to be
connected. When a cell becomes invalid is left open here (`Validity`) and modelled in
CachedRadioCell.

External: oFono and the routing of its signals. Two assumptions: a modem in `netreg` has
values that fit their types, otherwise the constructor of its cell throws each time; and
the iterator that `on_modem_added` uses after the release of the lock still yields the cell
if the element has been erased. The queries about a modem that is not registered, or
that is in `slow` and about which oFono may not answer in time, may yield defaults that the
constructor of its cell rejects (`QueryFails`); which modems are slow is chosen at the
beginning.

### CachedRadioCell, MCCachedRadioCell

One cell: its type, the slots of the union (the three structs share the first four
integers; the fifth is the strength of a gsm or umts cell and the physical id of an lte
cell), each in range, reset or neither, and the timer of the heuristics. A change of the
network registration is up to three steps of the bus thread: update, `Tell`,
`Heuristics`. `Expire` queues the timer's handler and `Invalidate` runs it, so that a
handler that is queued already survives a re-arming. `Init` is the constructor: when it
returns early, the union is uninitialised and may hold anything. Changes that arrive
during the constructor are left out. `untouched` is a history variable: the constructor
returned early, and no change of the cell's identity has been reported since. Such a cell
is valid with whatever the union holds (section 4), and the property says so. Its theorem
is at the end of RadioStackProofs, which is why its specification is called `CellSpec`.

### NetworkStack, MCNetworkStack, NetworkStackProofs

The other half of the connectivity manager, on the same threads `main`, `bus` and `disp`:
devices, access points, the active connection. `setup_network_stack_access` is
`SetupGetDevices`, `EachDevice`, `ReadInitial`, `Connect`; a device is added by `AddDevice`,
`ListAccessPoints`, `EachAccessPoint`, `Listen`; an access point by `ReadAccessPoint`,
`StoreAccessPoint`, `Announce`, which construct a CachedWirelessNetwork. `net` holds what
NetworkManager sent, in order: signals, and the replies to requests. A requester waits with
`cached.guard` held (`Request`) and its reply is handed over by the bus thread
(`ReceiveReply`), which may itself be waiting for the guard (`LockForAccessPoint`); only
`RequestTimesOut` resolves that. Device and connection signals are handled by jobs. One
property, the signal strength, stands for all properties of an access point. At the
beginning NetworkManager may have any devices. `missed` is a history variable: devices,
access points and "primary", while their last change was signalled to nobody (section 4).
What is enumerated, read or signalled again afterwards is not missed any more.

### SessionLeases, SessionStore, MCSessionStore, SessionStoreProofs

SessionLeases is the abstract specification: permissions, sessions, clients that leave, a
service that goes down; nothing of messages. SessionStore is the code.
`handle_create_session_for_criteria` is `ReceiveCreate`, `Resolve` (credentials),
`CheckPermission`, `MakeSession` (path, session and watcher) and `StoreSession`, with
`Refuse` for the exceptions before a path is given and `MakeFails` for those after it (the
session's providers, its skeleton, the watcher's installation). In between, clients leave
(`Exit`), give up (`TimeOut`), forget their stub (`DropStub`). `OwnerChanged` is the
watchers' handler, all watchers of a name in one step, since the connection dispatches them
from one message. `ReceiveStart` and `ReceiveStop` are the handlers of session::Skeleton.
The client is `CreateSession`, `Created`, `SetStatus`, `StatusSet`: a call has a serial, and
an answer reaches a client only while it waits for that serial (`Reply`). `apps` is a bag:
how often each application is listed. `OwnStatus` are the kinds whose status is set by
requests for them only; the headings' is not, since starting headings starts positions.
`permitted` is a history variable: it ties SessionStore to SessionLeases.

### Codec

`codec.h` and `service/state.cpp` as pure functions. A message is a chain of arguments;
encoders put arguments in front of a message, decoders yield a value and the rest, so
that a decoder that reads too much or too little spoils what follows. Positions,
updates, criteria, space vehicles and their maps, flags, states. UpdateFlow sends its
messages through it, and UpdateFlowProofs holds its theorems, which are the reason for its
detail: they say that every optional field is read back and that nothing is read too far,
which a position as a model value could not get wrong.

### UpdateFlow, MCUpdateFlow, UpdateFlowProofs

The way of a measurement: `ReportPosition` is the provider's emission with the engine's
slot up to `verify_update` (under the policy's mutex), `Publish` the assignment of what
it returned; `Fuse`, `Assign`, `Emit` are the slot of each session's fusion provider,
which reads, writes and emits `last_position` without a lock; `Emit` goes on to the
session's property and the message to the client; `ReceiveUpdate` is the client's stub.
`ReportSatellites`, `PostSatellites`, `RunStrand` are the space vehicles' way to the
service's property. `UsesNewUpdate` and `Select` are the policy and the selector. The
clock ticks between handlers only: they take no time on the scale of 11 s and 2 min.
A position is represented by the provider that measured it; headings and velocities
take the same way without a selector and are left out.

### RemoteProvider, MCRemoteProvider, RemoteProviderProofs

A provider in a process of its own. `CheckOwner`, `InstallWatcher`, `WaitOver`,
`SendPing`, `PingTimeOut` create the stub; `StartUpdates`, `StopUpdates`,
`OnReferenceUpdated` post tasks, which one worker performs (`Transact`, `CallTimeOut`,
`Deliver`); another takes signals (`ReceiveSignal`). The daemon claims its name before
it can serve (`ClaimName`, `Serve`), counts in its controller (`HandleStart`,
`HandleStop`) and emits. `ProviderDown` and `ServiceDown` end either process at any
time.

### Harvest, MCHarvest, HarvestProofs

The harvester and the ichnaea reporter: `SetReporting`, `ReporterStart`, `ReporterStop`,
`ReporterJoin` on the bus thread; `ReportPosition`, `ReadName`, `ConvertWifi`, `ReadType`,
`OpenDetails`, `ReadField`, `CellDone`, `Post` on the providers' threads; `Submit` is the
worker. `gsm()`, `umts()` and `lte()` test the type and return a reference into the cell's
union, through which the details are then read one by one; meanwhile the bus thread rewrites
them (`RewriteDetails`) and assigns the type (`ChangeType`), or assigns the name that is
being searched (`Rename`), all without a lock. A submission records under which type each
detail was read (`under`), and in two history sets the wifis marked and the cells unchanged
since the position became known (`unwanted`, `steady`). If the type has changed between the
switch and the access, the access throws: nothing between it and a callback of the GPS
driver catches that, and the daemon ends; the worker of a remote provider does
(`providers/remote/provider.cpp:69`), and the report is lost. The http client is external;
that its `run()` works again after `stop()` is assumed, and `WorkerFollowsSetting` and
`PostedIsSubmitted` depend on it. The daemon as built uses a null reporter and a dummy
connectivity manager (`service/daemon.cpp:248`): the module is about the configuration the
repository's classes and tests provide for.

### QtSource, MCQtSource

`core::GeoPositionInfoSource`: the application's calls and the changes of its state,
the timer of single requests, and updates, which the bus thread handles in two steps
(`HandleUpdate`, `StopTimer`) around which the main thread runs. `NoSession` is a
session that cannot be created, and `StartThrows` are the exceptions nobody catches: of a
status that is set, and of `Instance()`, which changes nothing. Its theorem is at the end
of UpdateFlowProofs.

Definitions commented as faulty variants or mutants are not part of any specification:
they are the bugs the properties are tested against.

## 3. Runs

| Run | Instance | Shows |
|---|---|---|
| `gps_hal` | 1 caller, 1 recovery thread, 1 driver thread, the watchdog, 2 handle values, the driver may refuse a handle, fair | `OneRegistrar`, `NoOrphanHandle`, `HandleNeverDangles`, `SharedSectionIsStable`, `RegistrationEnds`, `SilenceReclaimed`, `StartHonoured` hold |
| `engine` | 2 sessions, 2 providers (one requires satellites), 2 kinds, restarts, fair | `ServiceMirrorsEngine`, `OffDisablesProviders`, `SatellitesOffDisablesProviders`, `ImplCountsRight`, `RunsIffRequested`, `RequestsEnd` hold |
| `engine_leak` | 1 session, 1 provider, 2 kinds | `StoppedWithLastObserver` fails: stopping one kind makes the engine forget the observers of another, whose updates never stop |
| `radio` | 1 modem, 4 events, 2 starts of oFono, fair | `TypeOK`, `CellsHaveModems`, `Settles`, `KnownModemGetsCell` hold |
| `cell` | heuristics needed, 3G only, 6 changes, fair | `CompleteOnceTouched`, `SilentCellExpires` hold |
| `network` | 1 wifi device, 1 modem device, 1 access point, 4 events, fair | `VisibleNetworksAreCached`, `CharacteristicsAreRight`, `ComesToRest` hold |
| `sessions` | 2 clients of one application, 1 kind, 4 calls, 1 restart, fair | `ImplementsLeases` (refinement), `StatusAgrees`, `ListedAppsHaveSessions`, `SessionsEnd` hold |
| `updates` | 2 providers, 1 session, 2 accuracies and none, cutoff 1, limit 2, lag 1, 1 vehicle with 3 readings, clock to 4, 3 reports | `ReferenceIsRecent`, `NeverPublishesDefault`, `SelectionIsRecent`, `ClientConverges`, `SatellitesConverge` hold |
| `updates_disabled` | 1 provider, 2 sessions, 1 report | `DisabledGetsNothing` fails: a session whose updates were never enabled is sent the positions another session makes the provider deliver |
| `remote` | 2 kinds, 4 calls, 1 update, 2 restarts of the service, 1 of the provider, fair | `DeliversWhatIsWanted`, `RequestsLeftBehind`, `WantedIsDelivered` hold |
| `harvest` | 2 providers' threads, 1 wifi, 1 cell with 2 details, 2 technologies, 2 reports, 3 changes, fair | `RequestsAreClean`, `WorkerFollowsSetting`, `PostedIsSubmitted` hold |
| `qt` | 8 calls, 4 updates, fair | `WantedUpdatesRun`, `RequestIsAnswered` hold |

Bounds. One caller is enough for GpsHal because requests are serialised by the bus; the
caller, the recovery thread and the watchdog are three registrars that compete for a
reclaim, and with one driver thread a callback meets each of their steps; two handle values
let an address be reused. Two concurrent reports need a second driver thread, and a recovery
thread that is spawned while another ends a second one of these: for any number of them the
safety properties are proved, and with them that reports do not overlap
(`EmissionsAreSerial`). In Engine `MaxStarts` bounds the wrapped provider's count, which a
leak makes grow; two providers and two kinds are the smallest instance in which the
notifications of one undo what was done for the other. The run `engine` leaves the heading
out: no request reaches its counters but `disable` and `enable`, which treat all kinds
alike. RadioStack has one modem because the handlers of different modems share nothing but
the lock and the queues (the proofs are for any set); four events suffice for a modem to
register, lose its registration, go and come back, and two starts for a set-up that meets
what an earlier one has cached; NetworkStack likewise, where four events let a device come,
its access point appear and go, and the connection change. Six changes let a cell take every
type twice. Four calls of two clients of one application let both open a session, one of
them leave, and its successor's requests meet the notice of its departure. Two providers
make two threads race in every window of UpdateFlow; a third report lets the loser be
followed by another; with cutoff 1 and limit 2 both sides of both limits are reached in four
ticks. In Harvest two details are enough for the first to be read before a rewriting and the
second after it; two threads convert at once, and three changes let harvesting be switched
on, a cell rewritten and harvesting switched off under a report. Two restarts of the service
leave requests of two predecessors behind. The proofs lift the bounds of `gps_hal`,
`engine`, `radio`, `network`, `cell`, `sessions`, `updates`, `remote`, `harvest` and `qt`,
for all their safety properties.

Fairness. Every thread that can run does. In GpsHal that is `WF` of the steps of registrars,
watchdog, callers and callbacks. `std::shared_mutex` lets readers overtake a writer, so the
writer is promised the lock (`SF` of `RegisterLock`) only under `ReadersDrain`: readers
hold it for less time than passes between two of them. That is an assumption about
the rate of callbacks, not something the code enforces; an Xtra download under the
shared lock stretches it. In Engine one `WF` says that the thread that executes a
request goes on; in SessionStore, the thread that serves the incoming connection. In
RadioStack and NetworkStack each of the three threads goes on if it can, and a request
that is not answered times out, as core::dbus does. In CachedRadioCell the bus thread
finishes a handler, a timer that is waited for expires, and the dispatcher runs its
handler. In RemoteProvider the workers go on, which their loops around io_service::run
guarantee, and a daemon that has claimed its name comes to serve. In Harvest the bus
thread, the providers' threads and the http client's worker go on. In QtSource timers
expire and the event loop delivers. Clients, applications, driver, Waydroid, oFono,
NetworkManager and the user are promised nothing. Runs whose system waits for the next
signal or request when its bounds are used up switch the check for deadlock off; that
nobody waits for ever is what `Settles`, `ComesToRest`, `SessionsEnd`,
`WantedIsDelivered`, `PostedIsSubmitted` and `RequestIsAnswered` say.

## 4. Behaviour worth knowing

What the models contain and no property of a passing run excludes, because the code does
it and the repository promises nothing else, or because the property states the exception.
Where a line of the repository says otherwise, it is quoted.

* **Silence after a refused handle.** Once `u_hardware_gps_new` has returned null in the
  middle of a reclaim (HAL, phase 2), the watchdog skips the null handle for ever;
  only the next start asks again. `src/doc/navius-patches.md:557` ("Ten seconds of silence
  now always trigger a reclaim") does not hold then; `SilenceReclaimed` says that silence
  with a handle leads to a reclaim that is carried through, up to the restarted receiver,
  unless the driver refuses.
* **A stopped GPS runs again.** A report in flight at the stop arms the watchdog, which
  restarts the receiver after the next silence; a stop that meets a reclaim is given up,
  and the reclaim then starts the receiver.
* **Off leaves a provider running.** Switching the engine off while two providers are
  active: the first one's change of state sets the engine on again, which forgets the
  observers of the second, so that `disable` does not stop it (`engine.cpp:218`).
  `OffDisablesProviders` holds all the same: its counters say disabled.
* **State enabled while positions are delivered.** `StateTrackingProvider` sets its state to
  enabled when *any* kind is stopped. Start position, start velocity, stop velocity is
  enough, and IsOnline changes nowhere. This answers the open issue at the end of
  `src/doc/navius-patches.md`; the patch proposed there does not remove it.
* **Headings.** StartHeadingUpdates sets the position status (`session/skeleton.cpp:174`):
  headings never start, and StopHeadingUpdates stops nothing.
* **Sessions nobody ends.** A client that leaves before its watcher is installed
  (`service/skeleton.cpp:249`) is never reported: its session stays until the service
  goes down. `SessionsEnd` starts from a departure the service hears of.
* **Disabled sessions get updates.** A session whose status is disabled is sent positions as
  long as any other session makes providers deliver: the status gates the providers, not
  the delivery, although `session/interface.h:74` says "not delivered to this session". The
  run `updates_disabled` shows it; `ClientConverges` is about sessions that are enabled.
* **Applications.** A client that leaves takes all entries of its application off the list,
  those of other clients of the same application too; `ListedAppsHaveSessions` is the
  direction that holds.
* **Signal strengths.** Space vehicles that differ in their signal strength only count as
  equal, and a change of it alone does not reach the service's property.
* **A provider daemon restarted under a stub.** Nobody asks it again for what was started
  before, and the next stop takes its counter to -1, which means disabled, for every later
  service too.
* **Late announcements.** A cell is announced after the lock is released, so that the
  announcement of its removal can come first; a notification about a modem's earlier
  life may erase the cell of its next one. `KnownModemGetsCell` is about modems that do
  not go away.
* **A modem that does not answer in time** has no cell until it announces its interfaces again
  (`QueryFails`, with `slow`); `KnownModemGetsCell` is about modems that answer.
* **Cells that are valid without details.** A cell constructed without a registration or a
  known technology (`connectivity/cached_radio_cell.cpp:107-111`) is valid with an
  uninitialised union; it is enumerated and harvested, and no timer invalidates it before a
  change of its identity is first reported. `connectivity/cached_radio_cell.h:49` says
  "Returns true iff the instance represents a valid cell". `CompleteOnceTouched` is about
  all other cells, and says which those are. A change from gsm or umts to lte leaves the
  signal strength in the slot that is then the physical id, and the strength 99 of a reset
  is a valid physical id.
* **The timer of a 3G cell** invalidates the cell it has become since, for good if it is no
  3G cell any more.
* **Missed changes of access points.** What changes between the enumeration and the
  connection of the handlers, or between the reading of a value and its storing
  (`cached_wireless_network.cpp:135`), is noticed by nobody. A request under the lock
  meets a handler that waits for it: both wait until the request times out.
* **Reports of a changing cell.** A cell that changes its technology while it is reported is
  submitted with details of both, or ends the daemon, or loses the report (Harvest in
  section 2). `RequestsAreClean` is about wifis and cells that stay as they are meanwhile,
  whatever changes next to them.
* **Reports after harvesting was switched off.** A report under way then is posted all the same
  and submitted when harvesting is switched on again.
* **Single requests.** No statement enters the one-shot state of the Qt plugin: the time-out
  of a single request stops continuous updates as well, and a request made while the bus
  thread handles an update can lose its time-out to that update's `timer.stop()`.

## 5. Proofs

TLAPS checks eight modules, for every value of the constants that satisfies the named
assumptions of the modules they extend.

### GpsHalProofs

For any sets of callers, recovery threads, driver threads and handles that satisfy
`ThreadsAssumption` (the kinds of threads are disjoint) and `HandlesAssumption` (null is
not a handle), TLAPS checks `TypeCorrect`, `ReclaimsExclude`, `HandlesDoNotLeak`,
`HandlesDoNotDangle` and `SharedSectionsAreStable`, every safety property of the run
`gps_hal`, and `EmissionsAreSerial`, which a run with one driver thread cannot break.

None of them is inductive alone. The invariant is `IInv`, the conjunction of the types,
`LockInv` (the holder of `callback_mutex` is where the code takes it, and a writer excludes
readers), `TurnInv` (until the constructor is done nobody else moves; afterwards
`positioning_active` is set from the winning compare-exchange to the reset, and one
thread at most is in between), `HandleInv` (between deletion and installation only the
new handle is live, otherwise only the installed one) and `EmitInv` (the holder of
`emit_mutex` is emitting). `TurnInv` is what makes `HandleInv` inductive: a second
registrar would delete or install under the first. Each part has a lemma with one case per
group of actions. `SharedSectionsAreStable` follows from `LockInv`: who changes the
handle is the writer, and a writer excludes readers.

### EngineProofs

All five invariants of the run `engine`, for any providers, kinds and sessions that satisfy
`EngineAssumption` (providers and kinds are visited in an order without repetition, the
sessions are a finite set). A property between two requests says nothing about the calls
in the middle of one, and these nest to a depth that depends on the number of providers.

* `TypeCorrect`: with the types, `Stack`. Every call has a `Rank`, who notifies whom, and
  a call is above another only if its rank is smaller, or equal where the code makes
  several calls of a rank, in most ranks then with different arguments (`Before`). So
  no call waits for one that waits for it. Everything else rests on it.
* `MirrorsAlways`, `OffAlways`, from `ServiceInv`: wherever the settings, IsOnline or the
  bus property differ from the engine's state, or an off engine has an enabled provider,
  the call that will repair it is on the stack (`SettingsFollow`, `OnlineFollows`,
  `StateFollows`, `OffFollows`); a call with a value other than off has the present one
  (`Fresh`), unless switching off overtakes it; observers of IsOnline run at once
  (`OnlineNow`), which is why the two of them do not call each other for ever.
* `SatellitesAlways`, from `SatelliteInv`: the same for providers that require satellites.
* `ImplAlways`, from `ImplInv`: a stop on its way to a wrapped provider finds it started,
  and a provider that the engine's counter counts on has been started or is about to be.
* `RunsAlways`, from `RunInv`: while one kind of updates is used and nothing is switched
  off, the engine's counter is the number of sessions that want the kind, up to the
  calls on the stack (`CountsSessions`), the wrapped one is 0 or 1 (`CountsOne`), and an
  active provider counts (`ActiveCounts`), so that no recomputed state is *on* while
  somebody wants updates.

### RadioStackProofs

For any set of modems and any bounds (`RadioAssumption`) TLAPS checks `RadioTypeCorrect`,
`CellsGoWithTheirModem` and `LockIsNotLeaked`. The invariant `IInv` is the conjunction of
`TypeOK`, `CellAtHand` (a thread that announces has a cell, without which `announced`
would not keep its type), `GuardHeldForConstruction` (who holds the lock is constructing
a cell), `ModemKept` (the modem of that cell is still cached) and `CellsHaveModems`.
`AddCell` inserts without a look at the modems, so `CellsHaveModems` needs `ModemKept`; and
`ModemKept` holds because `RemoveModem` needs the lock, which is what
`GuardHeldForConstruction` says the constructing thread has.

Of CachedRadioCell, `TouchedCellsAreComplete`: a valid cell the heuristics concern has all its
details and an invalidation pending, or it was constructed early and its identity has not
been reported since. A technology change makes a valid cell incomplete until the handler's
last step, so the property holds between signals only; the invariant covers the one
intermediate state from which the handler ends without the heuristics (a new strength),
and that a slot set to a value of its range spoils no cell is a lemma.

### UpdateFlowProofs

Of Codec, `UpdateReadsBack`, `CriteriaReadsBack`, `VehiclesReadBack`, `EnumerationsReadBack`:
decoding what was encoded in front of any rest yields the value and that rest. Maps of
space vehicles travel without keys, so their theorem needs every entry to stand under its
own key, which is what the engine's merge produces.

Of UpdateFlow, all five properties of the run `updates`. `Fresh` (what a busy thread carries
is as recent as what is delivered now) makes `PolicyRecent` inductive, and with it
`ReferencesAreRecent`: whatever the policy's member is when the reference is read, it is
recent. `SelectionsAreRecent` needs to know which threads still owe a session a selection
(`Owes`): a thread that overwrites `last_position` with an older selection also owes nothing
newer. `PolicyMeasured` gives `DefaultsAreNotPublished`: a measurement is refused only in
favour of one that was measured. `ClientsConverge`, of sessions that are enabled, rests on
`LinkEnds` (the last message on the way, or what the client has, is the session's position)
and `Emitted`; `VehiclesConverge` on `Posted` (the last copy in the strand is the engine's
map up to signal strengths) and on `VehiclesReadBack`.

Of QtSource, `WantedUpdatesAlwaysRun`: as long as no request was made and no call failed
there is neither a timer nor an error, and updates that are wanted have a session
(`Undisturbed`); otherwise the time-out would end them, and the way to the background
would forget them.

### SessionStoreProofs

`StoreImplementsLeases`: SessionStore implements SessionLeases, with the sessions of the
store as the abstract sessions. The invariant: `Numbered` (calls in the inbox are
numbered upwards and later than every path given so far, so there is a path for every
call), `Departed` (who is reported to have left has left, which is why `OwnerChanged` is
an abstract `Close`), `Watched` (a session in the store has a watcher of its own client, and
the path given last has no session yet, which is why `StoreSession` opens and never
fails).

`StatusAgreesAlways`, until the service is restarted, from `Agreed`: the last message about
a status that is on its way says what the client has set, and if there is none, the
service has it (`Agrees`); a stub's path has a session of its client (`Holds`), and a
path that is still to be handed out has not been touched, since an answer to a creation
is never taken for one to an earlier start or stop (`Promised`).

`ListedAlways`: `ListedAppsHaveSessions` is inductive once `apps` is known to be a bag
(`Listed`), because the session is stored in the step that lists its application, and an
application loses all its entries with the sessions of any of its processes.

### RemoteProviderProofs

`DeliversAlways`, `LeftBehindAlways`. What the counter of a kind will be depends on all
requests under way, in the worker's queue and in the daemon's inbox, and a sum over
sequences is out of the prover's reach. The invariant says instead that there is a
function *f* that foresees it (`Plan`): *f[x]* is what the counter will be when the
requests numbered below *x* have been performed. It starts at the counter, changes by 1
at each request under way and nowhere else, never leaves 0 .. restarts + 1, and from the
first request of the present service on it is *b* or *b* + 1, *b* being what its
predecessors have left; in the end it is *b*, plus 1 if the kind is wanted. Each action
comes with a lemma that gives the next state's *f*: `PlanPerform`, `PlanSend`, `PlanAsk`,
`PlanPass`, `PlanForget` (a service goes down with the requests it has not sent: *f* stops
changing there, and its value is the new *b*). `Numbered` says that requests are
performed in the order in which they were made, and `Working` that a stub that has not
lost its provider has one that serves, so that no call is dropped.

### HarvestProofs

`WorkersFollowSetting`: where the bus thread is in starting or stopping determines the
worker (`Controlled`). `RequestsAreAlwaysClean`, for any number of details and technologies:
what is under way is clean, and a wifi it must not contain is still marked, so that a
search that was not torn finds the mark; a cell that is still steady is not being
rewritten and has the type the thread has read, so that whatever detail is read next
belongs to it (`CleanInv`).

### NetworkStackProofs

`NetworksAlwaysCached`, `CharacteristicsAlwaysRight`, for any devices, access points and
number of events. Both say that the process agrees with NetworkManager when nothing is
under way, so the invariant `NetInv` says what is under way when they do not agree:

* `Ordered`: a reply or signal that is out of date has the correction behind it on the
  queue. A reply without an access point that is there now is followed by its
  `AccessPointAdded`, an old strength by another strength, the strength of one that has
  gone by its removal, and a primary connection that is not the present one by another;
  `JobsOrdered` says the same of the dispatcher's jobs. This is the order in which the
  bus delivers, stated as `After` and kept by the lemmas `Send` and `Take`.
* `Visible`: an access point of a cached device is in the cache, in a signal, or with a
  thread that will read it; one that has gone is in no cache, or its removal is in a
  signal; a value that is cached or about to be stored is the present one, or another
  is in a signal. `DevicesKnown` and `ActiveKnown` are its counterparts for devices and
  for the characteristics.
* What makes these inductive: `Once` (the stack is set up by the constructor or by one job
  of the watcher, never by both, and jobs come only after that), `Listed` and
  `KnownOnlyIfReached` (a device is enumerated once, by one thread, and nothing of it is
  cached before, so that the reply starts from nothing), `Locked` (nobody is between
  reading and storing while a network is removed) and `NoReturn` (what was announced as
  removed does not come back: NetworkManager does not reuse paths).

### Model-checked only

Liveness, which depends on fairness. Every invariant and every action property of the runs
that pass is stated by a theorem.

## 6. Not modelled

Contents of reports (coordinates, satellites' angles), capabilities and modes of the
chipset, wording of errors and logs, the file format of settings, option parsing, SNTP
packets and the Xtra download but for the lock they run under. The adapters of geoclue,
gpsd and skyhook and the dummy provider pass calls on to libraries, or simulate. The two
selection policies the daemon does not use are a filter and the identity. Units and
coordinates are arithmetic on doubles. Headings and velocities of the update policy: its
decision reads an uninitialised variable (`time_based_update_policy.cpp:76`) and reaches
only the references given to providers. Vendored code (`src/3rd-party`), tests, examples
and command line tools are no part of the system.

## 7. Plan

The modules above are complete along the plan they were written to. What would come
next: the order of announcements of cells and networks to consumers (section 4, late
announcements), which needs a consumer in the model; the modes and capabilities of the
chipset, with the injection of time and position; headings and velocities, once the
decision about them is defined.
