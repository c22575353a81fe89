# Signal Bridge Plugin: TLA+ models

The plugin runs SignalRGB JavaScript device scripts inside OpenRGB: it scans a
directory of scripts, matches them to HID and serial devices, gives OpenRGB one
controller per match and lets the script draw the frames. This directory holds
TLA+ models of the plugin, the TLC configurations that check them and TLAPS
proofs of the properties that matter most. Paths below are those of the
repository.

## 1. The system

| Component | State | Operations | Talks to |
|---|---|---|---|
| Plugin core, `SignalBridgePlugin.cpp` | seven atomics (host, unloading, scan running, pending discovery, cancel, discovery running, generation), `discovery_thread_` | Load, Unload, rescan, the host's detection callbacks, posted events | the host, the registry, the worker thread, the widget |
| Discovery service, `discovery/DiscoveryService.cpp` | locals of one discovery (open groups, open ports, records) | Discover | scanner, HID and serial backends, registry |
| Controller registry, `discovery/ControllerRegistry.cpp` | `controllers_` under a mutex | Register, Abandon, UnregisterAndDelete, ApplyConfiguration | host, controllers |
| Controller, `openrgb/SignalBridgeController.cpp` | configuration, pending changes, setup, published LED count, the worker's flags, all under `mutex_`; the runtime | attach, detach, frames, configuration changes, topology updates, API 4 zone edits | host, runtime, endpoint session |
| Topology and frames, `openrgb/TopologyMapper.cpp`, `FrameBuilder.cpp` | none | device topology to OpenRGB zones and LEDs, colours to frames | controller |
| Endpoint session and HID backend, `openrgb/EndpointSession.cpp`, `hid/` | table of open devices, one mutex each; the session's handles | enumerate, open, close, read, write, feature reports | hidapi |
| Serial, `serial/`, `runtime/signalrgb/SerialModule.cpp` | the open port of a script | connect, disconnect, read, write | CSerialPort |
| Runtime bindings, `runtime/RuntimeBindings.cpp` | the device a script describes: channels, subdevices, colours, properties, dirty flag | about sixty functions scripts call | controller, HID, serial |
| QuickJS runtime and modules, `runtime/QuickJsRuntime.cpp`, `ModuleLoader.cpp` | the engine, the module catalogue, the exports | load, call export, configuration change, reset | bindings |
| Configuration, `config/`, `domain/ControlParameters.cpp` | the store's JSON document and its file | load, get, set, save; normalise values | core, widget |
| Scanning, `scanning/` | none | find scripts, extract metadata | discovery |
| Widget and log, `ui/` | shown status, device pages, log lines | apply status, append, rebuild pages | core |
| Paths and records, `domain/PathUtils.cpp`, `DeviceRecords.cpp` | none | keys, normal forms | all |

What is hard:

* **Four kinds of threads.** The application thread, the host's detection
  thread, the discovery worker, and per controller the host's device thread and
  the topology worker. The core has no mutex, only atomics read and written one
  at a time.
* **Nested event delivery.** With an API 5 host the application thread delivers
  posted events while it joins the worker, waits for a scan or unregisters:
  handlers run in the middle of handlers.
* **Superseded work.** A discovery that a scan or a rescan replaced goes on to
  its next stale check, with statuses still queued and a controller in hand.
* **Two owners of one object.** The host's controller is used by the device
  thread, replaced by the topology worker and deleted by the registry.
* **Memory and disk.** A configuration is changed in memory, then saved.

## 2. Plan

The order is that of what a failure costs: first what may crash the host or
leave it with dangling controllers, then what may lose data or colours.

| Step | Modules | State |
|---|---|---|
| 1. Core, worker, registry | `SerialDiscovery` (abstract), `DiscoveryLifecycle`, `DiscoveryLifecycleProofs` | done, proved |
| 2. One controller, from its creation to its destructor | `ControllerUpdates`, `ControllerUpdatesProofs` | done, proved |
| 3. The device a script describes, its zones and its frames | `TopologyMapping` (operators), `DeviceTopology`, `DeviceTopologyProofs`, `DeviceLayoutProofs` | done, proved |
| 4. The settings and their file | `ConfigurationStore`, `ConfigurationStoreProofs` | done, proved |
| 5. HID devices, sessions and the backend; the discovery's loops over them | `HidEndpoints` (operators), `HidSessions`, `HidSessionsProofs` | done, proved |
| 6. Serial ports, and the discovery's loops over them | `SerialPorts`, `SerialPortsProofs` | done, proved |
| 7. A script: its files, its parameters, its page | `ScriptModules`, `ControlParameters` (operators), `ScriptRuntime`, `ScriptRuntimeProofs` | done, proved |
| 8. Composition | the removal of `ControllerUpdates` inside the `Unload` of `DiscoveryLifecycle` | open |

`DeviceTopology`, `HidSessions` and `ScriptRuntime` have modules of operators beside
them because the operators are pure and are used in several actions. No module
declares a RECURSIVE operator, so that all of them can be proved about. Every module
with state is proved about; its type invariant is a theorem and is not checked by a
run besides.

## 3. Modules

### DiscoveryLifecycle: the core, the worker and the registry

State. `core` is the seven atomics of `SignalBridgePluginCore`. `gui` is the
stack of handlers that are active on the application thread: Load, Unload, a
click, a posted event, and what is delivered inside of one of them. `thread` is
the generation whose worker `discovery_thread_` owns; `workers` are the live
workers, each with its place in `DiscoveryWorker` and `Discover`, the entries it
has taken out of the registry and the controllers it has made. `queue` holds the
events posted to the application thread (`DiscoveryStatusChanged` is a queued
connection, `SignalBridgePlugin.cpp:427-431`; the lambda of line 388), `widget`
is what the widget shows, `host` is the host's detection thread, `registry` and
`hostList` the two lists that have to agree; `orphans` are the controllers the
plugin has destroyed, after an exception, while the host goes on listing them.

Actions. One step is one access to a shared atomic or a run of accesses of which
at most one is to a variable another thread may be changing; so
`DiscoverSignalRgbDevices` is eight steps and `OnOpenRgbDetectionEnded` four. With
an API 5 host the application thread delivers posted events in three waits
(`Pumps`), and a handler delivered there runs to its end before the wait goes on.

With an API 5 host and `HostThrows`, every call of the cleanup may throw, and so may
the registration of a controller (`HostCallThrows`, `WorkerRegisterThrows`): the
cleanup ends, and the entries left are destroyed with the vector while the host
lists them. In Unload the helper thread swallows the exception and Unload goes on
(`UnloadThrows`, `ControllerRegistry.cpp:137-147`); in the worker it ends the
discovery (`WorkerUnregisterThrows`, `WorkerFails`); a registration that throws is a
failed attempt.

`SerialDiscovery` is what all this promises: discoveries run one after the other
and each replaces the controllers of the one before. `DiscoveryLifecycle` refines
it with `active <- Active, owned <- registry`.

Assumptions, where the code leaves it to the host or to Qt. An API 4 host calls
back on the application thread when its scan starts (the callback touches
`discovery_thread_` without synchronisation there), and deletes all the
controllers it lists; an API 5 host calls back on its own thread. The calls that
change an API 5 host's list come back only while the application thread delivers
events. Progress statuses are one, consecutive stale checks with nothing between
them are one, and Load is one step as far as its call of
`DiscoverSignalRgbDevices`, since no other thread of the plugin runs then. An
exception is a `std::exception` and comes from the host's calls or the scan; an
API 4 host's calls throw nothing. The destructor of an entry that an exception left
attached is taken to return; `ControllerUpdates` has what it does, and the one case
in which it does not.

| Run | Shows | Bounds, distinct states |
|---|---|---|
| `DiscoveryApi5` | `OneWorker`, `RegistryOfOneDiscovery`, `UnloadedIsClean`, `DiscoveriesAreSerial` | 2 devices, 2 scans of the host, whose calls may throw; 3 574 000 |
| `DiscoveryApi4` | `RegistryAndHostAgree`, `NoRegistrationDuringScan`, `UnloadReturns` | 2 devices, 2 scans, 1 click; 646 000 |
| `DiscoveryReload` | `ShownDevicesAreRegistered`, `UnloadReturns`, `SupersededWorkerEnds` | API 5, 1 device, 1 scan, 2 loads; 300 000 |
| `DiscoveryWaiting` (violation) | `WaitingEnds` | 1 scan, 1 click |
| `DiscoveryJoin` (violation) | `NeverTerminates` | 2 scans |

Two devices let a worker be superseded between two registrations, and let an
entry be unregistered while another is still listed. Two scans let the second
supersede a worker while the first's event joins another: the deepest nesting of
handlers the code has, a join inside a join. After an exception one entry of two is
left to its destructor, before or after the other was taken off the host's list. `DiscoveryApi5` uses the symmetry of
the devices; the runs with liveness do not.

Fairness. A handler on the application thread goes on, posted events are
delivered where they can be, the host's callback goes on and its scan ends, and
the operating system runs every worker: weak fairness of each. Nothing makes the
user or the host begin anything.

Proved for any devices, scans, clicks and loads and for both APIs
(`DiscoveryLifecycleProofs`): `TypeCorrect`, `NeverTwoWorkers` (`OneWorker`),
`RegistryNeverMixed` (`RegistryOfOneDiscovery`), `SerialRefinement`
(`DiscoveriesAreSerial`), `ListsAgree` (`RegistryAndHostAgree`), `UnloadCleans`
(`UnloadedIsClean`), `NothingRegisteredDuringScan` (`NoRegistrationDuringScan`) and
`ShownIsRegistered` (`ShownDevicesAreRegistered`). For the first four the inductive
invariant is `TypeOK` with
`StackOK(gui)`, a handler under another one is at one of the places that deliver
events, and only a caller of `StopDiscoveryThread` is inside of it; `HandlerInv`,
what each place of a handler knows of the thread; `OneWorker`; and `RegistryInv`,
the registry holds entries of one discovery, and once a worker matches devices none
but its own. `OneWorker` is not inductive without the stack: that a join has really
joined depends on what the handlers above it may have started, and it is the
stack that says a handler can be above it only while the worker still ran.

The other four need `FullInv`, layers each of which is kept by the ones before it:

* `FramesInv`: which places each kind of handler can be at, that Unload and the API 4
  callback run under no other handler, and that none is called while Unload runs.
* `StoppedInv`: past its `StopDiscoveryThread` a handler finds the thread not joinable
  and `discovery_running_` cleared, until it starts a worker itself.
* `TakenInv` and `ForgottenInv`: once a handler has taken the registry it stays empty,
    and without a host there is neither a thread object nor an entry. `UnloadedIsClean`
  follows from these with `OneWorker` and `ListsInv`: the registry is empty whatever the
  host threw, and what the host lists are the orphans, of which there are none if its
  calls do not throw.
* `ScanInv`: a host that drops its list, or scans with API 4, does so with every worker
  at its wait. `NoRegistrationDuringScan` follows.
* `GenerationInv`: nothing the host lists is of a later generation than the core's, or
  of the one a handler is about to start a worker for.
* `ListsInv`: `RegistryAndHostAgree`, with what each place of a worker says of the
  entries it has in hand, since the two lists differ between its calls; and
  `OrphansInv`, an orphan is listed by the host and neither in the registry nor in hand.
* `QueueInv` and `ShownInv`: what the widget will show once the posted statuses have
  been delivered, without those the slot drops, is empty; or it is what a worker that
  has ended left registered; or its generation was superseded, and whoever did that is
  going to show or post something else. Neither the queue nor the widget says it alone:
  a status is dropped when it is delivered, not when its generation ends.

`FullInv` was model-checked before it was proved, on four instances: API 4 with two
devices, one scan and one click (66 000 states) and with one device, two scans and two
loads (134 000), API 5 with two devices and two scans (911 000) and with one device, one
scan, one click and two loads (4 150 000). With a host that throws, API 5 with two
devices, one scan and two loads was checked besides (`UnloadedIsClean`,
`RegistryAndHostAgree`; 3 322 000).

### ControllerUpdates: one controller

State. `owner` is the place of the thread that registers the controller and of
the one that removes it; `conf`, `changes` and `ctl` are the members under
`mutex_`; `script` is the runtime's view (values, topology, `topology_dirty`);
`worker` the topology worker with its copy of the setup; `call` the device thread
in `DeviceUpdateLEDs`; `host` the host's controller, whether this host's calls
may throw, chosen at the start, and whether the application thread is there to serve
those that change its list (`served`).

Actions. `mutex_` is held across steps in one place, while `DeviceUpdateLEDs`
copies the colours and renders; every other critical section is one step, taken
while the mutex is free. The calls of the host (register, unregister, update,
delete) are steps of their own, between which the code holds no lock. A callback
or Render leaves the script with any topology; topologies are abstract, with a
number of LEDs. The host's Unregister comes back when no call of the device thread
is left (external).

Every way out of `owner` ends in the destructor, which calls
`DetachOpenRgbController` itself: for a controller that has been detached this finds
no worker (`destroy`, `lastJoin`, `shutdown`). Where a host call threw it may be the
first to do so: when the host's list cannot be asked for in Register
(`CheckThrows`), and when the exception of another entry ended the cleanup while this
one waited for its turn (`taken`, `OtherThrows`). It then finds a live worker, which
may be in the middle of an update, and a host that lists the controller. In a
discovery the discovery worker is in that destructor, and the application thread is
free. In Unload it is the application thread, after its wait at
`ControllerRegistry.cpp:149-153` is over: `served` is false from then on, and if the
topology worker is about to unregister or register the controller, whose call needs
the application thread, the join never ends (`Stuck`). `RemovalEnds` is stated up to
`Stuck`, and `RemovalStuck.cfg` shows the steps. A frame that the host draws on a
destroyed controller it was left with is a use of freed memory and has no state in
the model: `DestroyedIsUnused` claims the absence of calls for hosts that do not
throw only, the end of the worker for all.

The module is for API 5: the API 4 plugin has neither worker
nor published count, and its zone edits are in `DeviceTopology`.

Run `ControllerUpdates` (3 topologies of 1 and 2 LEDs, 2 parameters, 3 changes;
362 000 states):
`CopyStaysInBuffer`, `DestroyedIsUnused`, `NoLostUpdate`, `ChangesArePending`,
`CheckedIsListed`, and the liveness of `UpdateReachesHost` and `RemovalEnds`. Two
topologies of one size tell a lost update from a wrong count; three changes let a
topology change while its predecessor is being given to the host and again after
that.

Fairness. Strong for the owner, the remover and the worker, which wait for a mutex
or for the host to be quiet, both released again and again: the operating system
and the host let a waiting thread in at last. Weak for a call of the device thread
that has begun. No call and no change need ever begin.

Proved for any topologies, LED counts, parameters, values and number of changes
(`ControllerUpdatesProofs`): the type invariant and the five safety properties.
The inductive invariant adds `PhaseInv` (what each phase of the owner says of
worker and host), `DestructorInv` (what the destructor finds: a controller detached,
never attached, or left as it was by an exception), `CallInv` (a frame runs only while the host lists the controller,
and the worker replaces the host's controller only while it does not), `PublishInv`
(the published count is the host's except between its update and the publishing)
and `CarryInv` (a worker on its way to the host carries the setup, or is owed another
update). `CopyStaysInBuffer` needs `CallInv` and `PublishInv` together: no lock
relates the count to the buffer, only the fact that no frame runs in between.

### TopologyMapping and DeviceTopology: zones and frames

`TopologyMapping` has the pure operators: `BuildOpenRgbTopology`, the matrix maps,
the start index of a zone in the LED list and the frame of a zone.
`DeviceTopology` has the state of `RuntimeDeviceState` (`dev`: size, LEDs, channels,
subdevices, frames, `topology_dirty`), the controller's `zones` and the colours of
the last update; a colour is the number of the LED it belongs to. Its actions are
the calls a script may make in Initialize, a configuration callback or Render
(setSize, setControllableLeds, addChannel, removeChannel, setLedLimit,
createSubdevice, ...), the ends of the three, with the rebuilding of the zones after
the first two only, the building of the frames, and the API 4 user's ResizeZone. All
of it runs under the controller's mutex. A script that throws has made fewer calls;
lists of names are their length. With an API 5 host any prefix of the colours may
have been copied, as `ControllerUpdates` allows.

| Run | Shows | Bounds, distinct states |
|---|---|---|
| `Topology` | `LayoutIsCurrent`, `ChannelFramesFit`, `SubdeviceIndexFits`, `MainMatrixShowsLeds`, `SubdeviceRowsShowLeds` | either API; a script with two channels beside a main zone, limits -1, 1, 2, and one with subdevices on a canvas of 2 x 2 or 2 x 0, LEDs crossed, stacked on one cell and off the canvas; 2 or 3 calls per callback; 1 887 000 |
| `SubdeviceColors` (violation) | `SubdevicesShowLeds` | API 5, the script with subdevices |

The API and the kind of script (`api`, `script`: the sizes, LEDs, channels and limits
it uses) are chosen at the start.  `calls` bounds the calls of one callback, not the
number of callbacks, so every state is reached that any sequence of calls reaches in
which no callback needs more. Two channels are needed for the start index of the second and for its removal
by name. The position of a zone in the LED list is the number of LEDs of the zones
before it, stated as the size of a set of pairs (zone, LED) and not as a sum by
recursion, so that it can be proved about.

Proved for any metadata, scripts (sizes, LEDs, channels, limits), numbers of calls and
both APIs, from `MetaAssumption`, `ApisAssumption` and `ScriptsAssumption`: the types
(`TypeCorrect`) and the five properties of the run (`LayoutFollows`, `FramesFit`,
`IndexFits`, `MainShows`, `RowsShow`). `DeviceTopologyProofs` has the lemmas on lists,
on the device and on each call of a script; `DeviceLayoutProofs` those on the zones
and the frames, and the theorems. The inductive invariant has three parts beside the
types and the frames' own properties:

* `DeviceOK`: every channel and subdevice agrees with itself and no two have one name.
  Without it the look-up by name could find another subdevice than the one written to.
* `ZonesOK`: only a channel's zone, with an API 4 host, may differ from its own maximum,
  and a channel's zone has no map; what ResizeZone changes, no frame reads as a matrix.
* `LayoutOK`: unless the device is marked dirty the zones are those that would be
  built from it now. It is needed as BuildFrames itself changes the counts of channels
  with an API 5 host: the proof shows that a rebuild gives the same zones then.


### ConfigurationStore: the settings and their file

State. `disk` is `device_config.json`, `store` the store's document, `edit` the
change the application thread is making (save, then apply), `pages` the keys whose
pages are shown, `worker` and `building` the discovery with the configuration it has
read for the controller it is making, `listed` and `conf` the registry's controllers.
`Load`, `Unload` and `Crash`, at any point, are actions; a failed read or write is a
choice where the constants allow it. A write is atomic (QSaveFile). The clearing of
the pages is a posted status; with an API 5 host the list-changing calls of the
worker wait until it has been delivered.

Run `ConfigurationKept` (API 5; a mouse, two twins with one key, one parameter of two
values, writes may fail, the file at first arbitrary): `FileFollowsStore`,
`ControllersFollowStore`, `SettingsSurvive`, `FileChangesWithOneEdit`. Three devices
and two keys tell "all controllers of a key" from "all controllers" and from "one".

Proved for any devices, keys, parameters and values (`ConfigurationStoreProofs`): the
types, `FileFollowsStoreHolds`, `FileChangesWithOneEditHolds`, `SettingsSurviveReads`
where the file can be read, and `ControllersFollowStoreHolds` for API 5. The last
rests on `PagesInv`, no page is shown from the moment the worker's first host call
has come back until the worker has ended, and `ConfInv`, what the worker has read is
what the store still has. Not modelled: the JSON text and the two layouts `Load`
accepts, the scans of the host (the discovery is not superseded here).

### HidEndpoints and HidSessions: HID devices

`HidEndpoints` has the pure operators: the numbering of the collections of an
interface (`AssignCollectionIndices`), the key of an endpoint and the search of
`set_endpoint` (`FindEndpointHandle`). An entry of hidapi's list is its path, group
(`NormalizeDevicePath`), interface, usage and usage page; the report descriptors are
a constant.

`HidSessions` has the loops of `Discover` over scripts and devices (`position`,
`building`, `open_groups`), the session of each controller through opening,
collecting, opening the endpoints, initializing, live, shutdown, closing (`session`),
and the backend (`next_handle`, `table`, `opened`, `holder`). Every operation of the
backend waits for its one mutex; a transfer keeps it until the device answers.
`HidBackend::Close` takes the handle out of the table under the mutex and closes the
device without it: two steps. Opening may fail at each entry, a script may fail
after all, the worker may be stale at each device, and a controller may be deleted
at any time between two calls. An enumeration can read some of the descriptors, not
always the same ones. The constructor of `EndpointSession` throws after its first
device is open only when memory is short; that is not modelled, nor is what a
transfer carries.

| Run | Shows | Bounds, distinct states |
|---|---|---|
| `HidDevices` | `HandlesAreOwned`, `CallsFindTheirDevice`, `OneControllerPerDevice`, `EndpointsAreComplete`, `AmbiguousIsRejected`, `NumbersFollowDescriptors`, and the liveness of `SessionsEnd` | two devices with three entries, on Windows with two scripts or one, on Linux with one; a device with two interfaces, whose script may read without a timeout; every list of up to four entries for the numbers; 24 000 |

Handles are bounded by the rounds of the loops and the entries. Two entries of one
device and two scripts are needed for a device to be matched four times; a second
device for the sessions to meet in the backend.

Fairness. Strong for the steps that wait for the backend's mutex: the operating
system gives every waiting thread its turn. Weak for the end of a transfer with a
timeout and for code that waits for nothing. Nothing is assumed of scripts, of the
host or of a read without a timeout: a script that makes one holds the backend for
ever, and `SessionsEnd` is stated for the others (`NoTimeout`).

Proved for any lists, descriptors, numbers of scripts and questions of scripts
(`HidSessionsProofs`): the types, `NoHandleIsLost` (`HandlesAreOwned`),
`CallsFindDevices` (`CallsFindTheirDevice`), `OnePerDevice`
(`OneControllerPerDevice`) and `AmbiguousRejected` (`AmbiguousIsRejected`). The
inductive invariant has `LoopsOK` (a round begins after the ones before it, and of
the controllers of one device at most one exists: it is under construction or its
group is in `open_groups`), `PhasesOK` (what each phase says of the handles and of
the script: only a script that runs has an active handle, and it is one of its
session's), `HandlesOK` (a handle in the table is one endpoint's of one session and
open on an entry of its device; the others are being closed, by one session each)
and `TodoOK` (what is still to be opened is the device's). The calls find their
device only because of all four: no lock is held between the choice of a handle and
the transfer. `AmbiguousRejected` needs besides that a session's handles are finitely
many (`FiniteOK`), to count what the looser searches find.

`EndpointsComplete` (`EndpointsAreComplete`) and `NumbersFollow`
(`NumbersFollowDescriptors`) rest on the numbering. The recursion of `LocalCollection`
has a solution for every list (`LocalIsDefined`, by the least length that would have
none); each entry gets a slot of its path that no earlier one has
(`LocalNumbersDiffer`: a path has at least as many slots as entries), and the slots of a
later path begin after those of an earlier one (`LaterPathIsAbove`: the offset is the
number of the slots before, counted as a set), so that no two entries of an interface
have one number (`NumbersDiffer`). Where the descriptor says which collection each entry
is, there is no first entry that is numbered otherwise (`ClearIsFollowed`). The
invariant `EndpointsInv` says that the list is numbered by one of the readings, that
what a session has listed and has still to open are together the keys of its device's
entries, and that a handle is open on the entry whose key it has.

Both enumerations have to number a device alike for that, and the code leaves it to the
system that they do (`ReadingsAssumption`): on Windows a path has one collection, which
is numbered 0 whether or not its descriptor can be read; on Linux the paths that can be
read are the same as long as a discovery lasts. If a path that the discovery could read
cannot be opened when the session enumerates, its numbers may change, and an endpoint be
listed and opened under two keys.

### SerialPorts: serial ports and the scripts that use them

State. `plugged` is what the system lists, `held` which connections have which ports
open, `ctl` each controller with its runtime: how far it is, what its script is
doing, `active_serial` and `serial_connection` (`active`, `conn`). `scan` has the
loops of `Discover` over scripts, products and ports, `claimed` is
`open_serial_ports`, `refused` the attempts that failed.

Actions. The loops, the attempt with the constructor that runs the script, and its
three ends; a clearing of the registry, which ends one controller after the other;
the script's connect, in two steps (the old port is closed, the new one opened or
not), disconnect, and a transfer that fails and closes the port while the script
keeps its connection. A script runs under its controller's mutex, and Shutdown may
still connect. Ports are plugged in and out (external). Options, bytes and texts are
left out.

Run `SerialPorts` (two ports of one product, two scripts of which the first lists it
twice, one discovery and the unloading, one replugging; 247 000 states):
`HeldPortIsActive`, `OneControllerPerPort`, `NoPortIsForgotten`, and the liveness of
`PortsAreFreed`. Two ports let one port be connected to by the script of the other;
two scripts and the doubled product make three attempts on each port.

Fairness. The opening of a port returns, a script that is called returns in the end
and the registry, whose host is let in again and again, goes on. No discovery and no
call need ever begin.

Proved for any ports, products, scripts and bounds (`SerialPortsProofs`):
`TypeCorrect`, `OnePerPort` (`OneControllerPerPort`), `HeldIsActive`
(`HeldPortIsActive`) and `NoneForgotten` (`NoPortIsForgotten`). The inductive invariant adds to the types
`AttemptIsUnclaimed` (what is being constructed is the attempt of the loop, and its
port is not claimed), `LiveIsClaimed` (during a discovery every live controller's
port is) and `HeldIsConnection` (an open port is its controller's connection and its
active port, except in the middle of connect, when there is none). Neither the order
of the ports nor the filter by product is needed for the first three.

`NoneForgotten` needs the loops besides (`LoopInv`): `ScanOK`, where they are and that
what is left of a round belongs to a product of a script; `ClaimedIsLive`, a claimed
port has its live controller until the registry is cleared; `PassedIsTried`, every
attempt the loops have passed was refused or its port is claimed; and
`GivenUpIsRefused`, what Register has given up is refused before it is destroyed. The
loop over a script's products goes over all the ports again for each, so that a port
whose product is listed twice is tried twice.

What the model shows besides: connect on the port that is open answers true and
ignores the new options; after a failed connect getPortName names a port that is not
open.

### ScriptModules, ControlParameters and ScriptRuntime: a script and its page

`ScriptModules` has the module loader: `Find` (the first file whose path without case
is the key), `Loaded` (the script and all it imports, recorded as the scan loads
them) and `CanLoad`. `ControlParameters` has the conversions of `ControlParameters.cpp`
and of the page's controls: `NormalizeParameterValue`, `ParameterDefaultValue`, the
bounds, the step and the rounding of a number box, what a control shows and what may
be entered. A value is its kind with what it holds; numbers count tenths; what Qt
makes of a text (`QString::toDouble`) is a constant.

`ScriptRuntime` has one script from its scan to its page. State: `phase`, `meta` (the
parameters the scan has found and the files it has recorded), `runtime` (files,
global variables, declarations), `config` (what is stored for the device), `pending`
(the changes that wait for a frame) and `page`. Actions: the scan, its end and its
failure; `CreateDeviceRuntime` from the recorded files; `Configure` (raw values, then
by declaration); the end of Initialize, which applies all values again;
addProperty and removeProperty wherever a script may call them; the page, an edit and
its arrival in the script; the removal by a rescan, after which files may have
changed. The engine is external: a script declares what it likes, and does not assign
its parameters. `redeclared` marks parameters declared again after Initialize, of
which the controller and the page do not learn.

Run `ScriptRuntime` (one property declared as every type, with bounds that cut and
choices of several kinds; ten stored values; five files, two that differ in case,
two that import each other, any of them unreadable; two scans; 126 000 states):
`ScriptSeesDeclaredKind`, `PageShowsWhatScriptHas`, `DeviceRunsScannedModules`. One
property is enough since no step relates two; two scans let a value meet the
declaration of another version.

Proved for any files, imports, declarations, values and bounds
(`ScriptRuntimeProofs`): `RecordIsComplete` (what is loaded from the record is the
record), `NormalizedConforms` and `NormalizeIsIdempotent`, `EnteredIsShown` (what is
entered survives the control's rounding and the normalisation), the types, and the
three properties of the run. The inductive invariant says of each phase what has been
applied: `ModulesOK` (a device's files are the record, which is closed under imports),
`GlobalsOK` (a live script's parameter is normalized by the controller's declaration,
unless redeclared) and `PageOK` (a control shows what the configuration gives by that
declaration).

What the model shows besides: of `Foo.js` and `foo.js` the scan loads the first
twice, under both names; a stored number outside `min` and `max` is cut on the page
but given to the script as it is; a parameter that only the device's top level
declares is read unnormalized during Initialize; a parameter declared again in Render
is normalized by the old declaration from then on.

## 4. Findings

Runs that end in a violation, with what the sources say, are in `PROJECT.json`:

* `DiscoveryJoin`: an event delivered inside the wait of `JoinDiscoveryThread` joins
  the thread itself; the outer `join()` then throws out of an event handler.
* `DiscoveryWaiting`: a request put off until the host has scanned may fall between
  the read of the pending flag and the end of the scan, and is lost.
* `SubdeviceColors`: the frame of a subdevice is laid out by cell and read by LED.

Further configurations are kept beside the runs, to be run by hand with `tlc -config
<file>.cfg <module>`; each has a counterexample:

* `DiscoveryShown` (`MCDiscoveryLifecycle`): the final status is shown before
  `discovery_running_` is cleared (`SignalBridgePlugin.cpp:244`). A click in between
  shows "SignalRGB discovery is already running" (121), with the button off, and no
  later status takes it back.
* `RemovalStuck` (`MCControllerUpdates`): in Unload a host call for one entry throws,
  and the application thread destroys the next one, whose topology worker has just
  taken a changed topology: the destructor joins a worker whose host call needs the
  application thread (`ControllerRegistry.cpp:143`, `SignalBridgeController.cpp:349`).
* `MatrixMaps` (`MCDeviceTopology`): a script that names fewer LEDs than its metadata
  places gets a matrix map with LEDs its zone does not have (`TopologyMapper.cpp:237`).
* `ConfigurationUnread` (`MCConfigurationStore`): a file that could not be read once
  is replaced by the next change alone (`DeviceConfigStore.cpp:22`).
* `ConfigurationLate` (`MCConfigurationStore`): API 4; a change made on a page of the
  last discovery, while the application thread is late with its queue, misses the
  controller the worker is creating (`DiscoveryService.cpp:294`).
* `HidUnavailable` (`MCHidSessions`): an endpoint that could not be opened is answered
  by the endpoint of another interface (`RuntimeBindings.cpp:203`), where
  `tests/SignalBridgeCoreTests.cpp:502` has "set_endpoint rejects an unavailable
  collection".

## 5. What the checks do not say

* Liveness is model-checked only: it needs fairness and ENABLED, which the prover does
  not have. Every other property of a run that passes is a theorem.
* `EndpointsAreComplete` and `NumbersFollowDescriptors`, in the run as in the theorems,
  are for a system whose two enumerations of a device number it alike
  (`ReadingsAssumption`, section 3).
* The data race of an API 4 callback on another thread than the application's is
  excluded by assumption. The JavaScript engine, hidapi, Qt's widgets, JSON and the
  file system are external; so is everything OpenRGB does beyond the calls above.
* Each module stands alone: that the removal `ControllerUpdates` models ends is not
  composed with the `Unload` of `DiscoveryLifecycle`, which takes it for a step. Their
  product is out of TLC's reach, and no state is shared but the registry's list.
* Not modelled: the log, the texts of the reports, the built-in modules with constant
  answers (system information, errors, LCD, permissions), the conversion of values
  between JSON and JavaScript, the layout of the pages, timers, images and colour
  orders. They keep no state that outlives a call, or are formatting; `PROJECT.json`
  has the reasons.
