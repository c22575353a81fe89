-------------------------- MODULE DiscoveryLifecycle --------------------------
(***************************************************************************)
(* SignalBridgePluginCore: when a discovery starts, is superseded, is      *)
(* joined, and what the widget shows of it.  Three threads share the       *)
(* core's atomics:                                                         *)
(*   - the application (GUI) thread, which runs Load, Unload, a click on   *)
(*     the rescan button and the MetaCall events posted to it;             *)
(*   - the host's detection thread, which reports the start (API 5; in API *)
(*     4 the application thread does) and the end of OpenRGB's own scan;   *)
(*   - the discovery worker, one std::thread per generation.               *)
(*                                                                         *)
(* A step is one access to a shared variable, or a sequence of accesses    *)
(* of which at most one is to a variable another thread may be changing.   *)
(***************************************************************************)
EXTENDS Integers, Sequences, FiniteSets

CONSTANTS
  Api,             \* SIGNALBRIDGE_OPENRGB_API_VERSION
  HostThrows,      \* whether a call of an API 5 host may throw
  Devices,         \* the devices the installed scripts match
  MaxDetections,   \* bound: OpenRGB scans the host runs
  MaxRescans,      \* bound: clicks on the rescan button
  MaxLoads         \* bound: times the host loads the plugin

ASSUME ApiAssumption == Api \in {4, 5}
ASSUME ThrowAssumption == HostThrows \in BOOLEAN
ASSUME BoundAssumption ==
  MaxDetections \in Nat /\ MaxRescans \in Nat /\ MaxLoads \in Nat

VARIABLES
  core,           \* the atomics of SignalBridgePluginCore
  thread,         \* the generation whose worker discovery_thread_ owns, 0 when
                  \* it is not joinable
  gui,            \* handlers active on the application thread, innermost last
  newGeneration,  \* the local "generation" of DiscoverSignalRgbDevices
  doomed,         \* entries Unload swapped out of the registry
  queue,          \* MetaCall events posted to the application thread
  widget,         \* what the widget shows
  workers,        \* the live discovery workers
  host,           \* the host's detection thread
  registry,       \* ControllerRegistry::controllers_
  hostList,       \* the plugin's controllers in the host's list
  orphans,        \* those of them the plugin has destroyed, after an exception
  terminated,     \* std::terminate was called
  spent           \* how much of the three bounds is used

vars == <<core, thread, gui, newGeneration, doomed, queue, widget, workers,
          host, registry, hostList, orphans, terminated, spent>>

\* Groups for UNCHANGED.
locals == <<newGeneration, doomed>>
lists == <<registry, hostList, orphans>>
others == <<workers, host, terminated, spent>>

-----------------------------------------------------------------------------
Controllers == [gen : Nat, dev : Devices]

\* DiscoveryStatusChanged as a posted event.  A null QString for the device
\* list ("keeps") leaves the shown list alone; "[]" empties it.
Status(g, text, running, keeps, devices) ==
  [kind |-> "status", gen |-> g, text |-> text, running |-> running,
   keeps |-> keeps, devices |-> devices]
Rediscover == [kind |-> "rediscover"]

Post(e) == queue' = Append(queue, e)

\* SignalBridgeWidget::ApplyDiscoveryStatus
Shown(s) == [text |-> s.text, running |-> s.running,
             devices |-> IF s.keeps THEN widget.devices ELSE s.devices]
Show(text, running, keeps) == widget' = Shown(Status(0, text, running, keeps, {}))

Top == gui[Len(gui)]
At(pc) == gui # <<>> /\ Top.pc = pc /\ ~terminated
Goto(pc) == gui' = [gui EXCEPT ![Len(gui)] = [@ EXCEPT !.pc = pc]]
Call(op, pc) == gui' = Append(gui, [op |-> op, pc |-> pc])
Return == gui' = SubSeq(gui, 1, Len(gui) - 1)
Idle == gui = <<>> /\ ~terminated

\* The places where a handler calls sendPostedEvents in a loop (API 5 only):
\* JoinDiscoveryThread while the worker runs, WaitForOpenRgbDetection while the
\* host scans, UnregisterAndDeleteControllers while its helper thread works.
PumpPcs == {"startJoin", "stopJoin", "wait1", "wait2", "unregister"}

\* Mutant of Pumps: JoinDiscoveryThread joins without delivering events.
PumpsOutsideJoin ==
  /\ Api = 5 /\ gui # <<>>
  /\ \/ Top.pc \in {"wait1", "wait2"} /\ core.scanning
     \/ Top.pc = "unregister" /\ doomed # {}

\* Mutant of Pumps: UnregisterAndDeleteControllers waits for its helper thread
\* without delivering events.
PumpsOutsideUnregister ==
  /\ Api = 5 /\ gui # <<>>
  /\ \/ Top.pc \in {"startJoin", "stopJoin"} /\ core.running
     \/ Top.pc \in {"wait1", "wait2"} /\ core.scanning

Pumps ==
  /\ Api = 5 /\ gui # <<>>
  /\ \/ Top.pc \in {"startJoin", "stopJoin"} /\ core.running
     \/ Top.pc \in {"wait1", "wait2"} /\ core.scanning
     \/ Top.pc = "unregister" /\ doomed # {}

\* The application thread delivers posted events.
Serves == ~terminated /\ (gui = <<>> \/ Pumps)

\* The calls that change an API 5 host's controller list need the application
\* thread to serve them: it is why the core delivers events while it waits.
HostServes == Api = 5 => Serves

\* A host call of the cleanup of these entries throws: the call's controller may
\* be off the host's list by then or not, and it and the entries left are destroyed
\* with the vector, by whoever owns it, while the host goes on listing them.
HostCallThrows(entries) ==
  /\ Api = 5 /\ HostThrows /\ HostServes
  /\ \E c \in entries : hostList' \in {hostList, hostList \ {c}}
  /\ orphans' = orphans \union (entries \intersect hostList')

IsDiscoveryStale(g) == core.cancel \/ g # core.generation

-----------------------------------------------------------------------------
(* The application thread: Load, Unload, rescan, posted events.            *)

\* Load, up to its call of DiscoverSignalRgbDevices.
Load ==
  /\ Idle /\ ~core.manager /\ spent.loads < MaxLoads
  /\ core' = [core EXCEPT !.manager = TRUE, !.unloading = FALSE,
                          !.scanning = FALSE, !.pending = FALSE]
  /\ Call("load", "guard")
  /\ spent' = [spent EXCEPT !.loads = @ + 1]
  /\ UNCHANGED <<thread, locals, queue, widget, workers, host, lists, terminated>>

\* The rescan button is there while a host is attached and the widget does not
\* show a running discovery.
Rescan ==
  /\ Idle /\ core.manager /\ ~widget.running /\ spent.rescans < MaxRescans
  /\ Call("rescan", "guard")
  /\ spent' = [spent EXCEPT !.rescans = @ + 1]
  /\ UNCHANGED <<core, thread, locals, queue, widget, workers, host, lists, terminated>>

Unload ==
  /\ Idle /\ core.manager
  /\ core' = [core EXCEPT !.unloading = TRUE]
  /\ Call("unload", "cancel")
  /\ UNCHANGED <<thread, locals, queue, widget, lists, others>>

\* Mutant of DeliverStatus: the slot shows whatever arrives.
DeliverAnyStatus ==
  /\ Serves /\ queue # <<>> /\ Head(queue).kind = "status"
  /\ queue' = Tail(queue)
  /\ widget' = Shown(Head(queue))
  /\ UNCHANGED <<core, thread, gui, locals, lists, others>>

\* The slot ApplyDiscoveryStatus drops a status of another generation.
DeliverStatus ==
  /\ Serves /\ queue # <<>> /\ Head(queue).kind = "status"
  /\ queue' = Tail(queue)
  /\ widget' = IF Head(queue).gen = core.generation THEN Shown(Head(queue)) ELSE widget
  /\ UNCHANGED <<core, thread, gui, locals, lists, others>>

\* The lambda posted by OnOpenRgbDetectionEnded.
DeliverRediscover ==
  /\ Serves /\ queue # <<>> /\ Head(queue).kind = "rediscover"
  /\ queue' = Tail(queue)
  /\ IF core.unloading THEN UNCHANGED gui
     ELSE Call("rediscover", IF Api = 5 THEN "cancel" ELSE "guard")
  /\ UNCHANGED <<core, thread, locals, widget, lists, others>>

-----------------------------------------------------------------------------
(* DiscoverSignalRgbDevices                                                *)

DiscoverGuard ==
  /\ At("guard")
  /\ IF core.unloading \/ ~core.manager THEN Return ELSE Goto("scanTest")
  /\ UNCHANGED <<core, thread, locals, queue, widget, lists, others>>

DiscoverScanTest ==
  /\ At("scanTest")
  /\ Goto(IF core.scanning THEN "defer" ELSE "busyTest")
  /\ UNCHANGED <<core, thread, locals, queue, widget, lists, others>>

DiscoverDefer ==
  /\ At("defer")
  /\ core' = [core EXCEPT !.pending = TRUE]
  /\ Show("waiting", FALSE, FALSE)
  /\ Return
  /\ UNCHANGED <<thread, locals, queue, lists, others>>

DiscoverBusyTest ==
  /\ At("busyTest")
  /\ IF core.running
     THEN Show("already", TRUE, TRUE) /\ Return
     ELSE Goto(IF thread # 0 THEN "startJoin" ELSE "uncancel") /\ UNCHANGED widget
  /\ UNCHANGED <<core, thread, locals, queue, lists, others>>

DiscoverUncancel ==
  /\ At("uncancel")
  /\ core' = [core EXCEPT !.cancel = FALSE]
  /\ Goto("newGeneration")
  /\ UNCHANGED <<thread, locals, queue, widget, lists, others>>

DiscoverNewGeneration ==
  /\ At("newGeneration")
  /\ core' = [core EXCEPT !.generation = @ + 1]
  /\ newGeneration' = core.generation + 1
  /\ Goto("start")
  /\ UNCHANGED <<thread, doomed, queue, widget, lists, others>>

NewWorker(g) ==
  [gen |-> g, pc |-> "waitHost", old |-> {}, left |-> Devices, new |-> {}, listed |-> {}]

\* discovery_running_ is set, the first status posted and the thread object
\* assigned; assigning to a joinable std::thread calls std::terminate.
DiscoverStart ==
  /\ At("start")
  /\ core' = [core EXCEPT !.running = TRUE]
  /\ Post(Status(newGeneration, "scanning", TRUE, FALSE, {}))
  /\ terminated' = (thread # 0)
  /\ thread' = newGeneration
  /\ workers' = workers \union {NewWorker(newGeneration)}
  /\ Return
  /\ UNCHANGED <<locals, widget, host, lists, spent>>

-----------------------------------------------------------------------------
(* JoinDiscoveryThread, called by DiscoverSignalRgbDevices ("startJoin")   *)
(* and by StopDiscoveryThread ("stopJoin").  joinable() is tested once,    *)
(* before the loop that delivers events; a handler delivered there may     *)
(* join the thread itself, and join() on a std::thread that is not         *)
(* joinable throws an exception nobody catches.                            *)

Finished(g) == \A w \in workers : w.gen # g

\* Mutant of JoinThread: the thread is detached, not joined.
DetachThread(next) ==
  /\ thread' = 0
  /\ Goto(next)
  /\ UNCHANGED <<core, locals, queue, widget, workers, host, lists, terminated, spent>>

JoinThread(next) ==
  /\ Api = 5 => ~core.running
  /\ IF thread = 0
     THEN terminated' = TRUE /\ UNCHANGED <<thread, gui>>
     ELSE Finished(thread) /\ thread' = 0 /\ Goto(next) /\ UNCHANGED terminated
  /\ UNCHANGED <<core, locals, queue, widget, workers, host, lists, spent>>

DiscoverJoin == At("startJoin") /\ JoinThread("uncancel")

-----------------------------------------------------------------------------
(* StopDiscoveryThread, first call of Unload, of the posted lambda (API 5) *)
(* and of the detection-started callback (API 4).                          *)

StopCancel ==
  /\ At("cancel")
  /\ core' = [core EXCEPT !.cancel = TRUE]
  /\ Goto("supersede")
  /\ UNCHANGED <<thread, locals, queue, widget, lists, others>>

StopSupersede ==
  /\ At("supersede")
  /\ core' = [core EXCEPT !.generation = @ + 1]
  /\ Goto(IF thread # 0 THEN "stopJoin" ELSE "stopped")
  /\ UNCHANGED <<thread, locals, queue, widget, lists, others>>

StopJoin == At("stopJoin") /\ JoinThread("stopped")

\* What each caller does next.
AfterStop(op) ==
  CASE op = "unload" -> "wait1"
    [] op = "rediscover" -> "guard"
    [] op = "detection" -> "abandon"

StopDone ==
  /\ At("stopped")
  /\ core' = [core EXCEPT !.running = FALSE]
  /\ Goto(AfterStop(Top.op))
  /\ UNCHANGED <<thread, locals, queue, widget, lists, others>>

-----------------------------------------------------------------------------
(* Unload, after StopDiscoveryThread: wait for the host's scan, unregister *)
(* and delete the controllers (API 5: on a helper thread, while the        *)
(* application thread delivers events), wait again, forget the host.       *)

UnloadWait(pc, next) ==
  /\ At(pc) /\ ~core.scanning
  /\ Goto(next)
  /\ UNCHANGED <<core, thread, locals, queue, widget, lists, others>>

UnloadWaitBefore == UnloadWait("wait1", "takeRegistry")

\* The entries are swapped out under the registry's mutex.
UnloadTakeRegistry ==
  /\ At("takeRegistry")
  /\ doomed' = registry
  /\ registry' = {}
  /\ Goto("unregister")
  /\ UNCHANGED <<core, thread, newGeneration, queue, widget, hostList, orphans, others>>

\* One entry.  API 4 unregisters and deletes only what the host still lists.
UnloadUnregister ==
  /\ At("unregister") /\ HostServes
  /\ \E c \in doomed :
       /\ doomed' = doomed \ {c}
       /\ hostList' = hostList \ {c}
  /\ UNCHANGED <<core, thread, gui, newGeneration, queue, widget, registry, orphans, others>>

\* The helper thread swallows the exception and is done; Unload goes on.
UnloadThrows ==
  /\ At("unregister") /\ HostCallThrows(doomed)
  /\ doomed' = {}
  /\ UNCHANGED <<core, thread, gui, newGeneration, queue, widget, registry, others>>

\* Mutant of UnloadUnregistered: Unload does not wait for its helper thread.
UnloadUnregisteredEarly ==
  /\ At("unregister")
  /\ doomed' = {}
  /\ Goto("wait2")
  /\ UNCHANGED <<core, thread, newGeneration, queue, widget, lists, others>>

UnloadUnregistered ==
  /\ At("unregister") /\ doomed = {}
  /\ Goto("wait2")
  /\ UNCHANGED <<core, thread, locals, queue, widget, lists, others>>

UnloadWaitAfter == UnloadWait("wait2", "forget")

UnloadForget ==
  /\ At("forget")
  /\ core' = [core EXCEPT !.manager = FALSE]
  /\ Show("unloaded", FALSE, FALSE)
  /\ Return
  /\ UNCHANGED <<thread, locals, queue, lists, others>>

-----------------------------------------------------------------------------
(* The host's own device scan.  The host is external: it scans when it     *)
(* likes, calls back at the start and at the end while the plugin is       *)
(* attached, and WaitForDetection blocks at least while it scans.          *)

HostAt(pc) == host.pc = pc /\ ~terminated
HostGoto(pc) == host' = [host EXCEPT !.pc = pc]
DetectionStatus == Status(core.generation, "detecting", FALSE, FALSE, {})

\* API 5: OnOpenRgbDetectionStarted on the host's thread.
HostStart ==
  /\ Api = 5 /\ HostAt("idle") /\ spent.detections < MaxDetections
  /\ core' = [core EXCEPT !.scanning = @ \/ core.manager]
  /\ HostGoto(IF core.manager THEN "readUnloading" ELSE "scanning")
  /\ spent' = [spent EXCEPT !.detections = @ + 1]
  /\ UNCHANGED <<thread, gui, locals, queue, widget, workers, lists, terminated>>

HostReadUnloading ==
  /\ HostAt("readUnloading")
  /\ host' = [pc |-> "setPending", flag |-> ~core.unloading]
  /\ UNCHANGED <<core, thread, gui, locals, queue, widget, workers, lists, terminated, spent>>

HostSetPending ==
  /\ HostAt("setPending")
  /\ core' = [core EXCEPT !.pending = host.flag]
  /\ HostGoto("cancel")
  /\ UNCHANGED <<thread, gui, locals, queue, widget, workers, lists, terminated, spent>>

\* CancelDiscoveryThread
HostCancel ==
  /\ HostAt("cancel")
  /\ core' = [core EXCEPT !.cancel = TRUE]
  /\ HostGoto("supersede")
  /\ UNCHANGED <<thread, gui, locals, queue, widget, workers, lists, terminated, spent>>

HostSupersede ==
  /\ HostAt("supersede")
  /\ core' = [core EXCEPT !.generation = @ + 1]
  /\ HostGoto("announce")
  /\ UNCHANGED <<thread, gui, locals, queue, widget, workers, lists, terminated, spent>>

HostAnnounce ==
  /\ HostAt("announce")
  /\ Post(DetectionStatus)
  /\ HostGoto("scanning")
  /\ UNCHANGED <<core, thread, gui, locals, widget, workers, lists, terminated, spent>>

\* API 4: the callback runs on the application thread, where the scan is
\* requested, and joins the worker there.
DetectionStart ==
  /\ Api = 4 /\ Idle /\ HostAt("idle") /\ spent.detections < MaxDetections
  /\ spent' = [spent EXCEPT !.detections = @ + 1]
  /\ IF core.manager
     THEN /\ core' = [core EXCEPT !.scanning = TRUE]
          /\ Call("detection", "pending")
          /\ HostGoto("callback")
     ELSE HostGoto("scanning") /\ UNCHANGED <<core, gui>>
  /\ UNCHANGED <<thread, locals, queue, widget, workers, lists, terminated>>

DetectionPending ==
  /\ At("pending")
  /\ core' = [core EXCEPT !.pending = ~core.unloading]
  /\ Goto("cancel")
  /\ UNCHANGED <<thread, locals, queue, widget, lists, others>>

\* AbandonOpenRgbOwnedControllers: the host is about to delete them.
DetectionAbandon ==
  /\ At("abandon")
  /\ registry' = {}
  /\ Goto("announce")
  /\ UNCHANGED <<core, thread, locals, queue, widget, hostList, orphans, others>>

DetectionAnnounce ==
  /\ At("announce")
  /\ Post(DetectionStatus)
  /\ HostGoto("dropAll")
  /\ Return
  /\ UNCHANGED <<core, thread, locals, widget, workers, lists, terminated, spent>>

\* An API 4 host deletes every controller it lists before it scans.
HostDropAll ==
  /\ HostAt("dropAll")
  /\ hostList' = {}
  /\ HostGoto("scanning")
  /\ UNCHANGED <<core, thread, gui, locals, queue, widget, workers, registry, orphans,
                 terminated, spent>>

\* OnOpenRgbDetectionEnded, on the host's thread in both versions.
HostEnd ==
  /\ HostAt("scanning")
  /\ host' = [pc |-> IF core.manager THEN "decide" ELSE "idle", flag |-> core.pending]
  /\ core' = [core EXCEPT !.pending = @ /\ ~core.manager]
  /\ UNCHANGED <<thread, gui, locals, queue, widget, workers, lists, terminated, spent>>

HostDecide ==
  /\ HostAt("decide")
  /\ HostGoto(IF host.flag /\ ~core.unloading /\ core.manager THEN "repost" ELSE "clear")
  /\ UNCHANGED <<core, thread, gui, locals, queue, widget, workers, lists, terminated, spent>>

HostRepost ==
  /\ HostAt("repost")
  /\ Post(Rediscover)
  /\ HostGoto("clear")
  /\ UNCHANGED <<core, thread, gui, locals, widget, workers, lists, terminated, spent>>

\* Mutant of HostClear: the end of a scan leaves detection_in_progress_ set.
HostClearNothing ==
  /\ HostAt("clear")
  /\ HostGoto("idle")
  /\ UNCHANGED <<core, thread, gui, locals, queue, widget, workers, lists, terminated, spent>>

HostClear ==
  /\ HostAt("clear")
  /\ core' = [core EXCEPT !.scanning = FALSE]
  /\ HostGoto("idle")
  /\ UNCHANGED <<thread, gui, locals, queue, widget, workers, lists, terminated, spent>>

-----------------------------------------------------------------------------
(* The discovery worker: DiscoveryWorker and DiscoveryService::Discover.   *)

WorkerAt(w, pc) == w.pc = pc /\ ~terminated
Become(w, v) == workers' = (workers \ {w}) \union {v}
WorkerGoto(w, pc) == Become(w, [w EXCEPT !.pc = pc])
workerFrame == <<thread, gui, locals, host, terminated, spent>>

\* Mutant of WorkerWaitHost: the worker does not wait for the host's scan.
WorkerWaitNothing(w) ==
  /\ WorkerAt(w, "waitHost")
  /\ WorkerGoto(w, "check")
  /\ UNCHANGED <<core, queue, widget, lists, workerFrame>>

WorkerWaitHost(w) ==
  /\ WorkerAt(w, "waitHost") /\ host.pc # "scanning"
  /\ WorkerGoto(w, "check")
  /\ UNCHANGED <<core, queue, widget, lists, workerFrame>>

WorkerCheck(w) ==
  /\ WorkerAt(w, "check")
  /\ WorkerGoto(w, IF IsDiscoveryStale(w.gen) \/ core.scanning
                   THEN "exit" ELSE "takeRegistry")
  /\ UNCHANGED <<core, queue, widget, lists, workerFrame>>

\* Mutant of WorkerTakeRegistry: the entries are copied, not swapped out.
WorkerCopyRegistry(w) ==
  /\ WorkerAt(w, "takeRegistry")
  /\ Become(w, [w EXCEPT !.pc = "unregister", !.old = registry])
  /\ UNCHANGED <<core, queue, widget, lists, workerFrame>>

\* UnregisterAndDeleteControllers, first thing Discover does.
WorkerTakeRegistry(w) ==
  /\ WorkerAt(w, "takeRegistry")
  /\ Become(w, [w EXCEPT !.pc = "unregister", !.old = registry])
  /\ registry' = {}
  /\ UNCHANGED <<core, queue, widget, hostList, orphans, workerFrame>>

WorkerUnregister(w) ==
  /\ WorkerAt(w, "unregister") /\ HostServes
  /\ \E c \in w.old :
       /\ Become(w, [w EXCEPT !.old = @ \ {c}])
       /\ hostList' = hostList \ {c}
  /\ UNCHANGED <<core, queue, widget, registry, orphans, workerFrame>>

\* Here nothing catches the exception before Discover does.
WorkerUnregisterThrows(w) ==
  /\ WorkerAt(w, "unregister") /\ HostCallThrows(w.old)
  /\ Become(w, [w EXCEPT !.pc = "fail", !.old = {}])
  /\ UNCHANGED <<core, queue, widget, registry, workerFrame>>

\* The scripts are scanned and the devices enumerated, with a stale check
\* before each phase; the progress statuses differ in text and number only.
WorkerScan(w) ==
  /\ WorkerAt(w, "unregister") /\ w.old = {}
  /\ IF IsDiscoveryStale(w.gen)
     THEN WorkerGoto(w, "exit") /\ UNCHANGED queue
     ELSE WorkerGoto(w, "match") /\ Post(Status(w.gen, "matching", TRUE, TRUE, {}))
  /\ UNCHANGED <<core, widget, lists, workerFrame>>

\* Discover catches an exception of the cleanup, or of the scan (the script
\* directory cannot be made or read).
WorkerFails(w) ==
  /\ WorkerAt(w, "fail") \/ (WorkerAt(w, "unregister") /\ w.old = {})
  /\ Post(Status(w.gen, "failed", FALSE, FALSE, {}))
  /\ WorkerGoto(w, "exit")
  /\ UNCHANGED <<core, widget, lists, workerFrame>>

\* The next candidate, in the order the scripts and the devices come.
WorkerPick(w) ==
  /\ WorkerAt(w, "match") /\ ~IsDiscoveryStale(w.gen)
  /\ \E d \in w.left :
       Become(w, [w EXCEPT !.pc = "register", !.left = @ \ {d},
                           !.new = {[gen |-> w.gen, dev |-> d]}])
  /\ UNCHANGED <<core, queue, widget, lists, workerFrame>>

WorkerAbort(w) ==
  /\ WorkerAt(w, "match") /\ w.left # {} /\ IsDiscoveryStale(w.gen)
  /\ WorkerGoto(w, "exit")
  /\ UNCHANGED <<core, queue, widget, lists, workerFrame>>

\* The device is opened and its controller given to the host ...
WorkerRegister(w) ==
  /\ WorkerAt(w, "register") /\ HostServes
  /\ WorkerGoto(w, "record")
  /\ hostList' = hostList \union w.new
  /\ UNCHANGED <<core, queue, widget, registry, orphans, workerFrame>>

\* ... or the host lists it and throws, now and when it is to be taken off again, or
\* when its list is asked for: the attempt has failed, and the controller is destroyed.
WorkerRegisterThrows(w) ==
  /\ WorkerAt(w, "register") /\ HostServes /\ Api = 5 /\ HostThrows
  /\ Become(w, [w EXCEPT !.pc = "match", !.new = {}])
  /\ hostList' = hostList \union w.new
  /\ orphans' = orphans \union w.new
  /\ UNCHANGED <<core, queue, widget, registry, workerFrame>>

\* ... or opening or registering fails, is counted, and leaves no controller.
WorkerFail(w) ==
  /\ WorkerAt(w, "register")
  /\ Become(w, [w EXCEPT !.pc = "match", !.new = {}])
  /\ UNCHANGED <<core, queue, widget, lists, workerFrame>>

\* Mutant of WorkerRecord: a superseded worker drops the controller it has just
\* given to the host.
WorkerRecordIfCurrent(w) ==
  /\ WorkerAt(w, "record")
  /\ Become(w, [w EXCEPT !.pc = "match", !.new = {}, !.listed = @ \union w.new])
  /\ registry' = IF IsDiscoveryStale(w.gen) THEN registry ELSE registry \union w.new
  /\ UNCHANGED <<core, queue, widget, hostList, orphans, workerFrame>>

WorkerRecord(w) ==
  /\ WorkerAt(w, "record")
  /\ Become(w, [w EXCEPT !.pc = "match", !.new = {}, !.listed = @ \union w.new])
  /\ registry' = registry \union w.new
  /\ UNCHANGED <<core, queue, widget, hostList, orphans, workerFrame>>

\* No stale check separates the last candidate from the final status.
WorkerPublish(w) ==
  /\ WorkerAt(w, "match") /\ w.left = {}
  /\ Post(Status(w.gen, "registered", FALSE, FALSE, w.listed))
  /\ WorkerGoto(w, "exit")
  /\ UNCHANGED <<core, widget, lists, workerFrame>>

WorkerExit(w) ==
  /\ WorkerAt(w, "exit")
  /\ core' = [core EXCEPT !.running = FALSE]
  /\ workers' = workers \ {w}
  /\ UNCHANGED <<queue, widget, lists, workerFrame>>

-----------------------------------------------------------------------------
InitCore ==
  [manager |-> FALSE, unloading |-> FALSE, scanning |-> FALSE, pending |-> FALSE,
   cancel |-> FALSE, running |-> FALSE, generation |-> 0]

\* The host may be in the middle of a scan when it loads the plugin.
Init ==
  /\ core = InitCore
  /\ thread = 0
  /\ gui = <<>>
  /\ newGeneration = 0
  /\ doomed = {}
  /\ queue = <<>>
  /\ widget = [text |-> "unloaded", running |-> FALSE, devices |-> {}]
  /\ workers = {}
  /\ host \in [pc : {"idle", "scanning"}, flag : {FALSE}]
  /\ registry = {}
  /\ hostList = {}
  /\ orphans = {}
  /\ terminated = FALSE
  /\ spent = [detections |-> 0, rescans |-> 0, loads |-> 0]

\* What the application thread does of itself once a handler is running.
Handle ==
  \/ DiscoverGuard \/ DiscoverScanTest \/ DiscoverDefer \/ DiscoverBusyTest
  \/ DiscoverJoin \/ DiscoverUncancel \/ DiscoverNewGeneration \/ DiscoverStart
  \/ StopCancel \/ StopSupersede \/ StopJoin \/ StopDone
  \/ UnloadWaitBefore \/ UnloadTakeRegistry \/ UnloadUnregister \/ UnloadThrows
  \/ UnloadUnregistered \/ UnloadWaitAfter \/ UnloadForget
  \/ DetectionPending \/ DetectionAbandon \/ DetectionAnnounce

Deliver == DeliverStatus \/ DeliverRediscover

\* What the host's thread does of itself once a scan has begun.
HostContinue ==
  \/ HostReadUnloading \/ HostSetPending \/ HostCancel \/ HostSupersede
  \/ HostAnnounce \/ HostDropAll \/ HostEnd \/ HostDecide \/ HostRepost \/ HostClear

WorkerStep(w) ==
  \/ WorkerWaitHost(w) \/ WorkerCheck(w) \/ WorkerTakeRegistry(w)
  \/ WorkerUnregister(w) \/ WorkerUnregisterThrows(w) \/ WorkerScan(w) \/ WorkerFails(w)
  \/ WorkerPick(w) \/ WorkerAbort(w)
  \/ WorkerRegister(w) \/ WorkerRegisterThrows(w) \/ WorkerFail(w) \/ WorkerRecord(w)
  \/ WorkerPublish(w)
  \/ WorkerExit(w)

\* What the user and the host decide to do.
Environment == Load \/ Rescan \/ Unload \/ HostStart \/ DetectionStart

Next ==
  \/ Environment \/ Handle \/ Deliver \/ HostContinue
  \/ \E w \in workers : WorkerStep(w)

Spec == Init /\ [][Next]_vars

\* Threads that can run do run, posted events are delivered, and a scan of the
\* host ends.  Nothing makes the user or the host start anything.
Fairness ==
  /\ WF_vars(Handle)
  /\ WF_vars(Deliver)
  /\ WF_vars(HostContinue)
  /\ WF_vars(\E w \in workers : WorkerStep(w))

FairSpec == Spec /\ Fairness

-----------------------------------------------------------------------------
(* Properties                                                              *)

Ops == {"load", "rescan", "unload", "rediscover", "detection"}
Pcs == {"guard", "scanTest", "defer", "busyTest", "startJoin", "uncancel",
        "newGeneration", "start", "cancel", "supersede", "stopJoin", "stopped",
        "wait1", "takeRegistry", "unregister", "wait2", "forget", "pending",
        "abandon", "announce"}
HostPcs == {"idle", "readUnloading", "setPending", "cancel", "supersede",
            "announce", "callback", "dropAll", "scanning", "decide", "repost", "clear"}
WorkerPcs == {"waitHost", "check", "takeRegistry", "unregister", "match",
              "register", "record", "fail", "exit"}
Texts == {"unloaded", "waiting", "already", "scanning", "matching", "failed", "registered",
          "detecting"}

Core == [manager : BOOLEAN, unloading : BOOLEAN, scanning : BOOLEAN, pending : BOOLEAN,
         cancel : BOOLEAN, running : BOOLEAN, generation : Nat]
Worker == [gen : Nat, pc : WorkerPcs, old : SUBSET Controllers, left : SUBSET Devices,
           new : SUBSET Controllers, listed : SUBSET Controllers]
Events == [kind : {"status"}, gen : Nat, text : Texts, running : BOOLEAN,
           keeps : BOOLEAN, devices : SUBSET Controllers] \union {Rediscover}

\* Every variable stays within its type.
TypeOK ==
  /\ core \in Core
  /\ thread \in Nat
  /\ gui \in Seq([op : Ops, pc : Pcs])
  /\ newGeneration \in Nat
  /\ doomed \in SUBSET Controllers
  /\ queue \in Seq(Events)
  /\ widget \in [text : Texts, running : BOOLEAN, devices : SUBSET Controllers]
  /\ workers \in SUBSET Worker
  /\ host \in [pc : HostPcs, flag : BOOLEAN]
  /\ registry \in SUBSET Controllers
  /\ hostList \in SUBSET Controllers
  /\ orphans \in SUBSET Controllers
  /\ terminated \in BOOLEAN
  /\ spent \in [detections : Nat, rescans : Nat, loads : Nat]

\* Two discoveries never overlap, and the core can always join the one there
\* is: discovery_thread_ owns every live worker, whatever handlers the joins
\* deliver in the middle of other handlers.
OneWorker ==
  /\ \A w \in workers : w.gen = thread /\ thread # 0
  /\ \A v, w \in workers : v = w

\* The registry holds the controllers of one discovery: a worker that was
\* superseded half way never leaves entries beside those of its successor.
RegistryOfOneDiscovery == \A c, d \in registry : c.gen = d.gen

\* Controllers some thread has in hand: swapped out of the registry to be
\* unregistered, or given to the host and not yet recorded.
InHand == doomed \union UNION {w.old \union w.new : w \in workers}

\* The registry never lists a controller the host has dropped or the plugin has
\* destroyed (ApplyConfiguration and UnregisterAndDelete dereference the entries), and
\* the host never lists one the plugin has forgotten, unless the host is about to
\* delete all it lists, or a call of the host threw.
RegistryAndHostAgree ==
  /\ registry \subseteq hostList \ orphans
  /\ \/ host.pc \in {"callback", "dropAll"}
     \/ hostList \subseteq registry \union InHand \union orphans

\* Once Unload has returned nothing of the plugin runs or is in its registry, whatever
\* the host has thrown; and the host lists exactly what exceptions made the plugin
\* destroy without taking it off the list: nothing, if no call of the host throws.
UnloadedIsClean ==
  gui = <<>> /\ ~core.manager =>
    /\ thread = 0 /\ workers = {} /\ registry = {} /\ ~core.running
    /\ hostList = orphans
    /\ HostThrows \/ hostList = {}

\* Nothing is running, queued or about to be.
Quiet == Idle /\ queue = <<>> /\ workers = {} /\ host.pc \in {"idle", "scanning"}

\* When everything has settled, the device pages the widget shows are those of
\* registered controllers, and after "Registered N devices" they are all of them.
ShownDevicesAreRegistered ==
  Quiet => /\ widget.devices \subseteq registry
           /\ widget.text = "registered" => widget.devices = registry

\* API 4: no controller is handed to the host while it scans.  The start of a
\* scan joins the worker, and a worker waits for the scan before it begins.
NoRegistrationDuringScan ==
  [][Api = 4 /\ host.pc \in {"dropAll", "scanning"} => hostList' \subseteq hostList]_vars

\* Unload, which joins the worker, waits for the host's scan and unregisters
\* through the host, always comes back.
UnloadReturns ==
  (\E i \in DOMAIN gui : gui[i].op = "unload") ~> (gui = <<>> \/ terminated)

\* A superseded discovery ends without anyone's help.
SupersededWorkerEnds ==
  (\E w \in workers : IsDiscoveryStale(w.gen))
    ~> (terminated \/ \A w \in workers : ~IsDiscoveryStale(w.gen))

\* The discoveries, seen from outside, are serial: see SerialDiscovery.
Active == IF workers = {} THEN 0 ELSE thread
Serial == INSTANCE SerialDiscovery WITH active <- Active, owned <- registry
DiscoveriesAreSerial == Serial!Spec

\* "Waiting for OpenRGB device scan to finish" (SignalBridgePlugin.cpp:109) is
\* followed by something else once the scan has finished.
WaitingEnds == widget.text = "waiting" ~> widget.text # "waiting"

\* "SignalRGB discovery is already running" (SignalBridgePlugin.cpp:121) is not
\* what the widget is left showing when no discovery runs.
ShownRunningIsRunning == Quiet /\ widget.running => core.running

\* discovery_thread_.join() is reached only with a joinable thread, which the
\* test at SignalBridgePlugin.cpp:257 is there for.
NeverTerminates == ~terminated

=============================================================================
