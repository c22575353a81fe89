--------------------------- MODULE ControllerUpdates ---------------------------
(***************************************************************************)
(* One SignalBridgeController with an API 5 host, from the moment the      *)
(* discovery creates it to its destructor.  Four threads meet in it:       *)
(*   - its owner, the thread that registers it and the one that later      *)
(*     takes it out of the registry and deletes it, or leaves it to its    *)
(*     destructor when the host throws;                                    *)
(*   - the application thread, which changes its configuration;            *)
(*   - the host's device thread, which calls DeviceUpdateLEDs;             *)
(*   - its topology worker, which gives the host a changed topology        *)
(*     without holding the controller's mutex.                             *)
(*                                                                         *)
(* mutex_ is held across steps in one place only, while DeviceUpdateLEDs   *)
(* reads the host's colours and renders; every other critical section is   *)
(* one step, taken while the mutex is free.                                *)
(***************************************************************************)
EXTENDS Integers

CONSTANTS
  Layouts,      \* the topologies the script may describe
  LedCount,     \* how many LEDs each of them has
  Properties,   \* the script's control parameters
  Values,       \* the values they take
  MaxChanges    \* bound: configuration changes

ASSUME LedCountAssumption == LedCount \in [Layouts -> Nat \ {0}]
ASSUME MaxChangesAssumption == MaxChanges \in Nat

VARIABLES
  owner,     \* where the owner is
  conf,      \* configuration_
  changes,   \* pending_configuration_changes_; what its order decides, the
             \* order of the callbacks, is not modelled
  script,    \* the runtime: its parameters, its topology, topology_dirty
  ctl,       \* the controller's other members
  worker,    \* TopologyUpdateWorker: where it is, its copy of the setup
  call,      \* the device thread: where it is, the colours it is to copy
  host,      \* the host's controller: its topology, whether it is listed, whether
             \* the host's calls may throw, and whether the application thread is
             \* still there to serve the calls that change its list
  changed    \* how much of MaxChanges is used

vars == <<owner, conf, changes, script, ctl, worker, call, host, changed>>

Min(a, b) == IF a < b THEN a ELSE b

MutexFree == call.pc # "copying"

\* UnregisterVirtualRGBController comes back when no call of the device thread
\* is left: the plugin deletes the controller right after it (external).
HostQuiet == call.pc = "idle"

-----------------------------------------------------------------------------
(* ControllerRegistry::Register.                                           *)

CreateVirtual ==
  /\ owner = "new" /\ MutexFree
  /\ host' = [host EXCEPT !.layout = ctl.setup, !.exists = TRUE]
  /\ owner' = "attach"
  /\ UNCHANGED <<conf, changes, script, ctl, worker, call, changed>>

\* The host gives none, or throws: the controller is destroyed as it is.
CreateRefused ==
  /\ owner = "new" /\ MutexFree
  /\ owner' = "destroy"
  /\ UNCHANGED <<conf, changes, script, ctl, worker, call, host, changed>>

AttachOpenRgbController ==
  /\ owner = "attach" /\ MutexFree
  /\ ctl' = [ctl EXCEPT !.attached = TRUE, !.published = LedCount[ctl.setup],
                        !.shutting = FALSE, !.stop = FALSE, !.pending = FALSE]
  /\ worker' = [worker EXCEPT !.pc = "wait"]
  /\ owner' = "register"
  /\ UNCHANGED <<conf, changes, script, call, host, changed>>

RegisterVirtual ==
  /\ owner = "register"
  /\ host' = [host EXCEPT !.listed = TRUE]
  /\ owner' = "check"
  /\ UNCHANGED <<conf, changes, script, ctl, worker, call, changed>>

RegisterThrows ==
  /\ owner = "register" /\ host.throws
  /\ owner' = "detach"
  /\ UNCHANGED <<conf, changes, script, ctl, worker, call, host, changed>>

\* A controller the host does not list is given up; a listed one is recorded.
CheckListed ==
  /\ owner = "check"
  /\ owner' = IF host.listed THEN "recorded" ELSE "detach"
  /\ UNCHANGED <<conf, changes, script, ctl, worker, call, host, changed>>

\* Asking for the host's list is outside the try: the controller is destroyed as it
\* is, attached and listed.
CheckThrows ==
  /\ owner = "check" /\ host.throws
  /\ owner' = "destroy"
  /\ UNCHANGED <<conf, changes, script, ctl, worker, call, host, changed>>

-----------------------------------------------------------------------------
(* ControllerRegistry::UnregisterAndDeleteControllers.  Swapping the       *)
(* entries out of the registry excludes ApplyConfiguration from then on.   *)
(* They are cleaned up one after the other: this one waits for its turn.   *)

TakeFromRegistry ==
  /\ owner = "recorded"
  /\ owner' = "taken"
  /\ UNCHANGED <<conf, changes, script, ctl, worker, call, host, changed>>

\* An exception of an entry before this one ends the cleanup, and this one is
\* destroyed as it is: by the discovery worker, or in Unload by the application
\* thread, which from then on serves no call of the host.
OtherThrows ==
  /\ owner = "taken" /\ host.throws
  /\ owner' = "destroy"
  /\ \E served \in BOOLEAN : host' = [host EXCEPT !.served = served]
  /\ UNCHANGED <<conf, changes, script, ctl, worker, call, changed>>

\* Mutant of DetachBegin: the worker is not told to stop.
DetachBeginSilently ==
  /\ owner \in {"taken", "detach", "destroy"} /\ MutexFree
  /\ ctl' = [ctl EXCEPT !.shutting = TRUE, !.pending = FALSE]
  /\ owner' = IF owner = "destroy" THEN "lastJoin" ELSE "join"
  /\ UNCHANGED <<conf, changes, script, worker, call, host, changed>>

\* DetachOpenRgbController: tell the worker, join it, forget the host.  The
\* destructor calls it too, and may be the first that does.
DetachBegin ==
  /\ owner \in {"taken", "detach", "destroy"} /\ MutexFree
  /\ ctl' = [ctl EXCEPT !.shutting = TRUE, !.stop = TRUE, !.pending = FALSE]
  /\ owner' = IF owner = "destroy" THEN "lastJoin" ELSE "join"
  /\ UNCHANGED <<conf, changes, script, worker, call, host, changed>>

DetachEnd ==
  /\ owner \in {"join", "lastJoin"} /\ worker.pc \in {"none", "done"} /\ MutexFree
  /\ worker' = [worker EXCEPT !.pc = "none"]
  /\ ctl' = [ctl EXCEPT !.attached = FALSE, !.published = 0]
  /\ owner' = IF owner = "lastJoin" THEN "shutdown" ELSE "unregister"
  /\ UNCHANGED <<conf, changes, script, call, host, changed>>

UnregisterVirtual ==
  /\ owner = "unregister" /\ HostQuiet
  /\ host' = [host EXCEPT !.listed = FALSE]
  /\ owner' = "delete"
  /\ UNCHANGED <<conf, changes, script, ctl, worker, call, changed>>

DeleteVirtual ==
  /\ owner = "delete"
  /\ host' = [host EXCEPT !.exists = FALSE]
  /\ owner' = "destroy"
  /\ UNCHANGED <<conf, changes, script, ctl, worker, call, changed>>

\* An exception of either call: the entries are destroyed with the vector.
RemoveThrows ==
  /\ owner \in {"unregister", "delete"} /\ host.throws
  /\ owner' = "destroy"
  /\ UNCHANGED <<conf, changes, script, ctl, worker, call, host, changed>>

\* Mutant of Destroy: the destructor leaves the worker alone.
DestroyUndetached ==
  /\ owner \in {"destroy", "shutdown"} /\ MutexFree
  /\ ctl' = [ctl EXCEPT !.shutting = TRUE, !.alive = FALSE]
  /\ owner' = "gone"
  /\ UNCHANGED <<conf, changes, script, worker, call, host, changed>>

\* The rest of the destructor, after its DetachOpenRgbController: the script's
\* Shutdown, and the members' destructors.
Destroy ==
  /\ owner = "shutdown" /\ MutexFree
  /\ ctl' = [ctl EXCEPT !.shutting = TRUE, !.alive = FALSE]
  /\ owner' = "gone"
  /\ UNCHANGED <<conf, changes, script, worker, call, host, changed>>

-----------------------------------------------------------------------------
(* The application thread: ControllerRegistry::ApplyConfiguration and      *)
(* SignalBridgeController::SetConfigurationValue.                          *)

\* Mutant of SetConfigurationValue: the property is taken out of the pending ones
\* and not put back.
SetConfigurationValueErased(p, v) ==
  /\ owner = "recorded" /\ MutexFree /\ changed < MaxChanges
  /\ conf[p] # v
  /\ conf' = [conf EXCEPT ![p] = v]
  /\ changes' = changes \ {p}
  /\ changed' = changed + 1
  /\ UNCHANGED <<owner, script, ctl, worker, call, host>>

SetConfigurationValue(p, v) ==
  /\ owner = "recorded" /\ MutexFree /\ changed < MaxChanges
  /\ conf[p] # v
  /\ conf' = [conf EXCEPT ![p] = v]
  /\ changes' = changes \union {p}
  /\ changed' = changed + 1
  /\ UNCHANGED <<owner, script, ctl, worker, call, host>>

-----------------------------------------------------------------------------
(* The device thread: DeviceUpdateLEDs.                                    *)

CallBegin ==
  /\ host.listed /\ call.pc = "idle"
  /\ call' = [call EXCEPT !.pc = "called"]
  /\ UNCHANGED <<owner, conf, changes, script, ctl, worker, host, changed>>

CallShutDown ==
  /\ call.pc = "called" /\ ctl.shutting
  /\ call' = [call EXCEPT !.pc = "idle"]
  /\ UNCHANGED <<owner, conf, changes, script, ctl, worker, host, changed>>

\* BuildZonesFromTopology: the setup follows the script, and a host that has the
\* controller is owed an update.
Rebuilt(layout) == [ctl EXCEPT !.setup = layout, !.pending = @ \/ ctl.attached]

\* Mutant of CopyCount: as many colours as the setup has LEDs.
CopyAll(c) == IF c.attached THEN LedCount[c.setup] ELSE 0

\* min(published_led_count_, openrgb_colors.size()); nothing without a host.
CopyCount(c) == IF c.attached THEN Min(c.published, LedCount[c.setup]) ELSE 0

\* Each changed parameter is set in the script and its callback called, which may
\* throw half way; the callbacks leave the script with some topology, its own or
\* another.
DrainScript(layout) ==
  script' = [vals |-> [p \in Properties |-> IF p \in changes THEN conf[p] ELSE script.vals[p]],
             layout |-> layout, dirty |-> FALSE]

DrainTopology(layout) ==
  ctl' = IF script.dirty \/ layout # script.layout THEN Rebuilt(layout) ELSE ctl

\* Mutant of DrainChanges: the topology is looked at in every frame.
DrainAlways ==
  \E layout \in IF changes = {} THEN {script.layout} ELSE Layouts :
    DrainScript(layout) /\ DrainTopology(layout)

\* DrainPendingConfigurationChanges: only a changed parameter makes the controller
\* look at the script's topology.
DrainChanges ==
  IF changes = {}
  THEN UNCHANGED <<script, ctl>>
  ELSE \E layout \in Layouts : DrainScript(layout) /\ DrainTopology(layout)

\* The first half of DeviceUpdateLEDs, as far as SnapshotOpenRgbState; the mutex is
\* held from here to the end of Render.
Drain ==
  /\ call.pc = "called" /\ ~ctl.shutting
  /\ changes' = {}
  /\ DrainChanges
  /\ call' = [pc |-> "copying", count |-> CopyCount(ctl')]
  /\ UNCHANGED <<owner, conf, worker, host, changed>>

\* The colours are copied, the frames built and Render called.  A topology that
\* Render changes waits, dirty, for the next change of the configuration.
Render ==
  /\ call.pc = "copying"
  /\ \E layout \in Layouts :
       script' = [script EXCEPT !.layout = layout, !.dirty = @ \/ layout # script.layout]
  /\ call' = [pc |-> "idle", count |-> 0]
  /\ UNCHANGED <<owner, conf, changes, ctl, worker, host, changed>>

-----------------------------------------------------------------------------
(* TopologyUpdateWorker.                                                   *)

\* The host's list is changed with the help of the application thread (external).
NeedsServing == worker.pc \in {"unregister", "register"}

WorkerWake ==
  /\ worker.pc = "wait" /\ MutexFree /\ (ctl.stop \/ ctl.pending)
  /\ IF ctl.stop
     THEN worker' = [worker EXCEPT !.pc = "done"] /\ UNCHANGED ctl
     ELSE /\ worker' = [pc |-> IF ctl.attached THEN "unregister" ELSE "wait",
                        copy |-> ctl.setup]
          /\ ctl' = [ctl EXCEPT !.pending = FALSE]
  /\ UNCHANGED <<owner, conf, changes, script, call, host, changed>>

\* Mutant of WorkerUnregister: the host is updated with the controller listed.
WorkerLeaveListed ==
  /\ worker.pc = "unregister"
  /\ worker' = [worker EXCEPT !.pc = "update"]
  /\ UNCHANGED <<owner, conf, changes, script, ctl, call, host, changed>>

WorkerUnregister ==
  /\ worker.pc = "unregister" /\ HostQuiet /\ host.served
  /\ host' = [host EXCEPT !.listed = FALSE]
  /\ worker' = [worker EXCEPT !.pc = "update"]
  /\ UNCHANGED <<owner, conf, changes, script, ctl, call, changed>>

WorkerUpdate ==
  /\ worker.pc = "update"
  /\ host' = [host EXCEPT !.layout = worker.copy]
  /\ worker' = [worker EXCEPT !.pc = "publish"]
  /\ UNCHANGED <<owner, conf, changes, script, ctl, call, changed>>

\* Mutant of WorkerPublish: the pending update is forgotten now, not when the
\* setup was copied.
WorkerPublishAndForget ==
  /\ worker.pc = "publish" /\ MutexFree
  /\ ctl' = [ctl EXCEPT !.published = LedCount[worker.copy], !.pending = FALSE]
  /\ worker' = [worker EXCEPT !.pc = "register"]
  /\ UNCHANGED <<owner, conf, changes, script, call, host, changed>>

WorkerPublish ==
  /\ worker.pc = "publish" /\ MutexFree
  /\ ctl' = [ctl EXCEPT !.published = IF ctl.attached THEN LedCount[worker.copy] ELSE @]
  /\ worker' = [worker EXCEPT !.pc = "register"]
  /\ UNCHANGED <<owner, conf, changes, script, call, host, changed>>

WorkerRegister ==
  /\ worker.pc = "register" /\ host.served
  /\ host' = [host EXCEPT !.listed = TRUE]
  /\ worker' = [worker EXCEPT !.pc = "wait"]
  /\ UNCHANGED <<owner, conf, changes, script, ctl, call, changed>>

\* An exception of a host call is swallowed and the rest of the update skipped.
WorkerThrows ==
  /\ host.throws /\ worker.pc \in {"unregister", "update", "register"}
  /\ NeedsServing => host.served
  /\ worker' = [worker EXCEPT !.pc = "wait"]
  /\ UNCHANGED <<owner, conf, changes, script, ctl, call, host, changed>>

-----------------------------------------------------------------------------
\* The constructors have run: the runtime has its configuration and the setup is
\* the script's topology.
Init ==
  \E layout \in Layouts, vals \in [Properties -> Values], throws \in BOOLEAN :
    /\ owner = "new"
    /\ conf = vals
    /\ changes = {}
    /\ script = [vals |-> vals, layout |-> layout, dirty |-> FALSE]
    /\ ctl = [setup |-> layout, published |-> 0, attached |-> FALSE, shutting |-> FALSE,
              stop |-> FALSE, pending |-> FALSE, alive |-> TRUE]
    /\ worker = [pc |-> "none", copy |-> layout]
    /\ call = [pc |-> "idle", count |-> 0]
    /\ host = [layout |-> layout, listed |-> FALSE, exists |-> FALSE,
               throws |-> throws, served |-> TRUE]
    /\ changed = 0

Register ==
  \/ CreateVirtual \/ CreateRefused \/ AttachOpenRgbController
  \/ RegisterVirtual \/ RegisterThrows \/ CheckListed \/ CheckThrows

Remove ==
  \/ OtherThrows \/ DetachBegin \/ DetachEnd \/ UnregisterVirtual \/ DeleteVirtual
  \/ RemoveThrows \/ Destroy

Configure == \E p \in Properties, v \in Values : SetConfigurationValue(p, v)

DeviceThread == CallBegin \/ CallShutDown \/ Drain \/ Render

Worker ==
  \/ WorkerWake \/ WorkerUnregister \/ WorkerUpdate \/ WorkerPublish
  \/ WorkerRegister \/ WorkerThrows

Next == Register \/ TakeFromRegistry \/ Remove \/ Configure \/ DeviceThread \/ Worker

Spec == Init /\ [][Next]_vars

\* Every thread that can run does, a call of the device thread ends, and a thread
\* that waits for the mutex or for the host to be quiet is let in at last.  No
\* call of the device thread and no change need ever begin.
Fairness ==
  /\ SF_vars(Register) /\ SF_vars(Remove) /\ SF_vars(Worker)
  /\ WF_vars(CallShutDown \/ Drain \/ Render)

FairSpec == Spec /\ Fairness

-----------------------------------------------------------------------------
(* Properties                                                              *)

OwnerPcs == {"new", "attach", "register", "check", "recorded", "taken", "detach", "join",
             "unregister", "delete", "destroy", "lastJoin", "shutdown", "gone"}
UpdatePcs == {"unregister", "update", "publish", "register"}

TypeOK ==
  /\ owner \in OwnerPcs
  /\ conf \in [Properties -> Values]
  /\ changes \in SUBSET Properties
  /\ script \in [vals : [Properties -> Values], layout : Layouts, dirty : BOOLEAN]
  /\ ctl \in [setup : Layouts, published : Nat, attached : BOOLEAN, shutting : BOOLEAN,
              stop : BOOLEAN, pending : BOOLEAN, alive : BOOLEAN]
  /\ worker \in [pc : {"none", "wait", "done"} \union UpdatePcs, copy : Layouts]
  /\ call \in [pc : {"idle", "called", "copying"}, count : Nat]
  /\ host \in [layout : Layouts, listed : BOOLEAN, exists : BOOLEAN,
              throws : BOOLEAN, served : BOOLEAN]
  /\ changed \in Nat

\* DeviceUpdateLEDs never copies more colours than the host's buffer holds, though
\* the buffer is replaced, and published_led_count_ written, by a thread that
\* does not hold the mutex in between.
CopyStaysInBuffer ==
  call.pc = "copying" /\ ctl.attached => host.exists /\ call.count <= LedCount[host.layout]

\* The worker has ended when the controller is destroyed, whichever call of the host
\* threw, for this controller or for another entry of the registry; if none throws,
\* no call is left in it and the host keeps nothing of it.
DestroyedIsUnused ==
  ~ctl.alive => /\ worker.pc = "none"
                /\ host.throws \/ (call.pc = "idle" /\ ~host.listed /\ ~host.exists)

\* No topology is lost between the thread that changes it and the worker: while
\* the host shows another one than the setup's, the worker is owed an update or
\* is carrying the very one.
NoLostUpdate ==
  ~host.throws /\ ctl.attached /\ ~ctl.stop =>
    \/ host.layout = ctl.setup
    \/ ctl.pending
    \/ worker.pc \in {"unregister", "update"} /\ worker.copy = ctl.setup

\* What the script does not know yet of the configuration is waiting for the next
\* frame, however often a value was changed and changed back.
ChangesArePending ==
  \A p \in Properties : script.vals[p] = conf[p] \/ p \in changes

\* Register takes the controller's absence from the host's list for a refusal; the
\* worker, which takes it off the list for a moment, never makes it look so.
CheckedIsListed == owner = "check" => host.listed

\* A recorded controller is shown with the script's last topology in the end, if no
\* call of the host throws.
UpdateReachesHost ==
  ~host.throws /\ owner = "recorded" /\ host.layout # ctl.setup
    ~> owner # "recorded" \/ host.layout = ctl.setup

\* The application thread destroys a controller after an exception, and joins a worker
\* whose call of the host waits for the application thread.
Stuck == owner = "lastJoin" /\ NeedsServing /\ ~host.served

\* The removal of a controller, which waits for the worker, which waits for the
\* device thread, comes to its end; unless a host that threw for another entry of the
\* registry leaves the application thread to join a worker in the middle of an update.
RemovalEnds == owner \in {"taken", "detach"} ~> owner = "gone" \/ Stuck

=============================================================================
