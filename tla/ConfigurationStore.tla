-------------------------- MODULE ConfigurationStore --------------------------
(***************************************************************************)
(* A device's settings on their way between the file device_config.json,   *)
(* the DeviceConfigStore, the configuration pages and the controllers.     *)
(*                                                                         *)
(* The application thread changes the store, saves the file and hands the  *)
(* change to the controllers, in this order and without a lock around the  *)
(* three; the discovery worker meanwhile reads the store for a controller  *)
(* it is about to create.  The process may end between any two steps.      *)
(*                                                                         *)
(* A key of the store is a device's, ConfigKeyForDevice, or its script's,  *)
(* ConfigKeyForScript; only files from elsewhere hold settings of the      *)
(* latter.  All the devices here belong to one script.                     *)
(***************************************************************************)
CONSTANTS
  Devices,      \* the devices the discovery finds
  Keys,         \* the keys of devices
  KeyOf,        \* the key of each device; twins without a serial may share one
  Script,       \* the key of their script
  Parameters,   \* the script's control parameters
  Values,       \* the values they take
  None,         \* a parameter that has not been set
  ReadsFail,    \* whether reading the file may fail
  SavesFail,    \* whether writing it may fail
  Api           \* the OpenRGB plugin API the plugin is built for

ASSUME KeyOfAssumption == KeyOf \in [Devices -> Keys]
ASSUME ScriptAssumption == Script \notin Keys
ASSUME NoneAssumption == None \notin Values
ASSUME FailuresAssumption == ReadsFail \in BOOLEAN /\ SavesFail \in BOOLEAN
ASSUME ApiAssumption == Api \in {4, 5}

VARIABLES
  up,         \* whether the plugin is loaded
  disk,       \* device_config.json
  store,      \* store_
  unsaved,    \* whether the last attempt to read or write the file failed
  edit,       \* the change the application thread is making
  pages,      \* the keys whose configuration pages are shown
  clearing,   \* whether the status that takes the pages away is still posted
  worker,     \* where the discovery is
  building,   \* the device whose controller it creates, with its configuration
  listed,     \* the devices whose controllers are in the registry
  conf        \* configuration_ of each of them

vars == <<up, disk, store, unsaved, edit, pages, clearing, worker, building, listed, conf>>

Settings == [Parameters -> Values \cup {None}]
Stored == Keys \cup {Script}
Empty == [k \in Stored |-> [p \in Parameters |-> None]]

\* ConfigurationForDevice: the script's settings, overridden by the device's.
ConfigurationForDevice(stored, key) ==
  [p \in Parameters |-> IF stored[key][p] # None THEN stored[key][p] ELSE stored[Script][p]]

NoEdit == [step |-> "none"]

\* The calls that change an API 5 host's controller list need the application
\* thread to deliver its events, the status that clears the pages first.
HostServes == Api = 5 => edit = NoEdit /\ ~clearing

-----------------------------------------------------------------------------
(* Loading and unloading.                                                  *)

\* Load: a file that cannot be read leaves the store empty.
Load ==
  /\ ~up /\ up' = TRUE
  /\ store' \in {disk} \cup IF ReadsFail THEN {Empty} ELSE {}
  /\ unsaved' = (store' # disk)
  /\ UNCHANGED <<disk, edit, pages, clearing, worker, building, listed, conf>>

\* What is left when the plugin or the process ends: the file.
Forget ==
  /\ up' = FALSE /\ store' = Empty /\ unsaved' = FALSE
  /\ edit' = NoEdit /\ pages' = {} /\ clearing' = FALSE
  /\ worker' = "idle" /\ listed' = {}
  /\ UNCHANGED <<disk, building, conf>>

\* Unload joins the worker, deletes the controllers and resets the store and
\* the pages, all in one call of the application thread.
Unload == up /\ edit = NoEdit /\ worker \in {"idle", "done"} /\ Forget

Crash == up /\ Forget

-----------------------------------------------------------------------------
(* The discovery.                                                          *)

\* DiscoverSignalRgbDevices posts the status that clears the pages before it
\* starts the worker.
StartScan ==
  /\ up /\ edit = NoEdit /\ worker \in {"idle", "done"}
  /\ worker' = "starting"
  /\ clearing' = TRUE
  /\ UNCHANGED <<up, disk, store, unsaved, edit, pages, building, listed, conf>>

ClearPages ==
  /\ clearing /\ edit = NoEdit
  /\ clearing' = FALSE /\ pages' = {}
  /\ UNCHANGED <<up, disk, store, unsaved, edit, worker, building, listed, conf>>

\* The controllers of the last discovery go first; the host is called for each.
DeleteControllers ==
  /\ worker = "starting" /\ worker' = "matching"
  /\ listed = {} \/ HostServes
  /\ listed' = {}
  /\ UNCHANGED <<up, disk, store, unsaved, edit, pages, clearing, building, conf>>

\* Its configuration is read before the controller is created, which runs the
\* script and may take its time.
CreateController ==
  /\ worker = "matching" /\ worker' = "building"
  /\ \E d \in Devices \ listed :
       building' = [device |-> d, conf |-> ConfigurationForDevice(store, KeyOf[d])]
  /\ UNCHANGED <<up, disk, store, unsaved, edit, pages, clearing, listed, conf>>

Register ==
  /\ worker = "building" /\ worker' = "matching" /\ HostServes
  /\ listed' = listed \cup {building.device}
  /\ conf' = [conf EXCEPT ![building.device] = building.conf]
  /\ UNCHANGED <<up, disk, store, unsaved, edit, pages, clearing, building>>

CreateFails ==
  /\ worker = "building" /\ worker' = "matching"
  /\ UNCHANGED <<up, disk, store, unsaved, edit, pages, clearing, building, listed, conf>>

\* The last status, with the devices, is posted.
EndScan ==
  /\ worker = "matching" /\ worker' = "done"
  /\ UNCHANGED <<up, disk, store, unsaved, edit, pages, clearing, building, listed, conf>>

\* Statuses are handled in the order they were posted in.
ShowPages ==
  /\ worker = "done" /\ ~clearing /\ edit = NoEdit
  /\ worker' = "idle"
  /\ pages' = {KeyOf[d] : d \in listed}
  /\ UNCHANGED <<up, disk, store, unsaved, edit, clearing, building, listed, conf>>

-----------------------------------------------------------------------------
(* A change on a configuration page.                                       *)

\* Mutant of SetDeviceConfigurationValue: the device's other settings go.
SetDeviceConfigurationValueAlone ==
  /\ up /\ edit = NoEdit
  /\ \E k \in pages, p \in Parameters, v \in Values :
       /\ store[k][p] # v
       /\ store' = [store EXCEPT ![k] = [q \in Parameters |-> IF q = p THEN v ELSE None]]
       /\ edit' = [step |-> "save", key |-> k, parameter |-> p, value |-> v]
  /\ UNCHANGED <<up, disk, unsaved, pages, clearing, worker, building, listed, conf>>

\* DeviceConfigStore::SetDeviceConfigurationValue: a value the device already
\* has is neither saved nor handed on.
SetDeviceConfigurationValue ==
  /\ up /\ edit = NoEdit
  /\ \E k \in pages, p \in Parameters, v \in Values :
       /\ store[k][p] # v
       /\ store' = [store EXCEPT ![k][p] = v]
       /\ edit' = [step |-> "save", key |-> k, parameter |-> p, value |-> v]
  /\ UNCHANGED <<up, disk, unsaved, pages, clearing, worker, building, listed, conf>>

ToApply == [step |-> "apply", key |-> edit.key, parameter |-> edit.parameter, value |-> edit.value]

\* Mutant of Save: only the device that has changed is written.
SaveOneDevice ==
  /\ edit.step = "save"
  /\ disk' = [Empty EXCEPT ![edit.key] = store[edit.key]] /\ unsaved' = FALSE
  /\ edit' = ToApply
  /\ UNCHANGED <<up, store, pages, clearing, worker, building, listed, conf>>

\* Mutant of Save: the file is written and not committed.
SaveUncommitted ==
  /\ edit.step = "save"
  /\ disk' = disk /\ unsaved' = FALSE
  /\ edit' = ToApply
  /\ UNCHANGED <<up, store, pages, clearing, worker, building, listed, conf>>

\* Save: QSaveFile puts the whole store in the file's place, or leaves the file
\* as it is; the caller does not look at which.
Save ==
  /\ edit.step = "save"
  /\ \/ disk' = store /\ unsaved' = FALSE
     \/ SavesFail /\ disk' = disk /\ unsaved' = TRUE
  /\ edit' = ToApply
  /\ UNCHANGED <<up, store, pages, clearing, worker, building, listed, conf>>

\* Mutant of ApplyConfiguration: the first controller of the key gets it.
ApplyConfigurationToOne ==
  /\ edit.step = "apply"
  /\ conf' = IF \A d \in listed : KeyOf[d] # edit.key THEN conf
             ELSE [conf EXCEPT ![CHOOSE d \in listed : KeyOf[d] = edit.key][edit.parameter] = edit.value]
  /\ edit' = NoEdit
  /\ UNCHANGED <<up, disk, store, unsaved, pages, clearing, worker, building, listed>>

\* ControllerRegistry::ApplyConfiguration: every controller of the key.
ApplyConfiguration ==
  /\ edit.step = "apply"
  /\ conf' = [d \in Devices |->
                IF d \in listed /\ KeyOf[d] = edit.key
                  THEN [conf[d] EXCEPT ![edit.parameter] = edit.value] ELSE conf[d]]
  /\ edit' = NoEdit
  /\ UNCHANGED <<up, disk, store, unsaved, pages, clearing, worker, building, listed>>

-----------------------------------------------------------------------------
Init ==
  /\ up = FALSE /\ disk \in [Stored -> Settings] /\ store = Empty /\ unsaved = FALSE
  /\ edit = NoEdit /\ pages = {} /\ clearing = FALSE /\ worker = "idle"
  /\ building \in [device : Devices, conf : {Empty[Script]}]
  /\ listed = {} /\ conf = [d \in Devices |-> Empty[Script]]

Next ==
  \/ Load \/ Unload \/ Crash
  \/ StartScan \/ ClearPages \/ DeleteControllers \/ CreateController
  \/ Register \/ CreateFails \/ EndScan \/ ShowPages
  \/ SetDeviceConfigurationValue \/ Save \/ ApplyConfiguration

Spec == Init /\ [][Next]_vars

-----------------------------------------------------------------------------
(* Properties.                                                             *)

Edits == [step : {"save", "apply"}, key : Keys, parameter : Parameters, value : Values]

\* The variables keep their types; a page has the key of a device, which is
\* never the script's.
TypeOK ==
  /\ up \in BOOLEAN /\ unsaved \in BOOLEAN /\ clearing \in BOOLEAN
  /\ disk \in [Stored -> Settings] /\ store \in [Stored -> Settings]
  /\ edit \in Edits \cup {NoEdit}
  /\ pages \subseteq Keys /\ listed \subseteq Devices
  /\ worker \in {"idle", "starting", "matching", "building", "done"}
  /\ building \in [device : Devices, conf : Settings]
  /\ conf \in [Devices -> Settings]

\* When no change is on its way the file holds what the store holds, unless the
\* file could not be read or written the last time: nothing a page has set is
\* in memory only, and a restart brings it back.
FileFollowsStore == up /\ edit = NoEdit /\ ~unsaved => disk = store

\* A setting of the file, once there, may change its value but never goes,
\* whatever is set for other devices and parameters and wherever the process
\* ends.
SettingsSurvive ==
  [][\A k \in Stored, p \in Parameters : disk[k][p] # None => disk'[k][p] # None]_vars

\* No file is written before its change is in the store, and a write makes one
\* change: a crash at any point leaves the file of before or after the change.
FileChangesWithOneEdit ==
  [][disk' # disk /\ ~unsaved =>
       /\ edit.step = "save"
       /\ disk' = [disk EXCEPT ![edit.key][edit.parameter] = edit.value]]_vars

\* When no change is on its way every controller of the registry runs with the
\* settings the store has for its device: a change reaches all the controllers
\* of its key, and a controller created meanwhile has it from the start.
\* README.md says that configurations are saved and restored.
ControllersFollowStore ==
  edit = NoEdit =>
    \A d \in listed : conf[d] = ConfigurationForDevice(store, KeyOf[d])

=============================================================================
