------------------------------ MODULE HidSessions ------------------------------
(***************************************************************************)
(* The HID devices of one discovery: the worker that builds a controller   *)
(* for each, the EndpointSession each controller opens and closes, the     *)
(* calls of the scripts, and the HidBackend they all share.                *)
(*                                                                         *)
(* Every operation of the backend takes its one mutex, and a read keeps it *)
(* until the device has answered or the timeout is over.  A script runs    *)
(* under the mutex of its controller, so that a controller makes one call  *)
(* at a time and is not destroyed during one; two controllers meet only in *)
(* the backend.                                                            *)
(***************************************************************************)
EXTENDS HidEndpoints, Functions

CONSTANTS
  Layouts,      \* the lists of entries hidapi may return
  Readings(_),  \* for a list, the sets of paths whose descriptors an
                \* enumeration may be able to read
  Scripts(_),   \* how many scripts match the vendor and product of its devices
  Asked,        \* what scripts ask set_endpoint for
  NoTimeout(_)  \* whether its scripts read with a negative timeout

ASSUME LayoutsAssumption ==
  \A list \in Layouts :
    /\ list \in Seq(Range(list))
    /\ \A i \in 1..Len(list) : list[i].path \in DOMAIN Descriptor
ASSUME ScriptsAssumption == \A list \in Layouts : Scripts(list) \in Nat
\* Windows gives each collection a path and a descriptor of its own; on Linux a
\* path that can be read once can be read again.
ASSUME ReadingsAssumption ==
  \A list \in Layouts : Scripts(list) > 0 =>
    \/ \A r, s \in Readings(list) : r = s
    \/ \A i \in 1..Len(list) :
         /\ OnPath(list, i) = {i}
         /\ \A n \in 1..Len(Descriptor[list[i].path]) :
              Descriptor[list[i].path][n].collection = 0
ASSUME NoTimeoutAssumption == \A list \in Layouts : NoTimeout(list) \in BOOLEAN

VARIABLES
  devices,      \* what hidapi lists
  collections,  \* hid_devices: their collection numbers, <<>> until enumerated
  position,     \* where the loops over scripts and devices are
  building,     \* the controller under construction, 0 if none
  open_groups,  \* the devices that have a controller
  session,      \* of each controller
  next_handle,  \* HidBackend::next_handle_
  table,        \* HidBackend::devices_: the entry each handle is open on
  opened,       \* the handles whose hid_device has not been closed
  holder        \* whose call has HidBackend::mutex_, 0 if none's

worker == <<position, building, open_groups>>
backend == <<next_handle, table, opened>>
vars == <<devices, collections, position, building, open_groups, session,
          next_handle, table, opened, holder>>

-----------------------------------------------------------------------------
(* A controller is named after the round of the loops that constructs it.  *)

LastRound == Scripts(devices) * Len(devices)
Rounds == 1..LastRound
Entry(round) == ((round - 1) % Len(devices)) + 1
Group(round) == devices[Entry(round)].group

\* The key of the device the controller is constructed for, with the number
\* the enumeration of the discovery gave it.
PrimaryKey(round) == EndpointKey(devices[Entry(round)], collections[Entry(round)])

Constructing == {"opening", "collecting", "endpoints", "initializing"}
Running == {"initializing", "live", "shutdown"}

NoSession ==
  [phase |-> "none",     \* how far the controller is
   handles |-> <<>>,     \* endpoint_handles_, by key
   advertised |-> {},    \* endpoints_
   todo |-> {},          \* the endpoints still to open
   active |-> NoHandle,  \* active_handle of the runtime
   closing |-> NoHandle, \* the handle whose hid_device is being closed
   call |-> "none"]      \* what its script is doing

Init ==
  /\ devices \in Layouts
  /\ collections = <<>>
  /\ position = 1 /\ building = 0 /\ open_groups = {}
  /\ session = [round \in Rounds |-> NoSession]
  /\ next_handle = 1 /\ table = <<>> /\ opened = {} /\ holder = 0

MutexIsFree == holder = 0

-----------------------------------------------------------------------------
(* DiscoveryService::Discover.                                             *)

Enumerate ==
  /\ collections = <<>> /\ MutexIsFree
  /\ \E readable \in Readings(devices) : collections' = AssignCollectionIndices(devices, readable)
  /\ UNCHANGED <<devices, worker, session, backend, holder>>

Matches == collections # <<>> /\ building = 0 /\ position \in Rounds

\* The device has its controller already, or Validate refuses it.
PassOver ==
  /\ Matches
  /\ position' = position + 1
  /\ UNCHANGED <<devices, collections, building, open_groups, session, backend, holder>>

\* Mutant of Construct: every script that matches gets the device.
ConstructAgain ==
  /\ Matches
  /\ building' = position
  /\ session' = [session EXCEPT ![position].phase = "opening"]
  /\ UNCHANGED <<devices, collections, position, open_groups, backend, holder>>

Construct ==
  /\ Matches /\ Group(position) \notin open_groups
  /\ building' = position
  /\ session' = [session EXCEPT ![position].phase = "opening"]
  /\ UNCHANGED <<devices, collections, position, open_groups, backend, holder>>

\* The discovery is stale and returns.
Abort ==
  /\ Matches
  /\ position' = LastRound + 1
  /\ UNCHANGED <<devices, collections, building, open_groups, session, backend, holder>>

NextRound == building' = 0 /\ position' = position + 1

-----------------------------------------------------------------------------
(* EndpointSession::Open and the rest of the controller's constructor.     *)

\* HidBackend::OpenPath: the handle of a new hid_device.
OpenPath(entry) ==
  /\ next_handle' = next_handle + 1
  /\ table' = [h \in DOMAIN table \cup {next_handle} |->
                 IF h = next_handle THEN entry ELSE table[h]]
  /\ opened' = opened \cup {next_handle}

WithHandle(handles, key) ==
  [k \in DOMAIN handles \cup {key} |-> IF k = key THEN next_handle ELSE handles[k]]

OpenPrimary(c) ==
  /\ session[c].phase = "opening" /\ MutexIsFree
  /\ OpenPath(Entry(c))
  /\ session' = [session EXCEPT ![c].phase = "collecting",
                                ![c].handles = WithHandle(<<>>, PrimaryKey(c))]
  /\ UNCHANGED <<devices, collections, worker, holder>>

\* The constructor throws: there is nothing to close.
OpenPrimaryFails(c) ==
  /\ session[c].phase = "opening" /\ MutexIsFree
  /\ session' = [session EXCEPT ![c].phase = "gone"]
  /\ NextRound
  /\ UNCHANGED <<devices, collections, open_groups, backend, holder>>

\* An endpoint to open: the primary one first, the others in the order of the list.
Endpoint(i, key) == [place |-> i, entry |-> i, key |-> key]
Primary(c) == [place |-> 0, entry |-> Entry(c), key |-> PrimaryKey(c)]

\* Mutant of CollectEndpoints: a path is listed once.
CollectEndpointsByPath(c) ==
  /\ session[c].phase = "collecting" /\ MutexIsFree
  /\ \E readable \in Readings(devices) :
       LET numbers == AssignCollectionIndices(devices, readable)
           added == {i \in 1..Len(devices) : devices[i].group = Group(c)
                                             /\ devices[i].path # devices[Entry(c)].path}
       IN session' = [session EXCEPT ![c].phase = "endpoints",
                        ![c].todo = {Primary(c)} \cup
                          {Endpoint(i, EndpointKey(devices[i], numbers[i])) : i \in added}]
  /\ UNCHANGED <<devices, collections, worker, backend, holder>>

\* HidBackend::CollectEndpoints enumerates again: the primary device, and the
\* entries of its group whose keys are not in the list.
CollectEndpoints(c) ==
  /\ session[c].phase = "collecting" /\ MutexIsFree
  /\ \E readable \in Readings(devices) :
       LET numbers == AssignCollectionIndices(devices, readable)
           Key(i) == EndpointKey(devices[i], numbers[i])
           added == {i \in 1..Len(devices) :
                       /\ devices[i].group = Group(c) /\ Key(i) # PrimaryKey(c)
                       /\ \A j \in 1..i - 1 : devices[j].group = Group(c) => Key(j) # Key(i)}
       IN session' = [session EXCEPT ![c].phase = "endpoints",
                        ![c].todo = {Primary(c)} \cup {Endpoint(i, Key(i)) : i \in added}]
  /\ UNCHANGED <<devices, collections, worker, backend, holder>>

IsNext(c, item) ==
  /\ session[c].phase = "endpoints" /\ item \in session[c].todo
  /\ \A other \in session[c].todo : item.place <= other.place

\* It is listed for the script whether or not it is open, and can be opened.
Listed(c, item) ==
  [session[c] EXCEPT !.advertised = @ \cup {item.key}, !.todo = @ \ {item}]

OpenEndpoint(c) ==
  \E item \in session[c].todo :
    /\ IsNext(c, item)
    /\ \/ /\ item.key \in DOMAIN session[c].handles
          /\ session' = [session EXCEPT ![c] = Listed(c, item)]
          /\ UNCHANGED backend
       \/ /\ item.key \notin DOMAIN session[c].handles /\ MutexIsFree
          /\ OpenPath(item.entry)
          /\ session' = [session EXCEPT ![c] =
               [Listed(c, item) EXCEPT !.handles = WithHandle(@, item.key)]]
    /\ UNCHANGED <<devices, collections, worker, holder>>

OpenEndpointFails(c) ==
  \E item \in session[c].todo :
    /\ IsNext(c, item) /\ MutexIsFree
    /\ item.key \notin DOMAIN session[c].handles
    /\ session' = [session EXCEPT ![c] = Listed(c, item)]
    /\ UNCHANGED <<devices, collections, worker, backend, holder>>

\* CreateRuntime, and InitializeScript's call of Initialize.
StartScript(c) ==
  /\ session[c].phase = "endpoints" /\ session[c].todo = {}
  /\ session' = [session EXCEPT ![c].phase = "initializing", ![c].call = "script",
                                ![c].active = session[c].handles[PrimaryKey(c)]]
  /\ UNCHANGED <<devices, collections, worker, backend, holder>>

\* The host lists the controller: its device is taken.
Registered(c) ==
  /\ session[c].phase = "initializing" /\ session[c].call = "script"
  /\ session' = [session EXCEPT ![c].phase = "live", ![c].call = "none"]
  /\ open_groups' = open_groups \cup {Group(c)}
  /\ NextRound
  /\ UNCHANGED <<devices, collections, backend, holder>>

\* Mutant of ConstructionFails: nobody closes the session.
ConstructionFailsOpen(c) ==
  /\ session[c].phase = "initializing" /\ session[c].call = "script"
  /\ session' = [session EXCEPT ![c].phase = "gone", ![c].call = "none"]
  /\ NextRound
  /\ UNCHANGED <<devices, collections, open_groups, backend, holder>>

\* The script cannot be loaded or Initialize throws: the session is destroyed,
\* without Shutdown.  If Register fails the whole controller is.
ConstructionFails(c) ==
  /\ session[c].phase = "initializing" /\ session[c].call = "script"
  /\ \/ session' = [session EXCEPT ![c].phase = "closing", ![c].call = "none",
                                   ![c].active = NoHandle]
     \/ session' = [session EXCEPT ![c].phase = "shutdown"]
  /\ UNCHANGED <<devices, collections, worker, backend, holder>>

-----------------------------------------------------------------------------
(* The destructor.                                                         *)

\* Mutant of Delete: the destructor does not wait for the controller's mutex.
DeleteDuringCall(c) ==
  /\ session[c].phase = "live"
  /\ session' = [session EXCEPT ![c].phase = "closing"]
  /\ UNCHANGED <<devices, collections, worker, backend, holder>>

Delete(c) ==
  /\ session[c].phase = "live" /\ session[c].call = "none"
  /\ session' = [session EXCEPT ![c].phase = "shutdown", ![c].call = "script"]
  /\ UNCHANGED <<devices, collections, worker, backend, holder>>

ShutdownEnds(c) ==
  /\ session[c].phase = "shutdown" /\ session[c].call = "script"
  /\ session' = [session EXCEPT ![c].phase = "closing", ![c].call = "none",
                                ![c].active = NoHandle]
  /\ UNCHANGED <<devices, collections, worker, backend, holder>>

\* EndpointSession::Close, one handle after the other: HidBackend::Close takes
\* it from the table under the mutex, and closes the hid_device without it.
CloseNext(c) ==
  /\ session[c].phase = "closing" /\ session[c].closing = NoHandle /\ MutexIsFree
  /\ \E key \in DOMAIN session[c].handles :
       LET handle == session[c].handles[key]
       IN /\ session' = [session EXCEPT ![c].closing = handle,
                                        ![c].handles = Restrict(@, DOMAIN @ \ {key})]
          /\ table' = Restrict(table, DOMAIN table \ {handle})
  /\ UNCHANGED <<devices, collections, worker, next_handle, opened, holder>>

HidClose(c) ==
  /\ session[c].closing # NoHandle
  /\ opened' = opened \ {session[c].closing}
  /\ session' = [session EXCEPT ![c].closing = NoHandle]
  /\ UNCHANGED <<devices, collections, worker, next_handle, table, holder>>

\* A controller that was never registered was the worker's.
Closed(c) ==
  /\ session[c].phase = "closing" /\ session[c].closing = NoHandle
  /\ session[c].handles = <<>>
  /\ session' = [session EXCEPT ![c] = [NoSession EXCEPT !.phase = "gone"]]
  /\ IF building = c THEN NextRound ELSE UNCHANGED <<building, position>>
  /\ UNCHANGED <<devices, collections, open_groups, backend, holder>>

-----------------------------------------------------------------------------
(* The scripts.                                                            *)

\* DeviceUpdateLEDs takes the controller's mutex and calls the script.
BeginCall(c) ==
  /\ session[c].phase = "live" /\ session[c].call = "none"
  /\ session' = [session EXCEPT ![c].call = "script"]
  /\ UNCHANGED <<devices, collections, worker, backend, holder>>

EndCall(c) ==
  /\ session[c].phase = "live" /\ session[c].call = "script"
  /\ session' = [session EXCEPT ![c].call = "none"]
  /\ UNCHANGED <<devices, collections, worker, backend, holder>>

SetEndpoint(c) ==
  /\ session[c].call = "script"
  /\ \E asked \in Asked :
       LET handle == FindEndpointHandle(session[c].handles, asked)
       IN /\ handle # NoHandle
          /\ session' = [session EXCEPT ![c].active = handle]
  /\ UNCHANGED <<devices, collections, worker, backend, holder>>

\* A write, a read, a feature report or a flush: it waits for the mutex.
BeginTransfer(c) ==
  /\ session[c].call = "script" /\ session[c].active # NoHandle
  /\ session' = [session EXCEPT ![c].call = "waiting"]
  /\ UNCHANGED <<devices, collections, worker, backend, holder>>

\* DeviceLocked finds the hid_device; a read may have no timeout.
Transfer(c) ==
  /\ session[c].call = "waiting" /\ MutexIsFree
  /\ session[c].active \in DOMAIN table
  /\ \E how \in {"transfer"} \cup (IF NoTimeout(devices) THEN {"blocked"} ELSE {}) :
       session' = [session EXCEPT ![c].call = how]
  /\ holder' = c
  /\ UNCHANGED <<devices, collections, worker, backend>>

\* Mutant of TransferEnds: a call that fails keeps the mutex.
TransferEndsLocked(c) ==
  /\ session[c].call \in {"transfer", "blocked"}
  /\ session' = [session EXCEPT ![c].call = "script"]
  /\ holder' \in {0, holder}
  /\ UNCHANGED <<devices, collections, worker, backend>>

\* hidapi answers, with data or an error.
TransferEnds(c) ==
  /\ session[c].call \in {"transfer", "blocked"}
  /\ session' = [session EXCEPT ![c].call = "script"]
  /\ holder' = 0
  /\ UNCHANGED <<devices, collections, worker, backend>>

-----------------------------------------------------------------------------

\* The steps that wait for the mutex of the backend.
UnderMutex(c) ==
  \/ OpenPrimary(c) \/ OpenPrimaryFails(c) \/ CollectEndpoints(c)
  \/ OpenEndpoint(c) \/ OpenEndpointFails(c) \/ CloseNext(c) \/ Transfer(c)

Controller(c) ==
  \/ UnderMutex(c)
  \/ StartScript(c) \/ Registered(c) \/ ConstructionFails(c)
  \/ Delete(c) \/ ShutdownEnds(c) \/ HidClose(c) \/ Closed(c)
  \/ BeginCall(c) \/ EndCall(c) \/ SetEndpoint(c) \/ BeginTransfer(c) \/ TransferEnds(c)

Next ==
  \/ Enumerate \/ PassOver \/ Construct \/ Abort
  \/ \E c \in Rounds : Controller(c)

\* The operating system gives every thread that waits for the mutex its turn;
\* a call of hidapi with a timeout returns; code that waits for nothing runs on.
\* Nothing is assumed of scripts, of the host, or of a read without a timeout.
Controllers == 1..Max({Scripts(list) * Len(list) : list \in Layouts})

Fairness ==
  \A c \in Controllers :
    /\ SF_vars(c \in Rounds /\ UnderMutex(c))
    /\ WF_vars(c \in Rounds /\ session[c].call = "transfer" /\ TransferEnds(c))
    /\ WF_vars(c \in Rounds /\ (StartScript(c) \/ HidClose(c) \/ Closed(c)))

Spec == Init /\ [][Next]_vars
FairSpec == Spec /\ Fairness

-----------------------------------------------------------------------------
(* Properties.                                                             *)

TypeOK ==
  /\ devices \in Layouts
  /\ collections = <<>> \/ DOMAIN collections = 1..Len(devices)
  /\ position \in 1..LastRound + 1 /\ building \in Rounds \cup {0}
  /\ open_groups \subseteq {Group(c) : c \in Rounds}
  /\ \A c \in Rounds :
       /\ session[c].phase \in Constructing \cup Running \cup {"none", "closing", "gone"}
       /\ session[c].call \in {"none", "script", "waiting", "transfer", "blocked"}
       /\ session[c].active \in 0..next_handle - 1
       /\ Range(session[c].handles) \subseteq 1..next_handle - 1
  /\ next_handle \in Nat /\ DOMAIN table \subseteq opened
  /\ Range(table) \subseteq 1..Len(devices)
  /\ opened \subseteq 1..next_handle - 1
  /\ holder \in Rounds \cup {0}

\* Every handle of the backend is the handle of one endpoint of one session,
\* and every hid_device is in the table or about to be closed by the session
\* that took it out: none is left open when an endpoint cannot be opened, a
\* script fails or a controller is deleted, and none is closed twice
\* (EndpointSession::Open and Close, HidBackend::Close).
HandlesAreOwned ==
  /\ \A c \in Rounds : IsInjective(session[c].handles)
  /\ \A c, d \in Rounds : c # d =>
       Range(session[c].handles) \cap Range(session[d].handles) = {}
  /\ \A c \in Rounds : session[c].phase \in {"none", "gone"} => session[c].handles = <<>>
  /\ DOMAIN table = UNION {Range(session[c].handles) : c \in Rounds}
  /\ opened = DOMAIN table \cup ({session[c].closing : c \in Rounds} \ {NoHandle})

\* A call that waits for the backend, or is in it, is for a device that is open
\* and the controller's own: the session outlives the calls, whatever other
\* sessions open and close meanwhile (DeviceLocked never throws).
CallsFindTheirDevice ==
  \A c \in Rounds : session[c].call \in {"waiting", "transfer", "blocked"} =>
    /\ session[c].active \in DOMAIN table \cap opened
    /\ devices[table[session[c].active]].group = Group(c)

\* A device is open for one controller at a time, though it is listed once per
\* collection and matched by several scripts, whose attempts may fail after
\* they have opened it (DiscoveryService::Discover, open_groups).
OneControllerPerDevice ==
  \A c, d \in Rounds :
    /\ c # d /\ Group(c) = Group(d)
    /\ session[c].handles # <<>> /\ session[d].handles # <<>>
    => FALSE

\* A script is told of each collection of its device once, although the session
\* enumerates again, and perhaps reads other descriptors, after the discovery
\* has numbered the device it is given (AssignCollectionIndices, EndpointKey,
\* CollectEndpoints).
EndpointsAreComplete ==
  \A c \in Rounds : session[c].phase \in Running =>
    /\ Cardinality(session[c].advertised)
         = Cardinality({i \in 1..Len(devices) : devices[i].group = Group(c)})
    /\ IsInjective([h \in Range(session[c].handles) |-> table[h]])

\* set_endpoint refuses an endpoint of which several are open that agree with
\* all the script says of it: the looser searches do not find one among them
\* (FindEndpointHandle).
AmbiguousIsRejected ==
  \A c \in Rounds : \A asked \in Asked :
    /\ asked \notin DOMAIN session[c].handles
    /\ Cardinality(Matching(session[c].handles, asked, FALSE, FALSE)) > 1
    => FindEndpointHandle(session[c].handles, asked) = NoHandle

\* set_endpoint refuses an endpoint the script was told of and that could not
\* be opened (tests/SignalBridgeCoreTests.cpp, "set_endpoint rejects an
\* unavailable collection").
UnavailableIsRejected ==
  \A c \in Rounds : session[c].phase \in Running =>
    \A key \in session[c].advertised \ DOMAIN session[c].handles :
      FindEndpointHandle(session[c].handles, key) = NoHandle

\* The collections of a path whose descriptor is read are as far apart as they
\* are in the descriptor, in whatever order hidapi lists them
\* (AssignCollectionIndices, ParseHidTopLevelCollections).
NumbersFollowDescriptors ==
  collections # <<>> =>
    \A entry \in 1..Len(devices) :
      LET path == devices[entry].path
          onPath == OnPath(devices, entry)
          descriptor == Descriptor[path]
          place == [i \in onPath |->
                      {descriptor[n].collection : n \in {m \in 1..Len(descriptor) :
                         /\ descriptor[m].usage = devices[i].usage
                         /\ descriptor[m].page = devices[i].page}}]
          clear == /\ \A readable \in Readings(devices) : path \in readable
                   /\ \A i \in onPath : Cardinality(place[i]) = 1
                   /\ \A i, j \in onPath : i # j => place[i] # place[j]
      IN clear => \A i, j \in onPath : \A m \in place[i], n \in place[j] :
                    collections[i] - collections[j] = m - n

IsAt(c, phases) == c \in Rounds /\ session[c].phase \in phases

\* A session that is being opened is opened or given up, and one that is being
\* closed is closed, however much other scripts use the backend, if their reads
\* have a timeout.
SessionsEnd ==
  ~NoTimeout(devices) =>
    \A c \in Controllers :
      /\ IsAt(c, {"opening", "collecting", "endpoints"}) ~> IsAt(c, {"initializing", "gone"})
      /\ IsAt(c, {"closing"}) ~> IsAt(c, {"gone"})

=============================================================================
