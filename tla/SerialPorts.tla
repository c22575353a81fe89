------------------------------ MODULE SerialPorts ------------------------------
(***************************************************************************)
(* The serial ports of the machine and the scripts that use them: the      *)
(* discoveries that give each port with a vendor and product one           *)
(* controller, and the module @SignalRGB/serial, through which a script    *)
(* connects to its own port or to any other one.                           *)
(*                                                                         *)
(* A script runs under the mutex of its controller, one call at a time.    *)
(* Scripts meet only at the ports: nothing in the plugin keeps two of them *)
(* from one port, and whether a port that is open can be opened again is   *)
(* left to the system.  Ports are plugged in and out at any time.          *)
(***************************************************************************)
EXTENDS Naturals, Sequences, FiniteSets, Functions

CONSTANTS
  Ports,         \* the names of ports
  IdOf,          \* the vendor and product of each port, NoId if it has none
  NoId, NoPort,
  Pids,          \* of each script, in the order of the scan, the products it lists
  MaxReplugs,    \* bound: ports plugged in or out
  MaxClearings   \* bound: how often the registry is cleared

ASSUME PidsAssumption == Pids \in Seq(Seq(Range(IdOf) \ {NoId}))
ASSUME PortsAssumption == NoPort \notin Ports /\ IsFiniteSet(Ports)
ASSUME BoundsAssumption == MaxReplugs \in Nat /\ MaxClearings \in Nat

Scripts == 1..Len(Pids)

\* A controller is named after the script and the port it is constructed for.
Controllers == Scripts \X Ports
Primary(c) == c[2]

VARIABLES
  plugged,   \* the ports the system lists
  held,      \* which controllers' connections have which ports open
  ctl,       \* each controller, with its runtime
  scan,      \* the discovery: where its loops are
  claimed,   \* open_serial_ports: the ports that have a controller
  refused,   \* of this discovery: the attempts that failed
  replugs, clearings   \* how much of the bounds is used

vars == <<plugged, held, ctl, scan, claimed, refused, replugs, clearings>>

NoController ==
  [phase |-> "none",     \* how far the controller is
   call |-> "none",      \* what its script is doing
   active |-> NoPort,    \* active_serial
   conn |-> NoPort,      \* the port of serial_connection, NoPort without one
   target |-> NoPort]    \* the port connect has resolved

NoScan == [pc |-> "idle", list |-> <<>>, script |-> 1, pid |-> 0, rest |-> <<>>]

Init ==
  /\ plugged \in SUBSET Ports
  /\ held = {}
  /\ ctl = [c \in Controllers |-> NoController]
  /\ scan = NoScan
  /\ claimed = {} /\ refused = {}
  /\ replugs = 0 /\ clearings = 0

discovery == <<scan, claimed, refused>>
bounds == <<replugs, clearings>>

Exists(c) == ctl[c].phase \in {"building", "live", "ending"}

\* The connection of a controller, if it has one that is open, is closed.
Closed(c) == {h \in held : h[1] # c}

-----------------------------------------------------------------------------
(* The registry and the loops of DiscoveryService::Discover.               *)

\* UnregisterAndDeleteControllers, with which a discovery begins and the plugin
\* ends; a discovery that is stale returns before an attempt.
Clear ==
  /\ scan.pc \in {"idle", "matching", "done"} /\ clearings < MaxClearings
  /\ scan' = [NoScan EXCEPT !.pc = "clearing"]
  /\ clearings' = clearings + 1
  /\ UNCHANGED <<plugged, held, ctl, claimed, refused, replugs>>

\* The ports are listed, in the order of the system.  After the last clearing the
\* plugin is unloaded.
Enumerate ==
  /\ scan.pc = "clearing" /\ clearings < MaxClearings
  /\ \A c \in Controllers : ~Exists(c)
  /\ \E list \in [1..Cardinality(plugged) -> plugged] :
       /\ IsInjective(list)
       /\ scan' = [NoScan EXCEPT !.pc = "matching", !.list = list]
  /\ claimed' = {} /\ refused' = {}
  /\ UNCHANGED <<plugged, held, ctl, bounds>>

\* The next product of the script: the loop goes over the whole list again.
NextProduct ==
  /\ scan.pc = "matching" /\ scan.rest = <<>>
  /\ scan.script \in Scripts /\ scan.pid < Len(Pids[scan.script])
  /\ scan' = [scan EXCEPT !.pid = @ + 1, !.rest = scan.list]
  /\ UNCHANGED <<plugged, held, ctl, claimed, refused, bounds>>

NextScript ==
  /\ scan.pc = "matching" /\ scan.rest = <<>>
  /\ scan.script \in Scripts => scan.pid = Len(Pids[scan.script])
  /\ scan' = IF scan.script \in Scripts
             THEN [scan EXCEPT !.script = @ + 1, !.pid = 0]
             ELSE [scan EXCEPT !.pc = "done"]
  /\ UNCHANGED <<plugged, held, ctl, claimed, refused, bounds>>

AtPort == scan.pc = "matching" /\ scan.rest # <<>>
Attempt == <<scan.script, Head(scan.rest)>>
HasProduct == IdOf[Head(scan.rest)] = Pids[scan.script][scan.pid]

PassOver ==
  /\ AtPort /\ (HasProduct => Head(scan.rest) \in claimed)
  /\ scan' = [scan EXCEPT !.rest = Tail(@)]
  /\ UNCHANGED <<plugged, held, ctl, claimed, refused, bounds>>

\* The runtime of a new controller: the script's top level and Initialize run.
NewController(c) == [NoController EXCEPT !.phase = "building", !.call = "script",
                                         !.active = Primary(c)]

\* Mutant of Construct: a port that has its controller is given to the next script.
ConstructAgain ==
  /\ AtPort /\ HasProduct
  /\ ctl' = [ctl EXCEPT ![Attempt] = NewController(Attempt)]
  /\ scan' = [scan EXCEPT !.pc = "constructing"]
  /\ UNCHANGED <<plugged, held, claimed, refused, bounds>>

\* Mutant of Construct: the port is taken before the attempt has succeeded.
ConstructAndClaim ==
  /\ AtPort /\ HasProduct /\ Head(scan.rest) \notin claimed
  /\ ctl' = [ctl EXCEPT ![Attempt] = NewController(Attempt)]
  /\ scan' = [scan EXCEPT !.pc = "constructing"]
  /\ claimed' = claimed \cup {Head(scan.rest)}
  /\ UNCHANGED <<plugged, held, refused, bounds>>

Construct ==
  /\ AtPort /\ HasProduct /\ Head(scan.rest) \notin claimed
  /\ ctl' = [ctl EXCEPT ![Attempt] = NewController(Attempt)]
  /\ scan' = [scan EXCEPT !.pc = "constructing"]
  /\ UNCHANGED <<plugged, held, claimed, refused, bounds>>

NextPort == scan' = [scan EXCEPT !.pc = "matching", !.rest = Tail(@)]

Building(c) == ctl[c].phase = "building" /\ ctl[c].call = "script"

Registered(c) ==
  /\ Building(c)
  /\ ctl' = [ctl EXCEPT ![c].phase = "live", ![c].call = "none"]
  /\ claimed' = claimed \cup {Primary(c)}
  /\ NextPort
  /\ UNCHANGED <<plugged, held, refused, bounds>>

\* Mutant of ConstructionFails: the connection outlives the runtime.
ConstructionFailsOpen(c) ==
  /\ Building(c)
  /\ ctl' = [ctl EXCEPT ![c] = [NoController EXCEPT !.phase = "gone"]]
  /\ refused' = refused \cup {c}
  /\ NextPort
  /\ UNCHANGED <<plugged, held, claimed, bounds>>

\* The script cannot be loaded or throws: the runtime is destroyed, and the
\* connection with its callback state, without a call of Shutdown.
ConstructionFails(c) ==
  /\ Building(c)
  /\ held' = Closed(c)
  /\ ctl' = [ctl EXCEPT ![c] = [NoController EXCEPT !.phase = "gone"]]
  /\ refused' = refused \cup {c}
  /\ NextPort
  /\ UNCHANGED <<plugged, claimed, bounds>>

\* Register gives the controller up, and it is destroyed.
RegisterFails(c) ==
  /\ Building(c)
  /\ ctl' = [ctl EXCEPT ![c].phase = "ending"]
  /\ refused' = refused \cup {c}
  /\ UNCHANGED <<plugged, held, scan, claimed, bounds>>

\* The host lets go of the controller when no call is left in it; the registry
\* ends one after the other.
Unregister(c) ==
  /\ scan.pc = "clearing" /\ ctl[c].phase = "live" /\ ctl[c].call = "none"
  /\ \A other \in Controllers : ctl[other].phase # "ending"
  /\ ctl' = [ctl EXCEPT ![c].phase = "ending", ![c].call = "script"]
  /\ UNCHANGED <<plugged, held, discovery, bounds>>

\* Mutant of Destroyed: the connection outlives the runtime.
DestroyedOpen(c) ==
  /\ ctl[c].phase = "ending" /\ ctl[c].call = "script"
  /\ ctl' = [ctl EXCEPT ![c] = [NoController EXCEPT !.phase = "gone"]]
  /\ IF scan.pc = "constructing" THEN NextPort ELSE UNCHANGED scan
  /\ UNCHANGED <<plugged, held, claimed, refused, bounds>>

\* ~SignalBridgeController after its call of Shutdown, in which the script may
\* still use its port.
Destroyed(c) ==
  /\ ctl[c].phase = "ending" /\ ctl[c].call = "script"
  /\ held' = Closed(c)
  /\ ctl' = [ctl EXCEPT ![c] = [NoController EXCEPT !.phase = "gone"]]
  /\ IF scan.pc = "constructing" THEN NextPort ELSE UNCHANGED scan
  /\ UNCHANGED <<plugged, claimed, refused, bounds>>

-----------------------------------------------------------------------------
(* The scripts.                                                            *)

\* DeviceUpdateLEDs calls Render.
BeginCall(c) ==
  /\ ctl[c].phase = "live" /\ ctl[c].call = "none"
  /\ ctl' = [ctl EXCEPT ![c].call = "script"]
  /\ UNCHANGED <<plugged, held, discovery, bounds>>

EndCall(c) ==
  /\ ctl[c].phase = "live" /\ ctl[c].call = "script"
  /\ ctl' = [ctl EXCEPT ![c].call = "none"]
  /\ UNCHANGED <<plugged, held, discovery, bounds>>

\* SerialConnection::IsOpen: a port that is pulled out stays open until a
\* transfer fails.
IsOpen(c) == <<c, ctl[c].conn>> \in held

\* serial.getPortName, and the port of serial.getDeviceInfo without a name.
PortName(c) == IF IsOpen(c) THEN ctl[c].conn ELSE ctl[c].active
DeviceInfo(c) == IF ctl[c].active # NoPort THEN ctl[c].active ELSE Primary(c)

\* ResolveSerialPort: a port by its name, if it is there, or without a name the
\* controller's own, there or not.
Resolvable(c) == plugged \cup {Primary(c)}

\* serial.connect, as far as the old port: connected to the same one, it returns
\* true and keeps the options it has.
Connect(c, port) ==
  /\ ctl[c].call = "script" /\ port \in Resolvable(c)
  /\ ~(IsOpen(c) /\ ctl[c].active = port)
  /\ held' = Closed(c)
  /\ ctl' = [ctl EXCEPT ![c].call = "connecting", ![c].target = port,
                        ![c].conn = IF IsOpen(c) THEN NoPort ELSE @]
  /\ UNCHANGED <<plugged, discovery, bounds>>

\* SerialBackend::Open, and connect's last assignments.
OpenPort(c) ==
  /\ ctl[c].call = "connecting" /\ ctl[c].target \in plugged
  /\ held' = held \cup {<<c, ctl[c].target>>}
  /\ ctl' = [ctl EXCEPT ![c].call = "script", ![c].conn = ctl[c].target,
                        ![c].active = ctl[c].target, ![c].target = NoPort]
  /\ UNCHANGED <<plugged, discovery, bounds>>

\* The port is gone, or refuses.  A connection that failed earlier stays.
OpenFails(c) ==
  /\ ctl[c].call = "connecting"
  /\ ctl' = [ctl EXCEPT ![c].call = "script", ![c].target = NoPort]
  /\ UNCHANGED <<plugged, held, discovery, bounds>>

Disconnect(c) ==
  /\ ctl[c].call = "script" /\ ctl[c].conn # NoPort
  /\ held' = Closed(c)
  /\ ctl' = [ctl EXCEPT ![c].conn = NoPort]
  /\ UNCHANGED <<plugged, discovery, bounds>>

\* SerialConnection::Write or Read fails and closes the port; the connection
\* stays where it is.
TransferFails(c) ==
  /\ ctl[c].call = "script" /\ IsOpen(c)
  /\ held' = Closed(c)
  /\ UNCHANGED <<plugged, ctl, discovery, bounds>>

-----------------------------------------------------------------------------

\* The system: a port is plugged in, or pulled out (external).
Replug(p) ==
  /\ replugs < MaxReplugs
  /\ plugged' = IF p \in plugged THEN plugged \ {p} ELSE plugged \cup {p}
  /\ replugs' = replugs + 1
  /\ UNCHANGED <<held, ctl, discovery, clearings>>

Discovery ==
  \/ Clear \/ Enumerate \/ NextProduct \/ NextScript \/ PassOver \/ Construct
  \/ \E c \in Controllers : Registered(c) \/ ConstructionFails(c) \/ RegisterFails(c)
                            \/ Unregister(c) \/ Destroyed(c)

Script(c) ==
  \/ BeginCall(c) \/ EndCall(c) \/ OpenPort(c) \/ OpenFails(c)
  \/ Disconnect(c) \/ TransferFails(c) \/ \E port \in Ports : Connect(c, port)

Next ==
  \/ Discovery
  \/ \E c \in Controllers : Script(c)
  \/ \E p \in Ports : Replug(p)

Spec == Init /\ [][Next]_vars

\* Some script that is called returns at last, whatever the others do; so does
\* the opening of a port; and the registry, let in by the host again and again,
\* goes on.  No discovery and no call need ever begin.
Fairness ==
  /\ WF_vars(\E c \in Controllers : OpenPort(c) \/ OpenFails(c))
  /\ SF_vars(\E c \in Controllers : EndCall(c))
  /\ SF_vars(\E c \in Controllers : Unregister(c))
  /\ SF_vars(\E c \in Controllers : Destroyed(c))

FairSpec == Spec /\ Fairness

-----------------------------------------------------------------------------
(* Properties                                                              *)

Phases == {"none", "building", "live", "ending", "gone"}

TypeOK ==
  /\ plugged \in SUBSET Ports
  /\ held \in SUBSET (Controllers \X Ports)
  /\ ctl \in [Controllers -> [phase : Phases, call : {"none", "script", "connecting"},
                              active : Ports \cup {NoPort}, conn : Ports \cup {NoPort},
                              target : Ports \cup {NoPort}]]
  /\ scan \in [pc : {"idle", "clearing", "matching", "constructing", "done"},
               list : Seq(Ports), script : 1..Len(Pids) + 1, pid : Nat, rest : Seq(Ports)]
  /\ claimed \in SUBSET Ports
  /\ refused \in SUBSET Controllers
  /\ replugs \in Nat /\ clearings \in Nat

\* No port stays open when its script is gone, whether the script disconnected,
\* threw in the middle of a call or was never registered; and a script has one
\* port open at most, the one that getPortName and getDeviceInfo name.
HeldPortIsActive ==
  \A h \in held : Exists(h[1]) /\ PortName(h[1]) = h[2] /\ DeviceInfo(h[1]) = h[2]

\* Scripts that match the same ports, a script that lists a product twice, and
\* attempts that fail half way never give a port two controllers.
OneControllerPerPort ==
  \A c, d \in Controllers : Exists(c) /\ Exists(d) /\ Primary(c) = Primary(d) => c = d

\* A port whose attempt failed is left to the next script that matches: in the end
\* it has a controller, or all have failed on it.
NoPortIsForgotten ==
  scan.pc = "done" =>
    \A s \in Scripts, p \in Range(scan.list) :
      IdOf[p] \in Range(Pids[s]) =>
        \/ <<s, p>> \in refused
        \/ \E c \in Controllers : ctl[c].phase = "live" /\ Primary(c) = p

\* The removal of the controllers, which waits for the scripts' calls, closes every
\* port they have, though their Shutdown may still open one.
PortsAreFreed == scan.pc = "clearing" ~> held = {}

=============================================================================
