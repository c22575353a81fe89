---------------------------- MODULE SerialPortsProofs ----------------------------
(***************************************************************************)
(* What is proved of SerialPorts, for any ports and scripts.  The order of *)
(* the list and the filter by product do not matter to it: a discovery may *)
(* attempt any port at any time, as long as none is claimed.               *)
(***************************************************************************)
EXTENDS SerialPorts, FiniteSetTheorems, TLAPS

States == [phase : Phases, call : {"none", "script", "connecting"},
           active : Ports \cup {NoPort}, conn : Ports \cup {NoPort},
           target : Ports \cup {NoPort}]

Shape ==
  /\ plugged \in SUBSET Ports
  /\ held \in SUBSET (Controllers \X Ports)
  /\ ctl \in [Controllers -> States]
  /\ scan = [pc |-> scan.pc, list |-> scan.list, script |-> scan.script,
             pid |-> scan.pid, rest |-> scan.rest]
  /\ scan.pc \in {"idle", "clearing", "matching", "constructing", "done"}

\* At most one controller is being constructed, or given up by Register, and its
\* port is not yet claimed; other controllers end in a clearing only.
Unclaimed(c) == scan.pc = "constructing" /\ c = Attempt /\ Primary(c) \notin claimed

AttemptIsUnclaimed ==
  \A c \in Controllers :
    /\ ctl[c].phase = "building" => Unclaimed(c)
    /\ ctl[c].phase = "ending" => scan.pc = "clearing" \/ Unclaimed(c)

\* During a discovery the live controllers' ports are claimed.
LiveIsClaimed ==
  \A c \in Controllers :
    ctl[c].phase = "live" /\ scan.pc \in {"matching", "constructing"} => Primary(c) \in claimed

\* An open port is its controller's connection and its active port, and no other is
\* being opened.
HeldIsConnection ==
  \A h \in held : LET s == ctl[h[1]]
                  IN /\ s.phase \in {"building", "live", "ending"}
                     /\ s.conn = h[2] /\ s.active = h[2] /\ s.call # "connecting"

\* No script runs without its controller.
CallsAreAlive ==
  \A c \in Controllers : ctl[c].phase \in {"none", "gone"} => ctl[c].call = "none"

IInv ==
  CallsAreAlive /\ Shape /\ AttemptIsUnclaimed /\ LiveIsClaimed /\ OneControllerPerPort /\ HeldIsConnection

\* There are no controllers at first, and no port is open.
LEMMA InitInvariant == Init => IInv
<1> SUFFICES ASSUME Init PROVE IInv
  OBVIOUS
<1>1. Shape
  BY DEF Init, Shape, NoController, NoScan, States, Phases
<1>2. \A c \in Controllers : ctl[c].phase = "none" /\ ctl[c].call = "none"
  BY DEF Init, NoController
<1>3. AttemptIsUnclaimed /\ LiveIsClaimed /\ OneControllerPerPort /\ CallsAreAlive
  BY <1>2 DEF CallsAreAlive, AttemptIsUnclaimed, LiveIsClaimed, OneControllerPerPort, Exists
<1> QED
  BY <1>1, <1>3 DEF IInv, HeldIsConnection, Init

-----------------------------------------------------------------------------
(* The loops of the discovery, which leave the controllers alone.          *)

\* Only Enumerate forgets the claims, when no controller is left.
LEMMA LoopsKeep ==
  ASSUME IInv, Clear \/ Enumerate \/ NextProduct \/ NextScript \/ PassOver
  PROVE  IInv'
<1> USE DEF IInv
<1>1. UNCHANGED <<plugged, held, ctl>>
  BY DEF Clear, Enumerate, NextProduct, NextScript, PassOver
<1>2. Shape'
  <2>1. /\ scan' = [pc |-> scan'.pc, list |-> scan'.list, script |-> scan'.script,
                    pid |-> scan'.pid, rest |-> scan'.rest]
        /\ scan'.pc \in {"clearing", "matching", "done"}
    <3>1. CASE Clear
      BY <3>1 DEF Clear, NoScan
    <3>2. CASE Enumerate
      BY <3>2 DEF Enumerate, NoScan
    <3>3. CASE NextProduct
      BY <3>3 DEF NextProduct, Shape
    <3>4. CASE NextScript
      BY <3>4 DEF NextScript, Shape
    <3>5. CASE PassOver
      BY <3>5 DEF PassOver, AtPort, Shape
    <3> QED
      BY <3>1, <3>2, <3>3, <3>4, <3>5
  <2> QED
    BY <1>1, <2>1 DEF Shape
<1>3. \A c \in Controllers : ctl[c].phase # "building"
  BY DEF AttemptIsUnclaimed, Unclaimed, Clear, Enumerate, NextProduct, NextScript, PassOver, AtPort
<1>4. \A c \in Controllers : ctl[c].phase = "ending" => scan'.pc = "clearing"
  <2>1. CASE Clear
    BY <2>1 DEF Clear, NoScan
  <2>2. CASE Enumerate
    BY <2>2 DEF Enumerate, Exists
  <2>3. CASE NextProduct \/ NextScript \/ PassOver
    BY <2>3 DEF NextProduct, NextScript, PassOver, AtPort, AttemptIsUnclaimed, Unclaimed
  <2> QED
    BY <2>1, <2>2, <2>3
<1>5. LiveIsClaimed'
  <2>1. CASE Clear
    BY <1>1, <2>1 DEF Clear, NoScan, LiveIsClaimed
  <2>2. CASE Enumerate
    BY <1>1, <2>2 DEF Enumerate, Exists, LiveIsClaimed
  <2>3. CASE NextProduct \/ NextScript \/ PassOver
    BY <1>1, <2>3 DEF NextProduct, NextScript, PassOver, AtPort, LiveIsClaimed
  <2> QED
    BY <2>1, <2>2, <2>3
<1>6. AttemptIsUnclaimed'
  BY <1>1, <1>3, <1>4 DEF AttemptIsUnclaimed
<1>7. OneControllerPerPort' /\ HeldIsConnection' /\ CallsAreAlive'
  BY <1>1 DEF OneControllerPerPort, HeldIsConnection, Exists, CallsAreAlive
<1> QED
  BY <1>2, <1>5, <1>6, <1>7

-----------------------------------------------------------------------------
(* The attempts.                                                           *)

\* An attempt begins: its port is not claimed.
LEMMA ConstructKeeps ==
  ASSUME IInv, Construct
  PROVE  IInv'
<1> USE DEF IInv
<1>1. /\ scan.pc = "matching" /\ Primary(Attempt) \notin claimed
      /\ ctl' = [ctl EXCEPT ![Attempt] = NewController(Attempt)]
      /\ UNCHANGED <<plugged, held, claimed>>
  BY DEF Construct, AtPort, Attempt, Primary
<1>2. /\ scan' = [pc |-> "constructing", list |-> scan.list, script |-> scan.script,
                  pid |-> scan.pid, rest |-> scan.rest]
      /\ Attempt' = Attempt
  BY DEF Construct, Shape, Attempt
<1>3. \A c \in Controllers : ctl[c].phase \notin {"building", "ending"}
  BY <1>1 DEF AttemptIsUnclaimed, Unclaimed
<1>4. \A c \in Controllers : ctl[c].phase = "live" => Primary(c) \in claimed
  BY <1>1 DEF LiveIsClaimed
<1>5. \A c \in Controllers : ctl'[c] = IF c = Attempt THEN NewController(c) ELSE ctl[c]
  BY <1>1 DEF Shape
<1>6. ASSUME NEW c \in Controllers, c = Attempt
      PROVE  NewController(c) \in States /\ NewController(c).phase = "building"
  BY <1>6 DEF NewController, NoController, States, Phases, Primary, Controllers
<1>7. Shape'
  BY <1>1, <1>2, <1>6 DEF Shape
<1>8. AttemptIsUnclaimed'
  BY <1>1, <1>2, <1>3, <1>5, <1>6 DEF AttemptIsUnclaimed, Unclaimed
<1>9. LiveIsClaimed'
  BY <1>1, <1>4, <1>5, <1>6 DEF LiveIsClaimed
<1>10. OneControllerPerPort'
  BY <1>1, <1>3, <1>4, <1>5, <1>6 DEF OneControllerPerPort, Exists
<1>11. HeldIsConnection'
  BY <1>1, <1>3, <1>4, <1>5 DEF HeldIsConnection, Shape
<1>12. CallsAreAlive'
  BY <1>5, <1>6 DEF CallsAreAlive
<1> QED
  BY <1>7, <1>8, <1>9, <1>10, <1>11, <1>12

\* A controller whose attempt or whose end is over: it is gone, and its port closed.
LEMMA GoneKeeps ==
  ASSUME IInv, NEW c \in Controllers, ConstructionFails(c) \/ Destroyed(c)
  PROVE  IInv'
<1> USE DEF IInv
<1> DEFINE gone == [NoController EXCEPT !.phase = "gone"]
<1>1. /\ ctl' = [ctl EXCEPT ![c] = gone] /\ held' = Closed(c)
      /\ UNCHANGED <<plugged, claimed>>
  BY DEF ConstructionFails, Destroyed
<1>6. /\ ctl[c].phase \in {"building", "ending"}
      /\ \/ scan.pc = "constructing" /\ NextPort
         \/ scan.pc # "constructing" /\ UNCHANGED scan
  <2>1. CASE ConstructionFails(c)
    BY <2>1 DEF ConstructionFails, Building, AttemptIsUnclaimed, Unclaimed
  <2>2. CASE Destroyed(c)
    BY <2>2 DEF Destroyed
  <2> QED
    BY <2>1, <2>2
<1>2. gone \in States /\ gone.phase = "gone" /\ gone.call = "none"
  BY DEF NoController, States, Phases
<1> HIDE DEF gone
<1>3. \A d \in Controllers : ctl'[d] = IF d = c THEN gone ELSE ctl[d]
  BY <1>1 DEF Shape
<1>4. CASE scan.pc = "constructing" /\ NextPort
  <2>1. /\ scan' = [pc |-> "matching", list |-> scan.list, script |-> scan.script,
                    pid |-> scan.pid, rest |-> Tail(scan.rest)]
        /\ scan.pc = "constructing"
    BY <1>1, <1>4 DEF NextPort, Shape
  <2>2. \A d \in Controllers : d # c => ctl[d].phase \notin {"building", "ending"}
    BY <1>6, <2>1 DEF AttemptIsUnclaimed, Unclaimed
  <2>3. Shape'
    BY <1>1, <1>2, <2>1 DEF Shape, Closed
  <2>4. AttemptIsUnclaimed' /\ LiveIsClaimed'
    BY <1>1, <1>2, <1>3, <2>1, <2>2 DEF AttemptIsUnclaimed, LiveIsClaimed
  <2> QED
    BY <1>1, <1>2, <1>3, <2>3, <2>4
    DEF OneControllerPerPort, Exists, HeldIsConnection, Closed, Shape, CallsAreAlive
<1>5. CASE scan.pc # "constructing" /\ UNCHANGED scan
  <2>1. Shape'
    BY <1>1, <1>2, <1>5 DEF Shape, Closed
  <2>2. AttemptIsUnclaimed' /\ LiveIsClaimed'
    BY <1>1, <1>2, <1>3, <1>5 DEF AttemptIsUnclaimed, LiveIsClaimed, Unclaimed, Attempt
  <2> QED
    BY <1>1, <1>2, <1>3, <2>1, <2>2
    DEF OneControllerPerPort, Exists, HeldIsConnection, Closed, Shape, CallsAreAlive
<1> QED
  BY <1>4, <1>5, <1>6

\* What becomes of a controller that goes on.
LEMMA RegistryKeeps ==
  ASSUME IInv, NEW c \in Controllers, Registered(c) \/ RegisterFails(c) \/ Unregister(c)
  PROVE  IInv'
<1> USE DEF IInv
<1>1. CASE Registered(c)
  <2>1. /\ ctl[c].phase = "building" /\ UNCHANGED <<plugged, held>>
        /\ ctl' = [ctl EXCEPT ![c] = [ctl[c] EXCEPT !.phase = "live", !.call = "none"]]
        /\ claimed' = claimed \cup {Primary(c)}
    BY <1>1 DEF Registered, Building, Shape, States
  <2>2. /\ scan' = [pc |-> "matching", list |-> scan.list, script |-> scan.script,
                    pid |-> scan.pid, rest |-> Tail(scan.rest)]
        /\ scan.pc = "constructing" /\ c = Attempt
    BY <1>1, <2>1 DEF Registered, NextPort, Shape, AttemptIsUnclaimed, Unclaimed
  <2> DEFINE s == [ctl[c] EXCEPT !.phase = "live", !.call = "none"]
  <2>3. s \in States /\ s.phase = "live" /\ s.call = "none" /\ s.conn = ctl[c].conn /\ s.active = ctl[c].active
    BY DEF Shape, States, Phases
  <2> HIDE DEF s
  <2>4. \A d \in Controllers : ctl'[d] = IF d = c THEN s ELSE ctl[d]
    BY <2>1 DEF Shape, s
  <2>5. Shape'
    BY <2>1, <2>2, <2>3 DEF Shape, s
  <2>6. \A d \in Controllers : d # c => ctl[d].phase \notin {"building", "ending"}
    BY <2>1, <2>2 DEF AttemptIsUnclaimed, Unclaimed
  <2>7. AttemptIsUnclaimed' /\ LiveIsClaimed'
    BY <2>1, <2>2, <2>3, <2>4, <2>6 DEF AttemptIsUnclaimed, LiveIsClaimed
  <2>8. OneControllerPerPort'
    BY <2>1, <2>3, <2>4 DEF OneControllerPerPort, Exists
  <2>10. CallsAreAlive'
    BY <2>3, <2>4 DEF CallsAreAlive
  <2>9. HeldIsConnection'
    BY <2>1, <2>3, <2>4 DEF HeldIsConnection, Shape
  <2> QED
    BY <2>5, <2>7, <2>8, <2>9, <2>10
<1>2. CASE RegisterFails(c) \/ Unregister(c)
  <2> DEFINE s == ctl'[c]
  <2>1. /\ ctl[c].phase = "building" \/ (ctl[c].phase = "live" /\ scan.pc = "clearing")
        /\ UNCHANGED <<plugged, held, scan, claimed>>
    BY <1>2 DEF RegisterFails, Unregister, Building, discovery
  <2>2. /\ ctl' \in [Controllers -> States]
        /\ \A d \in Controllers : d # c => ctl'[d] = ctl[d]
        /\ s.phase = "ending" /\ s.conn = ctl[c].conn /\ s.active = ctl[c].active
        /\ s.call \in {ctl[c].call, "script"}
    <3>1. CASE RegisterFails(c)
      BY <3>1 DEF RegisterFails, Shape, States, Phases
    <3>2. CASE Unregister(c)
      BY <3>2 DEF Unregister, Shape, States, Phases
    <3> QED
      BY <1>2, <3>1, <3>2
  <2> HIDE DEF s
  <2>3. Shape'
    BY <2>1, <2>2 DEF Shape
  <2>4. AttemptIsUnclaimed' /\ LiveIsClaimed'
    BY <2>1, <2>2 DEF AttemptIsUnclaimed, LiveIsClaimed, Unclaimed, Attempt, s
  <2>5. OneControllerPerPort'
    BY <2>1, <2>2 DEF OneControllerPerPort, Exists, s
  <2>6. HeldIsConnection'
    BY <2>1, <2>2 DEF HeldIsConnection, Shape, s
  <2>7. CallsAreAlive'
    BY <2>2 DEF CallsAreAlive, s
  <2> QED
    BY <2>3, <2>4, <2>5, <2>6, <2>7
<1> QED
  BY <1>1, <1>2

-----------------------------------------------------------------------------
(* The scripts, which leave the phases alone.                              *)

\* Every call of a script keeps the invariant, and how far the controllers are.
LEMMA ScriptKeeps ==
  ASSUME IInv, NEW c \in Controllers, Script(c)
  PROVE  IInv' /\ \A d \in Controllers : ctl'[d].phase = ctl[d].phase
<1> USE DEF IInv
<1> DEFINE OnlyItsState ==
             /\ ctl' \in [Controllers -> States] /\ ctl'[c].phase = ctl[c].phase
             /\ \A d \in Controllers : d # c => ctl'[d] = ctl[d]
             /\ UNCHANGED <<plugged, scan, claimed>>
             /\ ctl[c].phase \in {"building", "live", "ending"}
<1>1. OnlyItsState
  <2>1. ctl[c].phase \in {"building", "live", "ending"}
    BY DEF Script, BeginCall, EndCall, OpenPort, OpenFails, Disconnect, TransferFails, Connect,
           CallsAreAlive, Shape, States, Phases
  <2>2. /\ UNCHANGED <<plugged, scan, claimed>>
        /\ \E s \in States : s.phase = ctl[c].phase /\ ctl' = [ctl EXCEPT ![c] = s]
    <3>1. CASE BeginCall(c)
      <4>1. [ctl[c] EXCEPT !.call = "script"] \in States
        BY DEF Shape, States
      <4> QED
        BY <3>1, <4>1 DEF BeginCall, discovery, Shape, States
    <3>2. CASE EndCall(c)
      <4>1. [ctl[c] EXCEPT !.call = "none"] \in States
        BY DEF Shape, States
      <4> QED
        BY <3>2, <4>1 DEF EndCall, discovery, Shape, States
    <3>3. CASE OpenPort(c)
      <4> DEFINE s == [ctl[c] EXCEPT !.call = "script", !.conn = ctl[c].target,
                                     !.active = ctl[c].target, !.target = NoPort]
      <4>1. s \in States /\ s.phase = ctl[c].phase
        BY DEF Shape, States
      <4>2. ctl' = [ctl EXCEPT ![c] = s]
        BY <3>3 DEF OpenPort, Shape, States
      <4> QED
        BY <3>3, <4>1, <4>2 DEF OpenPort, discovery
    <3>4. CASE OpenFails(c)
      <4> DEFINE s == [ctl[c] EXCEPT !.call = "script", !.target = NoPort]
      <4>1. s \in States /\ s.phase = ctl[c].phase
        BY DEF Shape, States
      <4>2. ctl' = [ctl EXCEPT ![c] = s]
        BY <3>4 DEF OpenFails, Shape, States
      <4> QED
        BY <3>4, <4>1, <4>2 DEF OpenFails, discovery
    <3>5. CASE Disconnect(c)
      <4>1. [ctl[c] EXCEPT !.conn = NoPort] \in States
        BY DEF Shape, States
      <4> QED
        BY <3>5, <4>1 DEF Disconnect, discovery, Shape, States
    <3>6. CASE TransferFails(c)
      <4>1. ctl[c] \in States /\ ctl = [ctl EXCEPT ![c] = ctl[c]]
        BY DEF Shape
      <4> QED
        BY <3>6, <4>1 DEF TransferFails, discovery
    <3>7. ASSUME NEW port \in Ports, Connect(c, port)
          PROVE  /\ UNCHANGED <<plugged, scan, claimed>>
                 /\ \E s \in States : s.phase = ctl[c].phase /\ ctl' = [ctl EXCEPT ![c] = s]
      <4> DEFINE s == [ctl[c] EXCEPT !.call = "connecting", !.target = port,
                                     !.conn = IF IsOpen(c) THEN NoPort ELSE ctl[c].conn]
      <4>1. s \in States /\ s.phase = ctl[c].phase
        BY DEF Shape, States
      <4>2. ctl' = [ctl EXCEPT ![c] = s]
        BY <3>7 DEF Connect, Shape, States
      <4> QED
        BY <3>7, <4>1, <4>2 DEF Connect, discovery
    <3> QED
      BY <3>1, <3>2, <3>3, <3>4, <3>5, <3>6, <3>7 DEF Script
  <2> QED
    BY <2>1, <2>2 DEF Shape
<1>2. \A d \in Controllers : ctl'[d].phase = ctl[d].phase
  BY <1>1
<1>3. AttemptIsUnclaimed' /\ LiveIsClaimed' /\ OneControllerPerPort' /\ CallsAreAlive'
  BY <1>1, <1>2 DEF CallsAreAlive, AttemptIsUnclaimed, LiveIsClaimed, OneControllerPerPort, Exists,
                    Unclaimed, Attempt
<1>4. held' \in SUBSET (Controllers \X Ports) /\ HeldIsConnection'
  <2>1. CASE BeginCall(c) \/ EndCall(c)
    BY <2>1 DEF BeginCall, EndCall, Shape, States, HeldIsConnection
  <2>2. CASE OpenPort(c)
    <3>1. held' = held \cup {<<c, ctl[c].target>>} /\ ctl[c].target \in Ports
          /\ ctl[c].call = "connecting"
      BY <2>2 DEF OpenPort, Shape
    <3>2. /\ ctl'[c].conn = ctl[c].target /\ ctl'[c].active = ctl[c].target
          /\ ctl'[c].call = "script"
      BY <2>2 DEF OpenPort, Shape, States
    <3>3. \A h \in held : h[1] # c
      BY <3>1 DEF HeldIsConnection
    <3> QED
      BY <1>1, <3>1, <3>2, <3>3 DEF HeldIsConnection, Shape
  <2>3. CASE OpenFails(c)
    BY <2>3 DEF OpenFails, Shape, States, HeldIsConnection
  <2>4. CASE Disconnect(c) \/ TransferFails(c) \/ \E port \in Ports : Connect(c, port)
    <3>1. held' = {h \in held : h[1] # c}
      BY <2>4 DEF Disconnect, TransferFails, Connect, Closed
    <3> QED
      BY <1>1, <3>1 DEF HeldIsConnection, Shape
  <2> QED
    BY <2>1, <2>2, <2>3, <2>4 DEF Script
<1> QED
  BY <1>1, <1>2, <1>3, <1>4 DEF Shape

-----------------------------------------------------------------------------

\* Every step of the module keeps the invariant.
LEMMA NextInvariant == IInv /\ [Next]_vars => IInv'
<1> SUFFICES ASSUME IInv, [Next]_vars PROVE IInv'
  OBVIOUS
<1>1. CASE Discovery
  BY <1>1, LoopsKeep, ConstructKeeps, GoneKeeps, RegistryKeeps DEF Discovery
<1>2. ASSUME NEW c \in Controllers, Script(c)
      PROVE  IInv'
  BY <1>2, ScriptKeeps
<1>3. ASSUME NEW p \in Ports, Replug(p)
      PROVE  IInv'
  <2>1. UNCHANGED <<held, ctl, scan, claimed>> /\ plugged' \in SUBSET Ports
    BY <1>3 DEF Replug, discovery, IInv, Shape
  <2> QED
    BY <2>1 DEF IInv, CallsAreAlive, Shape, AttemptIsUnclaimed, LiveIsClaimed, OneControllerPerPort,
                HeldIsConnection, Exists, Unclaimed, Attempt
<1>4. CASE UNCHANGED vars
  BY <1>4 DEF vars, IInv, CallsAreAlive, Shape, AttemptIsUnclaimed, LiveIsClaimed,
              OneControllerPerPort, HeldIsConnection, Exists, Unclaimed, Attempt
<1> QED
  BY <1>1, <1>2, <1>3, <1>4 DEF Next

\* What holds in every state: a port is claimed by the controller it has, and open
\* for the connection of a controller that exists.
THEOREM Invariant == Spec => []IInv
BY InitInvariant, NextInvariant, PTL DEF Spec

\* However scripts and products overlap, and whatever fails, no port has two
\* controllers.
THEOREM OnePerPort == Spec => []OneControllerPerPort
<1>1. IInv => OneControllerPerPort
  BY DEF IInv
<1> QED
  BY <1>1, Invariant, PTL

\* A port is open for an existing controller only, one at a time, and it is the one
\* the script is told of.
THEOREM HeldIsActive == Spec => []HeldPortIsActive
<1>1. IInv => HeldPortIsActive
  <2> SUFFICES ASSUME IInv, NEW h \in held
               PROVE  /\ Exists(h[1])
                      /\ PortName(h[1]) = h[2] /\ DeviceInfo(h[1]) = h[2]
    BY DEF HeldPortIsActive
  <2>1. /\ h[1] \in Controllers /\ h[2] \in Ports /\ h = <<h[1], h[2]>>
        /\ ctl[h[1]].conn = h[2] /\ ctl[h[1]].active = h[2]
        /\ ctl[h[1]].phase \in {"building", "live", "ending"}
    BY DEF IInv, Shape, HeldIsConnection
  <2> QED
    BY <2>1, PortsAssumption DEF Exists, PortName, DeviceInfo, IsOpen
<1> QED
  BY <1>1, Invariant, PTL

-----------------------------------------------------------------------------
(* The discovery's loops: what was tried is not forgotten.                 *)

\* Where the loops are.  Whatever is left of a round belongs to a product of a script.
ScanOK ==
  /\ scan.list \in Seq(Ports) /\ scan.rest \in Seq(Ports)
  /\ scan.script \in 1..Len(Pids) + 1 /\ scan.pid \in Nat
  /\ scan.rest # <<>> => scan.script \in Scripts /\ scan.pid \in 1..Len(Pids[scan.script])
  /\ scan.pc = "constructing" => scan.rest # <<>>
  /\ scan.pc = "done" => scan.script = Len(Pids) + 1
  /\ refused \in SUBSET Controllers /\ claimed \in SUBSET Ports

\* A claimed port has its controller until the registry is cleared.
ClaimedIsLive ==
  scan.pc \in {"matching", "constructing", "done"} =>
    \A p \in claimed : \E c \in Controllers : ctl[c].phase = "live" /\ Primary(c) = p

Tried(s, p) == <<s, p>> \in refused \/ p \in claimed

\* The loops have been there with product i of script s and port p.
Passed(s, i, p) ==
  \/ s < scan.script
  \/ s = scan.script /\ i < scan.pid
  \/ s = scan.script /\ i = scan.pid /\ p \notin Range(scan.rest)

PassedIsTried ==
  scan.pc \in {"matching", "constructing", "done"} =>
    \A s \in Scripts, p \in Range(scan.list) : \A i \in 1..Len(Pids[s]) :
      IdOf[p] = Pids[s][i] /\ Passed(s, i, p) => Tried(s, p)

\* What Register has given up is refused before it is destroyed.
GivenUpIsRefused ==
  \A c \in Controllers : ctl[c].phase = "ending" => scan.pc = "clearing" \/ c \in refused

LoopInv == ScanOK /\ ClaimedIsLive /\ PassedIsTried /\ GivenUpIsRefused

\* A list and what is left of it.
LEMMA RangeOfTail ==
  ASSUME NEW list \in Seq(Ports), list # <<>>
  PROVE  /\ Tail(list) \in Seq(Ports) /\ Head(list) \in Ports
         /\ \A p : p \in Range(list) => p = Head(list) \/ p \in Range(Tail(list))
<1>1. Tail(list) \in Seq(Ports) /\ Head(list) \in Ports
  OBVIOUS
<1>2. ASSUME NEW p, p \in Range(list), p # Head(list)
      PROVE  p \in Range(Tail(list))
  <2>1. PICK n \in 1..Len(list) : list[n] = p
    BY <1>2 DEF Range
  <2>2. n # 1
    BY <1>2, <2>1
  <2>3. n - 1 \in 1..Len(Tail(list)) /\ Tail(list)[n - 1] = p
    BY <2>1, <2>2
  <2>4. DOMAIN Tail(list) = 1..Len(Tail(list))
    BY <1>1
  <2> QED
    BY <2>3, <2>4, Zenon DEF Range
<1> QED
  BY <1>1, <1>2

\* The products of the scripts.
LEMMA PidsTyped ==
  /\ Len(Pids) \in Nat /\ Scripts = 1..Len(Pids)
  /\ \A s \in Scripts : Len(Pids[s]) \in Nat
BY PidsAssumption DEF Scripts

\* Nothing is tried at first.
LEMMA LoopsStart == Init => LoopInv
<1> SUFFICES ASSUME Init PROVE LoopInv
  OBVIOUS
<1>1. scan = NoScan /\ refused = {} /\ claimed = {}
  BY DEF Init
<1> QED
  BY <1>1, PidsTyped
  DEF NoScan, LoopInv, ScanOK, ClaimedIsLive, PassedIsTried, GivenUpIsRefused, Init, NoController

\* Only the discovery moves the loops; live controllers go in a clearing only.
LEMMA LoopsStay ==
  ASSUME IInv, LoopInv, UNCHANGED <<scan, claimed>>, refused' \in SUBSET Controllers,
         refused \subseteq refused',
         scan.pc # "clearing" =>
           \A c \in Controllers :
             /\ ctl[c].phase = "live" => ctl'[c].phase = "live"
             /\ ctl'[c].phase = "ending" => ctl[c].phase = "ending" \/ c \in refused'
  PROVE  LoopInv'
<1>1. ScanOK'
  BY DEF LoopInv, ScanOK
<1>2. ClaimedIsLive'
  BY DEF LoopInv, ClaimedIsLive
<1>3. PassedIsTried'
  BY DEF LoopInv, PassedIsTried, Passed, Tried
<1>4. GivenUpIsRefused'
  BY DEF LoopInv, GivenUpIsRefused
<1> QED
  BY <1>1, <1>2, <1>3, <1>4 DEF LoopInv

\* The loops go on to the next product or script.
LEMMA LoopsMove ==
  ASSUME IInv, LoopInv, Clear \/ Enumerate \/ NextProduct \/ NextScript
  PROVE  LoopInv'
<1> USE PidsTyped DEF LoopInv
<1>1. CASE Clear
  BY <1>1 DEF Clear, NoScan, ScanOK, ClaimedIsLive, PassedIsTried, GivenUpIsRefused
<1>2. CASE Enumerate
  <2>1. PICK list \in [1..Cardinality(plugged) -> plugged] :
          scan' = [NoScan EXCEPT !.pc = "matching", !.list = list]
    BY <1>2 DEF Enumerate
  <2>2. claimed' = {} /\ refused' = {}
    BY <1>2 DEF Enumerate
  <2>3. list \in Seq(Ports)
    <3>1. plugged \subseteq Ports /\ IsFiniteSet(plugged)
      BY PortsAssumption, FS_Subset DEF IInv, Shape
    <3>2. Cardinality(plugged) \in Nat
      BY <3>1, FS_CardinalityType
    <3> QED
      BY <3>1, <3>2
  <2>4. ScanOK' /\ ClaimedIsLive'
    BY <2>1, <2>2, <2>3 DEF NoScan, ScanOK, ClaimedIsLive
  <2>5. ASSUME NEW s \in Scripts, NEW p, NEW i \in 1..Len(Pids[s])
        PROVE  ~Passed(s, i, p)'
    BY <2>1 DEF NoScan, Passed
  <2>6. PassedIsTried'
    BY <2>5 DEF PassedIsTried
  <2>7. GivenUpIsRefused'
    BY <1>2 DEF Enumerate, Exists, GivenUpIsRefused
  <2> QED
    BY <2>4, <2>6, <2>7
<1>3. CASE NextProduct
  <2>1. /\ scan.pc = "matching" /\ scan.rest = <<>> /\ scan.script \in Scripts
        /\ scan.pid < Len(Pids[scan.script])
        /\ scan' = [scan EXCEPT !.pid = scan.pid + 1, !.rest = scan.list]
        /\ UNCHANGED <<ctl, claimed, refused>>
    BY <1>3 DEF NextProduct
  <2>2. /\ scan'.pc = "matching" /\ scan'.list = scan.list /\ scan'.rest = scan.list
        /\ scan'.script = scan.script /\ scan'.pid = scan.pid + 1
    BY <2>1 DEF IInv, Shape
  <2>3. ScanOK' /\ ClaimedIsLive' /\ GivenUpIsRefused'
    BY <2>1, <2>2 DEF ScanOK, ClaimedIsLive, GivenUpIsRefused
  <2>4. ASSUME NEW s \in Scripts, NEW p \in Range(scan.list), NEW i \in 1..Len(Pids[s]),
               Passed(s, i, p)'
        PROVE  Passed(s, i, p)
    <3>1. Range(<<>>) = {}
      BY DEF Range
    <3> QED
      BY <2>1, <2>2, <2>4, <3>1 DEF Passed, ScanOK
  <2>5. PassedIsTried'
    BY <2>1, <2>2, <2>4 DEF PassedIsTried, Tried
  <2> QED
    BY <2>3, <2>5
<1>4. CASE NextScript
  <2>1. /\ scan.pc = "matching" /\ scan.rest = <<>>
        /\ scan.script \in Scripts => scan.pid = Len(Pids[scan.script])
        /\ UNCHANGED <<ctl, claimed, refused>>
    BY <1>4 DEF NextScript
  <2>2. /\ scan'.list = scan.list /\ scan'.rest = <<>> /\ scan'.pc \in {"matching", "done"}
        /\ \/ /\ scan.script \in Scripts /\ scan'.pc = "matching"
              /\ scan'.script = scan.script + 1 /\ scan'.pid = 0
           \/ /\ scan.script \notin Scripts /\ scan'.pc = "done"
              /\ scan'.script = scan.script /\ scan'.pid = scan.pid
    BY <1>4, <2>1 DEF NextScript, IInv, Shape
  <2>3. ScanOK' /\ ClaimedIsLive' /\ GivenUpIsRefused'
    BY <2>1, <2>2 DEF ScanOK, ClaimedIsLive, GivenUpIsRefused
  <2>4. ASSUME NEW s \in Scripts, NEW p \in Range(scan.list), NEW i \in 1..Len(Pids[s]),
               Passed(s, i, p)'
        PROVE  Passed(s, i, p)
    <3>1. Range(<<>>) = {}
      BY DEF Range
    <3> QED
      BY <2>1, <2>2, <2>4, <3>1 DEF Passed, ScanOK
  <2>5. PassedIsTried'
    BY <2>1, <2>2, <2>4 DEF PassedIsTried, Tried
  <2> QED
    BY <2>3, <2>5
<1> QED
  BY <1>1, <1>2, <1>3, <1>4

\* The port that was next is passed over, refused or claimed, and in every case tried.
LEMMA PortPassed ==
  ASSUME IInv, LoopInv, scan.pc \in {"matching", "constructing"}, scan.rest # <<>>,
         scan' = [scan EXCEPT !.pc = "matching", !.rest = Tail(scan.rest)],
         refused' \in SUBSET Controllers, refused \subseteq refused',
         claimed' \in SUBSET Ports, claimed \subseteq claimed',
         HasProduct => Attempt \in refused' \/ Head(scan.rest) \in claimed',
         ClaimedIsLive', GivenUpIsRefused'
  PROVE  LoopInv'
<1> USE PidsTyped DEF LoopInv
<1>1. /\ scan'.pc = "matching" /\ scan'.list = scan.list /\ scan'.rest = Tail(scan.rest)
      /\ scan'.script = scan.script /\ scan'.pid = scan.pid
  BY DEF IInv, Shape
<1>2. scan.rest \in Seq(Ports)
  BY DEF ScanOK
<1>3. ScanOK'
  BY <1>1, <1>2, RangeOfTail DEF ScanOK
<1>4. ASSUME NEW s \in Scripts, NEW p \in Range(scan.list), NEW i \in 1..Len(Pids[s]),
             IdOf[p] = Pids[s][i], Passed(s, i, p)'
      PROVE  Tried(s, p)'
  <2>1. CASE Passed(s, i, p)
    BY <1>4, <2>1 DEF PassedIsTried, Tried
  <2>2. CASE ~Passed(s, i, p)
    <3>1. s = scan.script /\ i = scan.pid /\ p = Head(scan.rest)
      BY <1>1, <1>2, <1>4, <2>2, RangeOfTail DEF Passed
    <3> QED
      BY <1>4, <3>1 DEF HasProduct, Attempt, Tried
  <2> QED
    BY <2>1, <2>2
<1>5. PassedIsTried'
  BY <1>1, <1>4 DEF PassedIsTried
<1> QED
  BY <1>3, <1>5

\* The attempts of the discovery.
LEMMA AttemptsMove ==
  ASSUME IInv, LoopInv, Discovery
  PROVE  LoopInv'
<1> USE PidsTyped DEF LoopInv
<1>1. CASE Clear \/ Enumerate \/ NextProduct \/ NextScript
  BY <1>1, LoopsMove
<1>2. CASE PassOver
  <2>1. /\ scan.pc = "matching" /\ scan.rest # <<>> /\ UNCHANGED <<ctl, claimed, refused>>
        /\ HasProduct => Head(scan.rest) \in claimed
        /\ scan' = [scan EXCEPT !.rest = Tail(scan.rest)]
    BY <1>2 DEF PassOver, AtPort
  <2>2. scan' = [scan EXCEPT !.pc = "matching", !.rest = Tail(scan.rest)]
    BY <2>1 DEF IInv, Shape
  <2>3. ClaimedIsLive' /\ GivenUpIsRefused'
    BY <2>1, <2>2 DEF ClaimedIsLive, GivenUpIsRefused
  <2> QED
    BY <2>1, <2>2, <2>3, PortPassed DEF ScanOK
<1>3. CASE Construct
  <2>1. /\ scan.pc = "matching" /\ scan.rest # <<>> /\ UNCHANGED <<claimed, refused>>
        /\ Head(scan.rest) \notin claimed
        /\ scan' = [scan EXCEPT !.pc = "constructing"]
        /\ ctl' = [ctl EXCEPT ![Attempt] = NewController(Attempt)]
    BY <1>3 DEF Construct, AtPort
  <2>2. /\ scan'.pc = "constructing" /\ scan'.list = scan.list /\ scan'.rest = scan.rest
        /\ scan'.script = scan.script /\ scan'.pid = scan.pid
    BY <2>1 DEF IInv, Shape
  <2>3. ScanOK'
    BY <2>1, <2>2 DEF ScanOK
  <2>4. ClaimedIsLive'
    <3>1. \A c \in Controllers : Primary(c) \in claimed => ctl'[c] = ctl[c]
      BY <2>1 DEF Primary, Attempt, IInv, Shape
    <3> QED
      BY <2>1, <3>1 DEF ClaimedIsLive
  <2>5. PassedIsTried'
    BY <2>1, <2>2 DEF PassedIsTried, Passed, Tried
  <2>6. GivenUpIsRefused'
    BY <2>1, <2>2 DEF IInv, Shape, GivenUpIsRefused, NewController, NoController
  <2> QED
    BY <2>3, <2>4, <2>5, <2>6
<1>4. ASSUME NEW c \in Controllers, Registered(c)
      PROVE  LoopInv'
  <2>1. /\ scan.pc = "constructing" /\ c = Attempt /\ scan.rest # <<>>
    BY <1>4 DEF Registered, Building, IInv, AttemptIsUnclaimed, Unclaimed, ScanOK
  <2>2. /\ claimed' = claimed \cup {Primary(c)} /\ refused' = refused
        /\ ctl' = [ctl EXCEPT ![c] = [ctl[c] EXCEPT !.phase = "live", !.call = "none"]]
        /\ scan' = [scan EXCEPT !.pc = "matching", !.rest = Tail(scan.rest)]
    BY <1>4 DEF Registered, NextPort, IInv, Shape, States
  <2>3. Primary(c) = Head(scan.rest) /\ Primary(c) \in Ports
    BY <2>1 DEF Primary, Attempt, Controllers
  <2>4. /\ ctl'[c].phase = "live"
        /\ \A d \in Controllers : d # c => ctl'[d] = ctl[d]
    BY <2>2 DEF IInv, Shape, States
  <2>5. ClaimedIsLive' /\ GivenUpIsRefused'
    BY <2>1, <2>2, <2>4 DEF ClaimedIsLive, GivenUpIsRefused
  <2> QED
    BY <2>1, <2>2, <2>3, <2>5, PortPassed DEF ScanOK
<1>5. ASSUME NEW c \in Controllers, ConstructionFails(c) \/ Destroyed(c)
      PROVE  LoopInv'
  <2>1. /\ ctl[c].phase \in {"building", "ending"} /\ claimed' = claimed
        /\ ctl' = [ctl EXCEPT ![c] = [NoController EXCEPT !.phase = "gone"]]
        /\ refused' \in SUBSET Controllers /\ refused \subseteq refused'
    BY <1>5 DEF ConstructionFails, Destroyed, Building, ScanOK
  <2>2. \A d \in Controllers : /\ ctl[d].phase = "live" => ctl'[d].phase = "live"
                              /\ ctl'[d].phase = "ending" => ctl[d].phase = "ending"
    BY <2>1 DEF IInv, Shape, NoController
  <2>3. CASE scan.pc = "constructing"
    <3>1. c = Attempt /\ scan.rest # <<>>
      BY <2>1, <2>3 DEF IInv, AttemptIsUnclaimed, Unclaimed, ScanOK
    <3>2. c \in refused'
      BY <1>5, <2>3 DEF ConstructionFails, Destroyed, GivenUpIsRefused
    <3>3. scan' = [scan EXCEPT !.pc = "matching", !.rest = Tail(scan.rest)]
      BY <1>5, <2>3 DEF ConstructionFails, Destroyed, NextPort
    <3>4. ClaimedIsLive' /\ GivenUpIsRefused'
      BY <2>1, <2>2, <2>3, <3>3 DEF ClaimedIsLive, GivenUpIsRefused
    <3> QED
      BY <2>1, <2>3, <3>1, <3>2, <3>3, <3>4, PortPassed DEF ScanOK
  <2>4. CASE scan.pc # "constructing"
    <3>1. UNCHANGED scan
      BY <1>5, <2>4 DEF ConstructionFails, Building, Destroyed, IInv, AttemptIsUnclaimed, Unclaimed
    <3> QED
      BY <2>1, <2>2, <3>1, LoopsStay
  <2> QED
    BY <2>3, <2>4
<1>6. ASSUME NEW c \in Controllers, RegisterFails(c) \/ Unregister(c)
      PROVE  LoopInv'
  <2>1. /\ ctl[c].phase = "building" \/ scan.pc = "clearing"
        /\ UNCHANGED <<scan, claimed>>
        /\ refused' \in SUBSET Controllers /\ refused \subseteq refused'
        /\ \A d \in Controllers : d # c => ctl'[d] = ctl[d]
        /\ c \in refused' \/ scan.pc = "clearing"
    BY <1>6 DEF RegisterFails, Unregister, Building, ScanOK, IInv, Shape, discovery
  <2> QED
    BY <2>1, LoopsStay
<1> QED
  BY <1>1, <1>2, <1>3, <1>4, <1>5, <1>6 DEF Discovery

\* Scripts and the system leave the loops alone.
LEMMA LoopsStep == IInv /\ LoopInv /\ [Next]_vars => LoopInv'
<1> SUFFICES ASSUME IInv, LoopInv, [Next]_vars PROVE LoopInv'
  OBVIOUS
<1>1. CASE Discovery
  BY <1>1, AttemptsMove
<1>2. ASSUME NEW c \in Controllers, Script(c)
      PROVE  LoopInv'
  <2>1. UNCHANGED <<scan, claimed, refused>>
    BY <1>2 DEF Script, BeginCall, EndCall, OpenPort, OpenFails, Disconnect, TransferFails,
                Connect, discovery
  <2>2. \A d \in Controllers : ctl'[d].phase = ctl[d].phase
    BY <1>2, ScriptKeeps
  <2> QED
    BY <2>1, <2>2, LoopsStay DEF LoopInv, ScanOK
<1>3. CASE UNCHANGED vars \/ \E p \in Ports : Replug(p)
  <2>1. UNCHANGED <<scan, claimed, refused, ctl>>
    BY <1>3 DEF vars, Replug, discovery
  <2> QED
    BY <2>1, LoopsStay DEF LoopInv, ScanOK
<1> QED
  BY <1>1, <1>2, <1>3 DEF Next

\* The loops' part of the invariant holds in every state.
LEMMA LoopsHold == Spec => []LoopInv
BY LoopsStart, LoopsStep, Invariant, PTL DEF Spec

\* An attempt that fails takes nothing from the scripts that come after it: when the
\* discovery ends, every port that a script asked for has a controller, or that very
\* script's attempt has failed.
THEOREM NoneForgotten == Spec => []NoPortIsForgotten
<1>1. ASSUME LoopInv, scan.pc = "done", NEW s \in Scripts, NEW p \in Range(scan.list),
             IdOf[p] \in Range(Pids[s])
      PROVE  Tried(s, p)
  <2>1. Pids[s] = [i \in 1..Len(Pids[s]) |-> Pids[s][i]]
    BY PidsAssumption DEF Scripts
  <2>2. PICK i \in 1..Len(Pids[s]) : IdOf[p] = Pids[s][i]
    BY <1>1, <2>1 DEF Range
  <2>3. Passed(s, i, p)
    BY <1>1, PidsTyped DEF Passed, LoopInv, ScanOK
  <2> QED
    BY <1>1, <2>2, <2>3 DEF LoopInv, PassedIsTried
<1>2. LoopInv => NoPortIsForgotten
  BY <1>1 DEF NoPortIsForgotten, Tried, LoopInv, ClaimedIsLive
<1> QED
  BY <1>2, LoopsHold, PTL

\* The ports, the connections, the controllers and the loops keep their types.
THEOREM TypeCorrect == Spec => []TypeOK
<1> DEFINE Bounds == replugs \in Nat /\ clearings \in Nat
<1>1. Init => Bounds
  BY DEF Init
<1>2. ASSUME Bounds, [Next]_vars
      PROVE  Bounds'
  <2>1. CASE Clear
    BY <1>2, <2>1 DEF Clear
  <2>2. CASE \E p \in Ports : Replug(p)
    BY <1>2, <2>2 DEF Replug
  <2>3. CASE UNCHANGED bounds
    BY <1>2, <2>3 DEF bounds
  <2> QED
    BY <1>2, <2>1, <2>2, <2>3
    DEF Next, Discovery, Enumerate, NextProduct, NextScript, PassOver, Construct,
        Registered, ConstructionFails, RegisterFails, Unregister, Destroyed, Script,
        BeginCall, EndCall, OpenPort, OpenFails, Disconnect, TransferFails, Connect, vars, bounds
<1>3. IInv /\ LoopInv /\ Bounds => TypeOK
  BY DEF IInv, Shape, States, LoopInv, ScanOK, TypeOK
<1> HIDE DEF Bounds
<1> QED
  BY <1>1, <1>2, <1>3, Invariant, LoopsHold, PTL DEF Spec

=============================================================================
