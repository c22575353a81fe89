------------------------ MODULE ControllerUpdatesProofs ------------------------
(***************************************************************************)
(* For any topologies, parameters and number of changes, and whatever the  *)
(* host throws: the worker and the device thread never disagree with the   *)
(* host's buffer, no topology is lost, and the controller dies alone.      *)
(***************************************************************************)
EXTENDS ControllerUpdates, TLAPS

Before == {"new", "attach"}
Live == {"register", "check", "recorded", "taken", "detach"}
After == {"unregister", "delete", "shutdown", "gone"}
Deleted == {"destroy", "lastJoin", "shutdown", "gone"}
Updating == {"update", "publish", "register"}

\* What each phase of the owner's life says of the others.  Nothing is updated
\* before the controller is recorded: no change can be pending.
PhaseInv ==
  /\ owner \in Before =>
       worker.pc = "none" /\ ~ctl.attached /\ ~host.listed /\ host.layout = ctl.setup
  /\ owner \in Live => ctl.attached /\ ~ctl.stop /\ worker.pc \in {"wait"} \union UpdatePcs
  /\ owner \in {"register", "check"} => worker.pc = "wait" /\ host.layout = ctl.setup
  /\ owner \in Before \union {"register", "check"} => changes = {} /\ ~ctl.pending
  /\ owner = "check" => host.listed
  /\ owner = "join" => ctl.attached /\ ctl.stop /\ ctl.shutting
                       /\ worker.pc \in {"wait", "done"} \union UpdatePcs
  /\ owner \in After => worker.pc = "none" /\ ~ctl.attached /\ ctl.stop /\ ctl.shutting
  /\ owner = "new" => ~host.exists
  /\ owner # "new" => host.exists \/ owner \in Deleted
  /\ ~ctl.alive <=> owner = "gone"

\* What the destructor finds: a controller that was detached, or never attached, or
\* one that the exception of another entry left as it was.
DestructorInv ==
  /\ owner = "destroy" /\ ctl.attached =>
       ~ctl.stop /\ host.exists /\ host.throws /\ worker.pc \in {"wait"} \union UpdatePcs
  /\ owner = "destroy" /\ ~ctl.attached =>
       worker.pc = "none" /\ ((ctl.shutting /\ ctl.stop) \/ ~host.listed)
  /\ owner = "lastJoin" => ctl.stop /\ ctl.shutting
  /\ owner = "lastJoin" /\ ctl.attached =>
       host.throws /\ worker.pc \in {"wait", "done"} \union UpdatePcs
  /\ owner = "lastJoin" /\ ~ctl.attached => worker.pc = "none"

\* The device thread is inside the controller only while the host lists it, and the
\* worker updates the host's controller only while it is not listed.
CallInv ==
  /\ call.pc # "idle" => host.listed /\ owner # "new" /\ owner # "attach"
  /\ call.pc = "copying" => ~ctl.shutting
  /\ worker.pc \in Updating => ~host.listed
  /\ ~host.throws /\ owner \in {"delete"} \union Deleted => ~host.listed
  /\ ~host.throws /\ owner \in Deleted => ~host.exists

\* The published count is the host's but while the worker is about to publish.
PublishInv ==
  /\ ctl.attached /\ worker.pc # "publish" => ctl.published = LedCount[host.layout]
  /\ worker.pc = "publish" => host.layout = worker.copy

\* A worker on its way to the host carries the setup, or is owed another update.
CarryInv ==
  worker.pc \in {"unregister", "update"} /\ ~ctl.stop => worker.copy = ctl.setup \/ ctl.pending

IInv ==
  /\ TypeOK /\ PhaseInv /\ DestructorInv /\ CallInv /\ PublishInv /\ CarryInv
  /\ NoLostUpdate /\ CopyStaysInBuffer /\ ChangesArePending

\* The smaller of two numbers.
LEMMA MinBound ==
  ASSUME NEW a \in Nat, NEW b \in Nat
  PROVE  Min(a, b) \in Nat /\ Min(a, b) <= a
BY DEF Min

\* Registering: no other thread does anything yet but begin a frame.
LEMMA RegisterInv ==
  ASSUME IInv, Register
  PROVE  IInv'
<1> USE LedCountAssumption DEF IInv, TypeOK, PhaseInv, DestructorInv, CallInv, PublishInv,
    CarryInv, NoLostUpdate, CopyStaysInBuffer, ChangesArePending, OwnerPcs, UpdatePcs, Before,
    Live, After, Deleted, Updating, MutexFree, HostQuiet
<1>1. CASE CreateVirtual
  BY <1>1 DEF CreateVirtual
<1>2. CASE AttachOpenRgbController
  BY <1>2 DEF AttachOpenRgbController
<1>3. CASE RegisterVirtual
  BY <1>3 DEF RegisterVirtual
<1>4. CASE RegisterThrows
  BY <1>4 DEF RegisterThrows
<1>5. CASE CheckListed
  BY <1>5 DEF CheckListed
<1>6. CASE CreateRefused
  BY <1>6 DEF CreateRefused
<1>7. CASE CheckThrows
  BY <1>7 DEF CheckThrows
<1> QED
  BY <1>1, <1>2, <1>3, <1>4, <1>5, <1>6, <1>7 DEF Register

\* Removing: the worker is told to stop and joined before the host's controller goes.
LEMMA RemoveInv ==
  ASSUME IInv, Remove
  PROVE  IInv'
<1> USE LedCountAssumption DEF IInv, TypeOK, PhaseInv, DestructorInv, CallInv, PublishInv,
    CarryInv, NoLostUpdate, CopyStaysInBuffer, ChangesArePending, OwnerPcs, UpdatePcs, Before,
    Live, After, Deleted, Updating, MutexFree, HostQuiet
<1>1. CASE DetachBegin
  BY <1>1 DEF DetachBegin
<1>2. CASE DetachEnd
  BY <1>2 DEF DetachEnd
<1>3. CASE UnregisterVirtual
  BY <1>3 DEF UnregisterVirtual
<1>4. CASE DeleteVirtual
  BY <1>4 DEF DeleteVirtual
<1>5. CASE RemoveThrows
  BY <1>5 DEF RemoveThrows
<1>6. CASE Destroy
  BY <1>6 DEF Destroy
<1>7. CASE OtherThrows
  BY <1>7 DEF OtherThrows
<1> QED
  BY <1>1, <1>2, <1>3, <1>4, <1>5, <1>6, <1>7 DEF Remove

\* A changed parameter, and the controller taken out of the registry.
LEMMA RecordedInv ==
  ASSUME IInv, Configure \/ TakeFromRegistry
  PROVE  IInv'
<1> USE LedCountAssumption DEF IInv, TypeOK, PhaseInv, DestructorInv, CallInv, PublishInv,
    CarryInv, NoLostUpdate, CopyStaysInBuffer, ChangesArePending, OwnerPcs, UpdatePcs, Before,
    Live, After, Deleted, Updating, MutexFree, HostQuiet
<1>1. CASE Configure
  <2>1. PICK p \in Properties, v \in Values : SetConfigurationValue(p, v)
    BY <1>1 DEF Configure
  <2> QED
    BY <2>1 DEF SetConfigurationValue
<1>2. CASE TakeFromRegistry
  BY <1>2 DEF TakeFromRegistry
<1> QED
  BY <1>1, <1>2

\* A frame: what is copied is bounded by what the host has.
LEMMA DeviceInv ==
  ASSUME IInv, DeviceThread
  PROVE  IInv'
<1> USE LedCountAssumption DEF IInv, TypeOK, PhaseInv, DestructorInv, CallInv, PublishInv,
    CarryInv, NoLostUpdate, CopyStaysInBuffer, ChangesArePending, OwnerPcs, UpdatePcs, Before,
    Live, After, Deleted, Updating, MutexFree, HostQuiet
<1>1. CASE CallBegin
  BY <1>1 DEF CallBegin
<1>2. CASE CallShutDown
  BY <1>2 DEF CallShutDown
<1>3. CASE Drain
  <2> USE <1>3 DEF Drain
  <2>1. call.pc = "called" /\ ctl.attached /\ ~ctl.shutting /\ ~ctl.stop /\ host.listed
    OBVIOUS
  <2>2. /\ script' \in [vals : [Properties -> Values], layout : Layouts, dirty : BOOLEAN]
        /\ \A p \in Properties : script'.vals[p] = conf[p]
        /\ ctl' = ctl \/ (changes # {} /\ \E layout \in Layouts : ctl' = Rebuilt(layout))
    <3>1. CASE changes = {}
      BY <3>1 DEF DrainChanges
    <3>2. CASE changes # {}
      <4>1. PICK layout \in Layouts : DrainScript(layout) /\ DrainTopology(layout)
        BY <3>2 DEF DrainChanges
      <4>2. script'.layout = layout /\ script'.dirty = FALSE
            /\ script'.vals = [p \in Properties |-> IF p \in changes THEN conf[p] ELSE script.vals[p]]
            /\ script' = [vals |-> script'.vals, layout |-> layout, dirty |-> FALSE]
        BY <4>1 DEF DrainScript
      <4>3. \A p \in Properties : script'.vals[p] = conf[p]
        BY <4>2
      <4>4. script'.vals \in [Properties -> Values]
        BY <4>2
      <4>5. ctl' = ctl \/ ctl' = Rebuilt(layout)
        BY <4>1 DEF DrainTopology
      <4> QED
        BY <3>2, <4>2, <4>3, <4>4, <4>5
    <3> QED
      BY <3>1, <3>2
  <2>3. /\ ctl' \in [setup : Layouts, published : Nat, attached : BOOLEAN, shutting : BOOLEAN,
                     stop : BOOLEAN, pending : BOOLEAN, alive : BOOLEAN]
        /\ ctl'.attached /\ ~ctl'.shutting /\ ~ctl'.stop
        /\ ctl'.alive = ctl.alive /\ ctl'.published = ctl.published
        /\ ctl' = ctl \/ (changes # {} /\ ctl'.pending)
    <3>1. CASE ctl' = ctl
      BY <2>1, <3>1
    <3>2. CASE changes # {} /\ \E layout \in Layouts : ctl' = Rebuilt(layout)
      <4>1. PICK layout \in Layouts : ctl' = [ctl EXCEPT !.setup = layout, !.pending = TRUE]
        BY <2>1, <3>2 DEF Rebuilt
      <4> QED
        BY <2>1, <3>2, <4>1
    <3> QED
      BY <2>2, <3>1, <3>2
  <2>4. call'.count \in Nat /\ call'.count <= LedCount[host.layout] /\ call'.pc = "copying"
    <3>1. ctl.published = LedCount[host.layout]
      BY <2>1
    <3>2. LedCount[ctl'.setup] \in Nat /\ ctl'.published \in Nat
      BY <2>3
    <3>3. call' = [pc |-> "copying", count |-> Min(ctl'.published, LedCount[ctl'.setup])]
      BY <2>3 DEF CopyCount
    <3> QED
      BY <2>3, <3>1, <3>2, <3>3, MinBound
  <2>5. TypeOK'
    BY <2>2, <2>3, <2>4
  <2>6. PhaseInv' /\ CallInv' /\ DestructorInv'
    <3>1. PhaseInv'
      <4>1. owner \in Live \union {"destroy"} /\ owner' = owner
            /\ worker' = worker /\ host' = host /\ changes' = {}
        BY <2>1
      <4>2. owner \in {"register", "check"} => ctl' = ctl
        BY <2>3
      <4> QED
        BY <2>1, <2>3, <4>1, <4>2
    <3>2. CallInv'
      BY <2>1, <2>3, <2>4
    <3>3. DestructorInv'
      BY <2>1, <2>3
    <3> QED
      BY <3>1, <3>2, <3>3
  <2>7. PublishInv' /\ CarryInv' /\ NoLostUpdate'
    BY <2>1, <2>3
  <2>8. CopyStaysInBuffer' /\ ChangesArePending'
    BY <2>1, <2>2, <2>4
  <2> QED
    BY <2>5, <2>6, <2>7, <2>8
<1>4. CASE Render
  <2> USE <1>4 DEF Render
  <2>1. PICK layout \in Layouts :
          script' = [script EXCEPT !.layout = layout, !.dirty = @ \/ layout # script.layout]
    OBVIOUS
  <2>2. script' \in [vals : [Properties -> Values], layout : Layouts, dirty : BOOLEAN]
        /\ script'.vals = script.vals
    BY <2>1
  <2>3. TypeOK'
    BY <2>2
  <2>4. PhaseInv' /\ DestructorInv' /\ CallInv'
    OBVIOUS
  <2>5. PublishInv' /\ CarryInv' /\ NoLostUpdate'
    OBVIOUS
  <2>6. CopyStaysInBuffer' /\ ChangesArePending'
    BY <2>2
  <2> QED
    BY <2>3, <2>4, <2>5, <2>6
<1> QED
  BY <1>1, <1>2, <1>3, <1>4 DEF DeviceThread

\* The worker: every step between its critical sections.
LEMMA WorkerInv ==
  ASSUME IInv, Worker
  PROVE  IInv'
<1> USE LedCountAssumption DEF IInv, TypeOK, PhaseInv, DestructorInv, CallInv, PublishInv,
    CarryInv, NoLostUpdate, CopyStaysInBuffer, ChangesArePending, OwnerPcs, UpdatePcs, Before,
    Live, After, Deleted, Updating, MutexFree, HostQuiet
<1>1. CASE WorkerWake
  <2>1. CASE ctl.stop
    BY <1>1, <2>1 DEF WorkerWake
  <2>2. CASE ~ctl.stop
    <3>1. owner \in Live \union {"destroy"} /\ ctl.attached
      BY <1>1, <2>2 DEF WorkerWake
    <3>2. /\ worker' = [pc |-> "unregister", copy |-> ctl.setup]
          /\ ctl' = [ctl EXCEPT !.pending = FALSE]
          /\ UNCHANGED <<owner, conf, changes, script, call, host, changed>>
          /\ ctl.pending /\ worker.pc = "wait" /\ call.pc # "copying"
      BY <1>1, <2>2, <3>1 DEF WorkerWake
    <3>3. TypeOK' /\ PhaseInv' /\ DestructorInv'
      BY <3>1, <3>2
    <3>4. CallInv' /\ PublishInv'
      BY <3>1, <3>2
    <3>5. CarryInv' /\ NoLostUpdate'
      BY <3>1, <3>2
    <3>6. CopyStaysInBuffer' /\ ChangesArePending'
      BY <3>2
    <3> QED
      BY <3>3, <3>4, <3>5, <3>6
  <2> QED
    BY <2>1, <2>2
<1>2. CASE WorkerUnregister
  BY <1>2 DEF WorkerUnregister
<1>3. CASE WorkerUpdate
  BY <1>3 DEF WorkerUpdate
<1>4. CASE WorkerPublish
  BY <1>4 DEF WorkerPublish
<1>5. CASE WorkerRegister
  BY <1>5 DEF WorkerRegister
<1>6. CASE WorkerThrows
  BY <1>6 DEF WorkerThrows
<1> QED
  BY <1>1, <1>2, <1>3, <1>4, <1>5, <1>6 DEF Worker

\* The inductive invariant holds at first ...
LEMMA InitInv == Init => IInv
<1> SUFFICES ASSUME NEW layout \in Layouts, NEW vals \in [Properties -> Values], NEW throws \in BOOLEAN,
                    owner = "new", conf = vals, changes = {},
                    script = [vals |-> vals, layout |-> layout, dirty |-> FALSE],
                    ctl = [setup |-> layout, published |-> 0, attached |-> FALSE,
                           shutting |-> FALSE, stop |-> FALSE, pending |-> FALSE, alive |-> TRUE],
                    worker = [pc |-> "none", copy |-> layout],
                    call = [pc |-> "idle", count |-> 0],
                    host = [layout |-> layout, listed |-> FALSE, exists |-> FALSE,
                            throws |-> throws, served |-> TRUE],
                    changed = 0
             PROVE  IInv
  BY DEF Init
<1>1. TypeOK
  BY DEF TypeOK, OwnerPcs, UpdatePcs
<1>2. PhaseInv /\ DestructorInv
  BY DEF PhaseInv, DestructorInv, Before, Live, After
<1>3. CallInv /\ PublishInv /\ CarryInv
  BY DEF CallInv, PublishInv, CarryInv, Updating, Deleted
<1>4. NoLostUpdate /\ CopyStaysInBuffer /\ ChangesArePending
  BY DEF NoLostUpdate, CopyStaysInBuffer, ChangesArePending
<1> QED
  BY <1>1, <1>2, <1>3, <1>4 DEF IInv

\* ... is kept by every step ...
LEMMA NextInv == IInv /\ [Next]_vars => IInv'
<1> SUFFICES ASSUME IInv, [Next]_vars PROVE IInv'
  OBVIOUS
<1>1. CASE Next
  BY <1>1, RegisterInv, RemoveInv, RecordedInv, DeviceInv, WorkerInv DEF Next
<1>2. CASE UNCHANGED vars
  BY <1>2 DEF vars, IInv, TypeOK, PhaseInv, DestructorInv, CallInv, PublishInv, CarryInv, NoLostUpdate,
     CopyStaysInBuffer, ChangesArePending
<1> QED
  BY <1>1, <1>2

\* ... and so always holds.
LEMMA Invariance == Spec => []IInv
BY InitInv, NextInv, PTL DEF Spec

\* The types of the controller's, the threads' and the host's state.
THEOREM TypeCorrect == Spec => []TypeOK
<1>1. IInv => TypeOK
  BY DEF IInv
<1> QED
  BY <1>1, Invariance, PTL

\* No frame copies more colours than the host's buffer holds.
THEOREM NoCopyBeyondBuffer == Spec => []CopyStaysInBuffer
<1>1. IInv => CopyStaysInBuffer
  BY DEF IInv
<1> QED
  BY <1>1, Invariance, PTL

\* The worker's copy of the setup, taken and handed over without the mutex in
\* between, never costs the host a topology.
THEOREM NoTopologyLost == Spec => []NoLostUpdate
<1>1. IInv => NoLostUpdate
  BY DEF IInv
<1> QED
  BY <1>1, Invariance, PTL

\* The controller dies with the worker joined, though the exception of a host call
\* for it or for another entry left its detaching to the destructor; and, if the host
\* throws nothing, with no call left in it.
THEOREM DestroyedAlone == Spec => []DestroyedIsUnused
<1>1. IInv => DestroyedIsUnused
  BY DEF IInv, TypeOK, PhaseInv, CallInv, DestroyedIsUnused, After, Deleted
<1> QED
  BY <1>1, Invariance, PTL

\* Register's check never meets the worker's temporary absence from the list.
THEOREM CheckSeesController == Spec => []CheckedIsListed
<1>1. IInv => CheckedIsListed
  BY DEF IInv, PhaseInv, CheckedIsListed
<1> QED
  BY <1>1, Invariance, PTL

\* Every value the script does not have yet is pending.
THEOREM NoChangeLost == Spec => []ChangesArePending
<1>1. IInv => ChangesArePending
  BY DEF IInv
<1> QED
  BY <1>1, Invariance, PTL

=============================================================================
