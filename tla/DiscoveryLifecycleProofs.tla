----------------------- MODULE DiscoveryLifecycleProofs -----------------------
(***************************************************************************)
(* For any number of devices, scans, clicks and loads, and for both        *)
(* versions of the host's API: the discoveries are serial, the registry    *)
(* and the host's list agree, Unload leaves nothing behind but what the    *)
(* host's exceptions kept on its list, and what the widget shows in the    *)
(* end is registered.                                                      *)
(*                                                                         *)
(* The invariant comes in layers, each kept with the help of those before: *)
(*   IInv           types, the stack of handlers, one worker at a time;    *)
(*   FramesInv      which handler can be where, under which other one;     *)
(*   StoppedInv     what StopDiscoveryThread has achieved;                 *)
(*   TakenInv, ForgottenInv   what was taken out of the registry;          *)
(*   ScanInv        the host's scan, in API 4;                             *)
(*   GenerationInv, ListsInv  the registry and the host's list;            *)
(*   QueueInv, ShownInv       what the widget will have shown when all     *)
(*                            that is posted has been delivered.           *)
(***************************************************************************)
EXTENDS DiscoveryLifecycle, TLAPS

Frame == [op : Ops, pc : Pcs]
StopPcs == {"pending", "cancel", "supersede", "stopJoin", "stopped"}
Stoppers == {"unload", "rediscover", "detection"}
StartPcs == {"uncancel", "newGeneration", "start"}

\* Only the callers of StopDiscoveryThread are ever on the way to it or inside it.
ProperFrame == {f \in Frame : f.pc \in StopPcs => f.op \in Stoppers}

\* A handler under another one is at a place where events are delivered.
StackOK(g) ==
  /\ g \in Seq(Frame)
  /\ \A i \in 1 .. Len(g) : g[i] \in ProperFrame
  /\ \A i \in 1 .. Len(g) - 1 : g[i].pc \in PumpPcs

\* Replacing, adding and removing the innermost frame keeps the stack proper.
LEMMA GotoStack ==
  ASSUME NEW g, StackOK(g), g # <<>>, NEW f \in ProperFrame,
         NEW h, h = [g EXCEPT ![Len(g)] = f]
  PROVE  /\ StackOK(h)
         /\ h # <<>>
         /\ h[Len(h)] = f
<1>1. Len(g) \in Nat \ {0} /\ Len(g) \in DOMAIN g /\ DOMAIN g = 1 .. Len(g)
  BY DEF StackOK
<1>2. f \in Frame
  BY DEF ProperFrame
<1>3. h \in Seq(Frame) /\ Len(h) = Len(g) /\ h[Len(g)] = f
  BY <1>1, <1>2 DEF StackOK
<1>4. \A i \in 1 .. Len(g) - 1 : h[i] = g[i]
  <2> DEFINE n == Len(g)
  <2>1. \A i \in DOMAIN g : i # n => h[i] = g[i]
    OBVIOUS
  <2>2. n \in Nat \ {0} /\ DOMAIN g = 1 .. n
    BY <1>1
  <2> HIDE DEF n
  <2>3. \A i \in 1 .. n - 1 : i \in 1 .. n /\ i # n
    BY <2>2
  <2>4. \A i \in 1 .. n - 1 : h[i] = g[i]
    BY <2>1, <2>2, <2>3, Zenon
  <2> QED
    BY <2>4 DEF n
<1>5. \A i \in 1 .. Len(h) : h[i] \in ProperFrame
  BY <1>1, <1>3, <1>4 DEF StackOK
<1>6. \A i \in 1 .. Len(h) - 1 : h[i].pc \in PumpPcs
  BY <1>1, <1>3, <1>4 DEF StackOK
<1>7. h # <<>>
  BY <1>1, <1>3
<1> QED
  BY <1>3, <1>5, <1>6, <1>7 DEF StackOK

\* Pushing a proper frame.
LEMMA CallStack ==
  ASSUME NEW g, StackOK(g), g = <<>> \/ g[Len(g)].pc \in PumpPcs,
         NEW f \in ProperFrame,
         NEW h, h = Append(g, f)
  PROVE  /\ StackOK(h)
         /\ h # <<>>
         /\ h[Len(h)] = f
<1>1. h \in Seq(Frame) /\ Len(h) = Len(g) + 1 /\ h[Len(h)] = f
  BY DEF StackOK, ProperFrame
<1>2. \A i \in 1 .. Len(g) : h[i] = g[i]
  BY DEF StackOK
<1>3. \A i \in 1 .. Len(h) - 1 : h[i].pc \in PumpPcs
  BY <1>1, <1>2 DEF StackOK
<1> QED
  BY <1>1, <1>3 DEF StackOK

\* Popping one.
LEMMA ReturnStack ==
  ASSUME NEW g, StackOK(g), g # <<>>,
         NEW h, h = SubSeq(g, 1, Len(g) - 1)
  PROVE  /\ StackOK(h)
         /\ h # <<>> => h[Len(h)].pc \in PumpPcs
<1>1. Len(g) \in Nat \ {0} /\ DOMAIN g = 1 .. Len(g)
  BY DEF StackOK
<1>2. h \in Seq(Frame) /\ Len(h) = Len(g) - 1
  BY <1>1 DEF StackOK
<1>3. \A i \in 1 .. Len(g) - 1 : h[i] = g[i]
  BY <1>1 DEF StackOK
<1> QED
  BY <1>1, <1>2, <1>3 DEF StackOK

-----------------------------------------------------------------------------
(* The inductive invariant.                                                *)

\* A handler about to start a worker has found, or made, the thread object
\* not joinable.
HandlerInv ==
  gui # <<>> =>
    /\ Top.pc \in StartPcs => thread = 0
    /\ Top.pc = "start" => newGeneration # 0

RegisteringPcs == {"unregister", "match", "register", "record"}

\* A worker that has emptied the registry finds only its own entries there.
RegistryInv ==
  /\ RegistryOfOneDiscovery
  /\ \A w \in workers : w.pc \in RegisteringPcs => \A c \in registry : c.gen = w.gen
  /\ \A w \in workers : w.pc \in {"register", "record"} =>
       \E d \in Devices : w.new = {[gen |-> w.gen, dev |-> d]}

IInv == TypeOK /\ StackOK(gui) /\ HandlerInv /\ OneWorker /\ RegistryInv

\* What a step of a handler that only moves on has to show.
LEMMA GotoInv ==
  ASSUME IInv, NEW pc \in Pcs, NEW next \in Pcs, At(pc), Goto(next),
         next \in StopPcs => Top.op \in Stoppers
  PROVE  /\ StackOK(gui')
         /\ gui' # <<>>
         /\ Top'.pc = next
         /\ Top'.op = Top.op
<1> DEFINE f == [Top EXCEPT !.pc = next]
<1>1. gui # <<>> /\ StackOK(gui)
  BY DEF IInv, At
<1>2. Top \in ProperFrame
  BY <1>1 DEF StackOK, Top
<1>3. f \in ProperFrame /\ f.pc = next /\ f.op = Top.op
  BY <1>2 DEF ProperFrame, Frame
<1>4. gui' = [gui EXCEPT ![Len(gui)] = f]
  BY <1>1 DEF Goto, Top, StackOK
<1> HIDE DEF f
<1>5. \A h : h = [gui EXCEPT ![Len(gui)] = f] =>
        StackOK(h) /\ h # <<>> /\ h[Len(h)] = f
  BY <1>1, <1>3, GotoStack
<1> QED
  BY <1>3, <1>4, <1>5 DEF Top

\* What a step that calls a handler has to show.
LEMMA CallInv ==
  ASSUME IInv, NEW op \in Ops, NEW pc \in Pcs, Call(op, pc),
         gui = <<>> \/ Top.pc \in PumpPcs,
         pc \in StopPcs => op \in Stoppers
  PROVE  /\ StackOK(gui')
         /\ gui' # <<>>
         /\ Top'.pc = pc
<1> DEFINE f == [op |-> op, pc |-> pc]
<1>1. f \in ProperFrame /\ f.pc = pc
  BY DEF ProperFrame, Frame
<1>2. StackOK(gui) /\ (gui = <<>> \/ gui[Len(gui)].pc \in PumpPcs)
  BY DEF IInv, Top
<1>3. gui' = Append(gui, f)
  BY DEF Call
<1> HIDE DEF f
<1>4. \A h : h = Append(gui, f) => StackOK(h) /\ h # <<>> /\ h[Len(h)] = f
  BY <1>1, <1>2, CallStack
<1> QED
  BY <1>1, <1>3, <1>4 DEF Top

\* What the last step of a handler has to show.
LEMMA ReturnInv ==
  ASSUME IInv, gui # <<>>, Return
  PROVE  /\ StackOK(gui')
         /\ gui' # <<>> => Top'.pc \in PumpPcs
<1>1. StackOK(gui)
  BY DEF IInv
<1>2. \A h : h = SubSeq(gui, 1, Len(gui) - 1) =>
        StackOK(h) /\ (h # <<>> => h[Len(h)].pc \in PumpPcs)
  BY <1>1, ReturnStack
<1> QED
  BY <1>2 DEF Return, Top

\* The innermost handler is a proper frame.
LEMMA TopProper ==
  ASSUME IInv, gui # <<>>
  PROVE  Top \in ProperFrame /\ Len(gui) \in Nat \ {0}
<1>1. StackOK(gui)
  BY DEF IInv
<1>2. Len(gui) \in Nat \ {0} /\ Len(gui) \in 1 .. Len(gui)
  BY <1>1 DEF StackOK
<1> QED
  BY <1>1, <1>2 DEF Top, StackOK

-----------------------------------------------------------------------------
(* Every step preserves the invariant.                                     *)

\* Steps that touch neither the workers, the thread object nor the registry.
LEMMA WorkersKept ==
  ASSUME IInv, UNCHANGED <<thread, workers, registry>>
  PROVE  OneWorker' /\ RegistryInv'
BY DEF IInv, OneWorker, RegistryInv, RegistryOfOneDiscovery

\* Steps of the other threads, which leave the handlers alone.
LEMMA HandlersKept ==
  ASSUME IInv, UNCHANGED <<thread, gui, newGeneration>>
  PROVE  StackOK(gui') /\ HandlerInv'
BY DEF IInv, HandlerInv, Top

\* The type of a step's new values, given that the stack stays proper.
TypeOKButGui ==
  /\ core \in Core
  /\ thread \in Nat
  /\ newGeneration \in Nat
  /\ doomed \in SUBSET Controllers
  /\ queue \in Seq(Events)
  /\ widget \in [text : Texts, running : BOOLEAN, devices : SUBSET Controllers]
  /\ workers \in SUBSET Worker
  /\ host \in [pc : HostPcs, flag : BOOLEAN]
  /\ registry \in SUBSET Controllers
  /\ hostList \in SUBSET Controllers
  /\ orphans \in SUBSET Controllers
  /\ terminated \in BOOLEAN
  /\ spent \in [detections : Nat, rescans : Nat, loads : Nat]

\* The widget shows a known text.
LEMMA ShowType ==
  ASSUME IInv, NEW text \in Texts, NEW running \in BOOLEAN, NEW keeps \in BOOLEAN,
         Show(text, running, keeps)
  PROVE  widget' \in [text : Texts, running : BOOLEAN, devices : SUBSET Controllers]
BY DEF IInv, TypeOK, Show, Shown, Status

\* The parts of the inductive invariant, put together.
LEMMA Assemble ==
  ASSUME TypeOKButGui', StackOK(gui'), HandlerInv', OneWorker', RegistryInv'
  PROVE  IInv'
BY DEF IInv, TypeOK, TypeOKButGui, StackOK, Frame

\* ... and taken apart.
LEMMA TypeParts == ASSUME IInv PROVE TypeOKButGui
BY DEF IInv, TypeOK, TypeOKButGui

\* DiscoverSignalRgbDevices up to the start of the worker.
LEMMA DiscoverInv ==
  ASSUME IInv, DiscoverGuard \/ DiscoverScanTest \/ DiscoverDefer \/ DiscoverBusyTest \/ DiscoverUncancel \/ DiscoverNewGeneration
  PROVE  IInv'
<1>1. CASE DiscoverGuard
  <2> USE <1>1 DEF DiscoverGuard
  <2>1. At("guard") /\ gui # <<>> /\ Top.pc = "guard"
    BY DEF At
  <2>2. Goto("scanTest") => StackOK(gui') /\ gui' # <<>> /\ Top'.pc = "scanTest"
    BY <2>1, GotoInv DEF Pcs, StopPcs
  <2>3. Return => StackOK(gui') /\ (gui' # <<>> => Top'.pc \in PumpPcs)
    BY <2>1, ReturnInv
  <2>4. StackOK(gui') /\ HandlerInv'
    BY <2>2, <2>3, <2>1 DEF IInv, HandlerInv, StartPcs, PumpPcs
  <2>5. TypeOKButGui'
    BY TypeParts DEF TypeOKButGui, locals, lists, others
  <2>6. OneWorker' /\ RegistryInv'
    BY WorkersKept DEF others, lists
  <2> QED
    BY <2>4, <2>5, <2>6, Assemble
<1>2. CASE DiscoverScanTest
  <2> USE <1>2 DEF DiscoverScanTest
  <2>1. At("scanTest") /\ gui # <<>> /\ Top.pc = "scanTest"
    BY DEF At
  <2>2. Goto("defer") => StackOK(gui') /\ gui' # <<>> /\ Top'.pc = "defer"
    BY <2>1, GotoInv DEF Pcs, StopPcs
  <2>3. Goto("busyTest") => StackOK(gui') /\ gui' # <<>> /\ Top'.pc = "busyTest"
    BY <2>1, GotoInv DEF Pcs, StopPcs
  <2>4. StackOK(gui') /\ HandlerInv'
    BY <2>2, <2>3, <2>1 DEF IInv, HandlerInv, StartPcs, PumpPcs
  <2>5. TypeOKButGui'
    BY TypeParts DEF TypeOKButGui, locals, lists, others
  <2>6. OneWorker' /\ RegistryInv'
    BY WorkersKept DEF others, lists
  <2> QED
    BY <2>4, <2>5, <2>6, Assemble
<1>3. CASE DiscoverDefer
  <2> USE <1>3 DEF DiscoverDefer
  <2>1. At("defer") /\ gui # <<>> /\ Top.pc = "defer"
    BY DEF At
  <2>2. Return => StackOK(gui') /\ (gui' # <<>> => Top'.pc \in PumpPcs)
    BY <2>1, ReturnInv
  <2>3. StackOK(gui') /\ HandlerInv'
    BY <2>2, <2>1 DEF IInv, HandlerInv, StartPcs, PumpPcs
  <2>4. TypeOKButGui'
    BY TypeParts, ShowType DEF TypeOKButGui, locals, lists, others, Core, Texts
  <2>5. OneWorker' /\ RegistryInv'
    BY WorkersKept DEF others, lists
  <2> QED
    BY <2>3, <2>4, <2>5, Assemble
<1>4. CASE DiscoverBusyTest
  <2> USE <1>4 DEF DiscoverBusyTest
  <2>1. At("busyTest") /\ gui # <<>> /\ Top.pc = "busyTest"
    BY DEF At
  <2>2. Goto("startJoin") => StackOK(gui') /\ gui' # <<>> /\ Top'.pc = "startJoin"
    BY <2>1, GotoInv DEF Pcs, StopPcs
  <2>3. Goto("uncancel") => StackOK(gui') /\ gui' # <<>> /\ Top'.pc = "uncancel"
    BY <2>1, GotoInv DEF Pcs, StopPcs
  <2>4. Return => StackOK(gui') /\ (gui' # <<>> => Top'.pc \in PumpPcs)
    BY <2>1, ReturnInv
  <2>5. StackOK(gui') /\ HandlerInv'
    BY <2>2, <2>3, <2>4, <2>1 DEF IInv, HandlerInv, StartPcs, PumpPcs
  <2>6. TypeOKButGui'
    BY TypeParts, ShowType DEF TypeOKButGui, locals, lists, others, Texts
  <2>7. OneWorker' /\ RegistryInv'
    BY WorkersKept DEF others, lists
  <2> QED
    BY <2>5, <2>6, <2>7, Assemble
<1>5. CASE DiscoverUncancel
  <2> USE <1>5 DEF DiscoverUncancel
  <2>1. At("uncancel") /\ gui # <<>> /\ Top.pc = "uncancel"
    BY DEF At
  <2>2. Goto("newGeneration") => StackOK(gui') /\ gui' # <<>> /\ Top'.pc = "newGeneration"
    BY <2>1, GotoInv DEF Pcs, StopPcs
  <2>3. StackOK(gui') /\ HandlerInv'
    BY <2>2, <2>1 DEF IInv, HandlerInv, StartPcs, PumpPcs
  <2>4. TypeOKButGui'
    BY TypeParts DEF TypeOKButGui, locals, lists, others, Core
  <2>5. OneWorker' /\ RegistryInv'
    BY WorkersKept DEF others, lists
  <2> QED
    BY <2>3, <2>4, <2>5, Assemble
<1>6. CASE DiscoverNewGeneration
  <2> USE <1>6 DEF DiscoverNewGeneration
  <2>1. At("newGeneration") /\ gui # <<>> /\ Top.pc = "newGeneration"
    BY DEF At
  <2>2. Goto("start") => StackOK(gui') /\ gui' # <<>> /\ Top'.pc = "start"
    BY <2>1, GotoInv DEF Pcs, StopPcs
  <2>3. StackOK(gui') /\ HandlerInv'
    BY <2>2, <2>1 DEF IInv, HandlerInv, StartPcs, PumpPcs, TypeOK, Core
  <2>4. TypeOKButGui'
    BY TypeParts DEF TypeOKButGui, locals, lists, others, Core
  <2>5. OneWorker' /\ RegistryInv'
    BY WorkersKept DEF others, lists
  <2> QED
    BY <2>3, <2>4, <2>5, Assemble
<1> QED
  BY <1>1, <1>2, <1>3, <1>4, <1>5, <1>6

\* StopDiscoveryThread but for its join.
LEMMA StopInv ==
  ASSUME IInv, StopCancel \/ StopSupersede \/ StopDone
  PROVE  IInv'
<1>1. CASE StopCancel
  <2> USE <1>1 DEF StopCancel
  <2>1. At("cancel") /\ gui # <<>> /\ Top.pc = "cancel"
    BY DEF At
  <2>2. Goto("supersede") => StackOK(gui') /\ gui' # <<>> /\ Top'.pc = "supersede"
    BY <2>1, GotoInv, TopProper DEF Pcs, StopPcs, ProperFrame
  <2>3. StackOK(gui') /\ HandlerInv'
    BY <2>2, <2>1 DEF IInv, HandlerInv, StartPcs, PumpPcs
  <2>4. TypeOKButGui'
    BY TypeParts DEF TypeOKButGui, locals, lists, others, Core
  <2>5. OneWorker' /\ RegistryInv'
    BY WorkersKept DEF others, lists
  <2> QED
    BY <2>3, <2>4, <2>5, Assemble
<1>2. CASE StopSupersede
  <2> USE <1>2 DEF StopSupersede
  <2>1. At("supersede") /\ gui # <<>> /\ Top.pc = "supersede"
    BY DEF At
  <2>2. Goto("stopJoin") => StackOK(gui') /\ gui' # <<>> /\ Top'.pc = "stopJoin"
    BY <2>1, GotoInv, TopProper DEF Pcs, StopPcs, ProperFrame
  <2>3. Goto("stopped") => StackOK(gui') /\ gui' # <<>> /\ Top'.pc = "stopped"
    BY <2>1, GotoInv, TopProper DEF Pcs, StopPcs, ProperFrame
  <2>4. StackOK(gui') /\ HandlerInv'
    BY <2>2, <2>3, <2>1 DEF IInv, HandlerInv, StartPcs, PumpPcs
  <2>5. TypeOKButGui'
    BY TypeParts DEF TypeOKButGui, locals, lists, others, Core
  <2>6. OneWorker' /\ RegistryInv'
    BY WorkersKept DEF others, lists
  <2> QED
    BY <2>4, <2>5, <2>6, Assemble
<1>3. CASE StopDone
  <2> USE <1>3 DEF StopDone
  <2>1. At("stopped") /\ gui # <<>> /\ Top.pc = "stopped"
    BY DEF At
  <2>2. Goto("wait1") => StackOK(gui') /\ gui' # <<>> /\ Top'.pc = "wait1"
    BY <2>1, GotoInv, TopProper DEF Pcs, StopPcs, ProperFrame
  <2>3. Goto("guard") => StackOK(gui') /\ gui' # <<>> /\ Top'.pc = "guard"
    BY <2>1, GotoInv, TopProper DEF Pcs, StopPcs, ProperFrame
  <2>4. Goto("abandon") => StackOK(gui') /\ gui' # <<>> /\ Top'.pc = "abandon"
    BY <2>1, GotoInv, TopProper DEF Pcs, StopPcs, ProperFrame
  <2>a. Top.op \in Stoppers
    BY <2>1, TopProper DEF ProperFrame, StopPcs
  <2>b. Goto("wait1") \/ Goto("guard") \/ Goto("abandon")
    BY <2>a DEF Stoppers, AfterStop
  <2>5. StackOK(gui') /\ HandlerInv'
    BY <2>2, <2>3, <2>4, <2>1, <2>b DEF IInv, HandlerInv, StartPcs, PumpPcs
  <2>6. TypeOKButGui'
    BY TypeParts DEF TypeOKButGui, locals, lists, others, Core
  <2>7. OneWorker' /\ RegistryInv'
    BY WorkersKept DEF others, lists
  <2> QED
    BY <2>5, <2>6, <2>7, Assemble
<1> QED
  BY <1>1, <1>2, <1>3

\* Unload and the API 4 callback, where the registry stays as it is.
LEMMA UnloadInv ==
  ASSUME IInv, UnloadWaitBefore \/ UnloadUnregistered \/ UnloadWaitAfter \/ UnloadForget
  PROVE  IInv'
<1>1. CASE UnloadWaitBefore
  <2> USE <1>1 DEF UnloadWaitBefore, UnloadWait
  <2>1. At("wait1") /\ gui # <<>> /\ Top.pc = "wait1"
    BY DEF At
  <2>2. Goto("takeRegistry") => StackOK(gui') /\ gui' # <<>> /\ Top'.pc = "takeRegistry"
    BY <2>1, GotoInv DEF Pcs, StopPcs
  <2>3. StackOK(gui') /\ HandlerInv'
    BY <2>2, <2>1 DEF IInv, HandlerInv, StartPcs, PumpPcs
  <2>4. TypeOKButGui'
    BY TypeParts DEF TypeOKButGui, locals, lists, others
  <2>5. OneWorker' /\ RegistryInv'
    BY WorkersKept DEF others, lists
  <2> QED
    BY <2>3, <2>4, <2>5, Assemble
<1>2. CASE UnloadUnregistered
  <2> USE <1>2 DEF UnloadUnregistered
  <2>1. At("unregister") /\ gui # <<>> /\ Top.pc = "unregister"
    BY DEF At
  <2>2. Goto("wait2") => StackOK(gui') /\ gui' # <<>> /\ Top'.pc = "wait2"
    BY <2>1, GotoInv DEF Pcs, StopPcs
  <2>3. StackOK(gui') /\ HandlerInv'
    BY <2>2, <2>1 DEF IInv, HandlerInv, StartPcs, PumpPcs
  <2>4. TypeOKButGui'
    BY TypeParts DEF TypeOKButGui, locals, lists, others
  <2>5. OneWorker' /\ RegistryInv'
    BY WorkersKept DEF others, lists
  <2> QED
    BY <2>3, <2>4, <2>5, Assemble
<1>3. CASE UnloadWaitAfter
  <2> USE <1>3 DEF UnloadWaitAfter, UnloadWait
  <2>1. At("wait2") /\ gui # <<>> /\ Top.pc = "wait2"
    BY DEF At
  <2>2. Goto("forget") => StackOK(gui') /\ gui' # <<>> /\ Top'.pc = "forget"
    BY <2>1, GotoInv DEF Pcs, StopPcs
  <2>3. StackOK(gui') /\ HandlerInv'
    BY <2>2, <2>1 DEF IInv, HandlerInv, StartPcs, PumpPcs
  <2>4. TypeOKButGui'
    BY TypeParts DEF TypeOKButGui, locals, lists, others
  <2>5. OneWorker' /\ RegistryInv'
    BY WorkersKept DEF others, lists
  <2> QED
    BY <2>3, <2>4, <2>5, Assemble
<1>4. CASE UnloadForget
  <2> USE <1>4 DEF UnloadForget
  <2>1. At("forget") /\ gui # <<>> /\ Top.pc = "forget"
    BY DEF At
  <2>2. Return => StackOK(gui') /\ (gui' # <<>> => Top'.pc \in PumpPcs)
    BY <2>1, ReturnInv
  <2>3. StackOK(gui') /\ HandlerInv'
    BY <2>2, <2>1 DEF IInv, HandlerInv, StartPcs, PumpPcs
  <2>4. TypeOKButGui'
    BY TypeParts, ShowType DEF TypeOKButGui, locals, lists, others, Core, Texts
  <2>5. OneWorker' /\ RegistryInv'
    BY WorkersKept DEF others, lists
  <2> QED
    BY <2>3, <2>4, <2>5, Assemble
<1> QED
  BY <1>1, <1>2, <1>3, <1>4

\* The steps that join, and so make the thread object not joinable: the worker
\* it owned, the only one, has ended.
LEMMA JoinInv ==
  ASSUME IInv, DiscoverJoin \/ StopJoin
  PROVE  IInv'
<1>1. gui # <<>> /\ UNCHANGED <<core, locals, queue, widget, workers, host, lists, spent>>
  BY DEF DiscoverJoin, StopJoin, JoinThread, At
<1>2. Top.pc = "stopJoin" => Top.op \in Stoppers
  BY <1>1, TopProper DEF ProperFrame, StopPcs
<1>3. CASE thread = 0
  <2>1. terminated' = TRUE /\ UNCHANGED <<thread, gui>>
    BY <1>3 DEF DiscoverJoin, StopJoin, JoinThread
  <2>2. StackOK(gui') /\ HandlerInv'
    BY <1>1, <2>1, HandlersKept DEF locals
  <2>3. OneWorker' /\ RegistryInv'
    BY <1>1, <2>1, WorkersKept DEF lists
  <2>4. TypeOKButGui'
    BY <1>1, <2>1, TypeParts DEF TypeOKButGui, locals, lists
  <2> QED
    BY <2>2, <2>3, <2>4, Assemble
<1>4. CASE thread # 0
  <2>1. Finished(thread) /\ thread' = 0 /\ terminated' = terminated
    BY <1>4 DEF DiscoverJoin, StopJoin, JoinThread
  <2>2. StackOK(gui') /\ gui' # <<>> /\ Top'.pc \in {"uncancel", "stopped"}
    <3>1. CASE DiscoverJoin
      <4>1. At("startJoin") /\ Goto("uncancel")
        BY <1>4, <3>1 DEF DiscoverJoin, JoinThread
      <4> QED
        BY <4>1, GotoInv DEF Pcs, StopPcs
    <3>2. CASE StopJoin
      <4>1. At("stopJoin") /\ Goto("stopped") /\ Top.op \in Stoppers
        BY <1>2, <1>4, <3>2 DEF StopJoin, JoinThread, At
      <4> QED
        BY <4>1, GotoInv DEF Pcs, StopPcs
    <3> QED
      BY <3>1, <3>2
  <2>3. HandlerInv'
    BY <2>1, <2>2 DEF HandlerInv
  <2>4. workers = {}
    BY <2>1 DEF Finished, IInv, OneWorker
  <2>5. OneWorker' /\ RegistryInv'
    BY <1>1, <2>4 DEF IInv, OneWorker, RegistryInv, RegistryOfOneDiscovery, lists
  <2>6. TypeOKButGui'
    BY <1>1, <2>1, TypeParts DEF TypeOKButGui, locals, lists
  <2> QED
    BY <2>2, <2>3, <2>5, <2>6, Assemble
<1> QED
  BY <1>3, <1>4

\* Posting an event keeps the queue a sequence of events.
LEMMA PostEvents ==
  ASSUME IInv, NEW e \in Events, Post(e)
  PROVE  queue' \in Seq(Events)
BY DEF IInv, TypeOK, Post

\* The start of a worker: there is no other.
LEMMA StartInv ==
  ASSUME IInv, DiscoverStart
  PROVE  IInv'
<1> USE DEF DiscoverStart
<1>1. gui # <<>> /\ Top.pc = "start"
  BY DEF At
<1>2. thread = 0 /\ newGeneration \in Nat \ {0}
  BY <1>1 DEF IInv, TypeOK, HandlerInv, StartPcs
<1>3. workers = {}
  BY <1>2 DEF IInv, OneWorker
<1>4. workers' = {NewWorker(newGeneration)} /\ thread' = newGeneration
  BY <1>3
<1>5. StackOK(gui') /\ HandlerInv'
  BY <1>1, ReturnInv DEF HandlerInv, StartPcs, PumpPcs
<1>6. OneWorker'
  <2>1. \A w \in workers' : w = NewWorker(newGeneration) /\ w.gen = newGeneration
    BY <1>4 DEF NewWorker
  <2> QED
    BY <1>2, <1>4, <2>1 DEF OneWorker
<1>7. RegistryInv'
  <2>1. registry' = registry /\ RegistryOfOneDiscovery
    BY DEF IInv, RegistryInv, lists
  <2>2. \A w \in workers' : w.pc = "waitHost"
    BY <1>4 DEF NewWorker
  <2> QED
    BY <2>1, <2>2 DEF RegistryInv, RegistryOfOneDiscovery, RegisteringPcs
<1>8. TypeOKButGui'
  <2>1. NewWorker(newGeneration) \in Worker
    BY <1>2 DEF NewWorker, Worker, WorkerPcs
  <2>2. Status(newGeneration, "scanning", TRUE, FALSE, {}) \in Events
    BY <1>2 DEF Status, Events, Texts
  <2>3. queue' \in Seq(Events)
    BY <2>2, PostEvents
  <2>4. workers' \in SUBSET Worker /\ thread' \in Nat /\ terminated' \in BOOLEAN
    BY <1>2, <1>4, <2>1
  <2>5. core' \in Core
    BY TypeParts DEF TypeOKButGui, Core
  <2> QED
    BY <2>3, <2>4, <2>5, TypeParts DEF TypeOKButGui, locals, lists
<1> QED
  BY <1>5, <1>6, <1>7, <1>8, Assemble

\* After an exception of the host its list and the orphans are of controllers.
LEMMA ThrownTypes ==
  ASSUME IInv, NEW entries \in SUBSET Controllers, HostCallThrows(entries)
  PROVE  hostList' \in SUBSET Controllers /\ orphans' \in SUBSET Controllers
BY DEF HostCallThrows, IInv, TypeOK

\* The steps of Unload that unregister.
LEMMA UnregisterInv ==
  ASSUME IInv, UnloadTakeRegistry \/ UnloadUnregister \/ UnloadThrows
  PROVE  IInv'
<1>1. CASE UnloadTakeRegistry
  <2> USE <1>1 DEF UnloadTakeRegistry
  <2>1. At("takeRegistry") /\ gui # <<>>
    BY DEF At
  <2>2. StackOK(gui') /\ gui' # <<>> /\ Top'.pc = "unregister"
    BY <2>1, GotoInv DEF Pcs, StopPcs
  <2>3. HandlerInv'
    BY <2>2 DEF HandlerInv, StartPcs
  <2>4. OneWorker' /\ RegistryInv'
    BY DEF IInv, OneWorker, RegistryInv, RegistryOfOneDiscovery, others
  <2>5. TypeOKButGui'
    BY TypeParts DEF TypeOKButGui, others
  <2> QED
    BY <2>2, <2>3, <2>4, <2>5, Assemble
<1>2. CASE UnloadUnregister
  <2> USE <1>2 DEF UnloadUnregister
  <2>1. StackOK(gui') /\ HandlerInv'
    BY HandlersKept
  <2>2. OneWorker' /\ RegistryInv'
    BY WorkersKept DEF others
  <2>3. TypeOKButGui'
    BY TypeParts DEF TypeOKButGui, others
  <2> QED
    BY <2>1, <2>2, <2>3, Assemble
<1>3. CASE UnloadThrows
  <2> USE <1>3 DEF UnloadThrows
  <2>1. StackOK(gui') /\ HandlerInv'
    BY HandlersKept
  <2>2. OneWorker' /\ RegistryInv'
    BY WorkersKept DEF others
  <2>3. hostList' \in SUBSET Controllers /\ orphans' \in SUBSET Controllers
    BY TypeParts, ThrownTypes DEF TypeOKButGui
  <2>4. TypeOKButGui'
    BY <2>3, TypeParts DEF TypeOKButGui, others
  <2> QED
    BY <2>1, <2>2, <2>4, Assemble
<1> QED
  BY <1>1, <1>2, <1>3

\* What a scan of the host posts is an event.
LEMMA DetectionEvent ==
  ASSUME IInv, Post(DetectionStatus)
  PROVE  queue' \in Seq(Events)
<1>1. core.generation \in Nat /\ queue \in Seq(Events)
  BY DEF IInv, TypeOK, Core
<1>2. DetectionStatus \in Events
  BY <1>1 DEF DetectionStatus, Status, Events, Texts
<1> QED
  BY <1>2, PostEvents

\* The API 4 callback, which abandons the registry.
LEMMA DetectionInv ==
  ASSUME IInv, DetectionStart \/ DetectionPending \/ DetectionAbandon \/ DetectionAnnounce
  PROVE  IInv'
<1>1. CASE DetectionStart
  <2> USE <1>1 DEF DetectionStart
  <2>1. gui = <<>>
    BY DEF Idle
  <2>2. StackOK(gui') /\ HandlerInv'
    <3>1. CASE core.manager
      <4>1. Call("detection", "pending")
        BY <3>1
      <4>2. StackOK(gui') /\ gui' # <<>> /\ Top'.pc = "pending"
        BY <2>1, <4>1, CallInv DEF Ops, Pcs, StopPcs, Stoppers
      <4> QED
        BY <4>2 DEF HandlerInv, StartPcs
    <3>2. CASE ~core.manager
      BY <2>1, <3>2 DEF IInv, HandlerInv
    <3> QED
      BY <3>1, <3>2
  <2>3. OneWorker' /\ RegistryInv'
    BY WorkersKept DEF lists
  <2>4. core' \in Core /\ host' \in [pc : HostPcs, flag : BOOLEAN]
    BY TypeParts DEF TypeOKButGui, Core, HostGoto, HostPcs
  <2>5. spent' \in [detections : Nat, rescans : Nat, loads : Nat]
    BY TypeParts DEF TypeOKButGui
  <2>6. TypeOKButGui'
    BY <2>4, <2>5, TypeParts DEF TypeOKButGui, locals, lists
  <2> QED
    BY <2>2, <2>3, <2>6, Assemble
<1>2. CASE DetectionPending
  <2> USE <1>2 DEF DetectionPending
  <2>1. At("pending") /\ gui # <<>> /\ Top.op \in Stoppers
    BY TopProper DEF At, ProperFrame, StopPcs
  <2>2. StackOK(gui') /\ gui' # <<>> /\ Top'.pc = "cancel"
    BY <2>1, GotoInv DEF Pcs, StopPcs
  <2>3. HandlerInv'
    BY <2>2 DEF HandlerInv, StartPcs
  <2>4. OneWorker' /\ RegistryInv'
    BY WorkersKept DEF others, lists
  <2>5. TypeOKButGui'
    BY TypeParts DEF TypeOKButGui, Core, locals, lists, others
  <2> QED
    BY <2>2, <2>3, <2>4, <2>5, Assemble
<1>3. CASE DetectionAbandon
  <2> USE <1>3 DEF DetectionAbandon
  <2>1. At("abandon") /\ gui # <<>>
    BY DEF At
  <2>2. StackOK(gui') /\ gui' # <<>> /\ Top'.pc = "announce"
    BY <2>1, GotoInv DEF Pcs, StopPcs
  <2>3. HandlerInv'
    BY <2>2 DEF HandlerInv, StartPcs
  <2>4. OneWorker' /\ RegistryInv'
    BY DEF IInv, OneWorker, RegistryInv, RegistryOfOneDiscovery, others
  <2>5. TypeOKButGui'
    BY TypeParts DEF TypeOKButGui, locals, others
  <2> QED
    BY <2>2, <2>3, <2>4, <2>5, Assemble
<1>4. CASE DetectionAnnounce
  <2> USE <1>4 DEF DetectionAnnounce
  <2>1. gui # <<>>
    BY DEF At
  <2>2. StackOK(gui') /\ HandlerInv'
    BY <2>1, ReturnInv DEF HandlerInv, StartPcs, PumpPcs
  <2>3. OneWorker' /\ RegistryInv'
    BY WorkersKept DEF lists
  <2>4. host' \in [pc : HostPcs, flag : BOOLEAN]
    BY TypeParts DEF TypeOKButGui, HostGoto, HostPcs
  <2>5. TypeOKButGui'
    BY <2>4, DetectionEvent, TypeParts DEF TypeOKButGui, locals, lists
  <2> QED
    BY <2>2, <2>3, <2>5, Assemble
<1> QED
  BY <1>1, <1>2, <1>3, <1>4

\* Load, a click on the rescan button and Unload find no handler running.
LEMMA RequestInv ==
  ASSUME IInv, Load \/ Rescan \/ Unload
  PROVE  IInv'
<1>1. gui = <<>> /\ \E op \in {"load", "rescan", "unload"}, pc \in {"guard", "cancel"} :
        Call(op, pc) /\ (pc = "cancel" => op = "unload")
  BY DEF Load, Rescan, Unload, Idle
<1>2. PICK op \in {"load", "rescan", "unload"}, pc \in {"guard", "cancel"} :
        Call(op, pc) /\ (pc = "cancel" => op = "unload")
  BY <1>1
<1>3. StackOK(gui') /\ gui' # <<>> /\ Top'.pc = pc
  BY <1>1, <1>2, CallInv DEF Ops, Pcs, StopPcs, Stoppers
<1>4. HandlerInv'
  BY <1>3 DEF HandlerInv, StartPcs
<1>5. OneWorker' /\ RegistryInv'
  BY WorkersKept DEF Load, Rescan, Unload, lists, others
<1>6. core' \in Core /\ spent' \in [detections : Nat, rescans : Nat, loads : Nat]
  <2>1. CASE Load
    <3>1. core' \in Core
      BY <2>1, TypeParts DEF TypeOKButGui, Core, Load
    <3>2. spent' \in [detections : Nat, rescans : Nat, loads : Nat]
      BY <2>1, TypeParts DEF TypeOKButGui, Load
    <3> QED
      BY <3>1, <3>2
  <2>2. CASE Rescan
    BY <2>2, TypeParts DEF TypeOKButGui, Core, Rescan
  <2>3. CASE Unload
    BY <2>3, TypeParts DEF TypeOKButGui, Core, Unload, others
  <2> QED
    BY <2>1, <2>2, <2>3
<1>7. TypeOKButGui'
  BY <1>6, TypeParts DEF TypeOKButGui, Load, Rescan, Unload, locals, lists, others
<1> QED
  BY <1>3, <1>4, <1>5, <1>7, Assemble

\* A delivered event finds no handler running, or one that waits.
LEMMA DeliverInv ==
  ASSUME IInv, Deliver
  PROVE  IInv'
<1>1. queue # <<>> /\ queue' = Tail(queue) /\ Serves
  BY DEF Deliver, DeliverStatus, DeliverRediscover
<1>2. queue \in Seq(Events)
  BY DEF IInv, TypeOK
<1>3. queue' \in Seq(Events) /\ Head(queue) \in Events
  BY <1>1, <1>2
<1>4. OneWorker' /\ RegistryInv'
  BY WorkersKept DEF Deliver, DeliverStatus, DeliverRediscover, lists, others
<1>5. CASE DeliverStatus
  <2>1. StackOK(gui') /\ HandlerInv'
    BY <1>5, HandlersKept DEF DeliverStatus, locals
  <2>2. widget' \in [text : Texts, running : BOOLEAN, devices : SUBSET Controllers]
    <3>1. Head(queue) \in [kind : {"status"}, gen : Nat, text : Texts, running : BOOLEAN,
                           keeps : BOOLEAN, devices : SUBSET Controllers]
      BY <1>3, <1>5 DEF DeliverStatus, Events, Rediscover
    <3> QED
      BY <1>5, <3>1, TypeParts DEF DeliverStatus, Shown, TypeOKButGui
  <2>3. TypeOKButGui'
    BY <1>3, <1>5, <2>2, TypeParts DEF TypeOKButGui, DeliverStatus, locals, lists, others
  <2> QED
    BY <1>4, <2>1, <2>3, Assemble
<1>6. CASE DeliverRediscover
  <2> USE <1>6 DEF DeliverRediscover
  <2>1. gui = <<>> \/ Top.pc \in PumpPcs
    BY <1>1 DEF Serves, Pumps, PumpPcs
  <2>2. StackOK(gui') /\ HandlerInv'
    <3>1. CASE core.unloading
      BY <3>1, HandlersKept DEF locals
    <3>2. CASE ~core.unloading
      <4>1. PICK pc \in {"guard", "cancel"} : Call("rediscover", pc)
        BY <3>2
      <4>2. StackOK(gui') /\ gui' # <<>> /\ Top'.pc = pc
        BY <2>1, <4>1, CallInv DEF Ops, Pcs, StopPcs, Stoppers
      <4> QED
        BY <4>2 DEF HandlerInv, StartPcs
    <3> QED
      BY <3>1, <3>2
  <2>3. TypeOKButGui'
    BY <1>3, TypeParts DEF TypeOKButGui, locals, lists, others
  <2> QED
    BY <1>4, <2>2, <2>3, Assemble
<1> QED
  BY <1>5, <1>6 DEF Deliver

\* The host's thread touches neither the handlers, the workers nor the registry.
LEMMA HostInv ==
  ASSUME IInv, HostStart \/ HostContinue
  PROVE  IInv'
<1> USE DEF HostContinue
<1>1. UNCHANGED <<thread, gui, newGeneration, workers, registry>>
  BY DEF HostStart, HostReadUnloading, HostSetPending, HostCancel, HostSupersede, HostAnnounce,
         HostDropAll, HostEnd, HostDecide, HostRepost, HostClear, locals, lists
<1>2. StackOK(gui') /\ HandlerInv'
  BY <1>1, HandlersKept
<1>3. OneWorker' /\ RegistryInv'
  BY <1>1, WorkersKept
<1>4. TypeOKButGui'
  <2> USE TypeParts DEF TypeOKButGui, locals, lists
  <2>1. CASE HostStart
    <3>1. core' \in Core /\ host' \in [pc : HostPcs, flag : BOOLEAN]
      BY <2>1 DEF HostStart, HostGoto, HostPcs, Core
    <3>2. spent' \in [detections : Nat, rescans : Nat, loads : Nat]
      BY <2>1 DEF HostStart
    <3> QED
      BY <2>1, <3>1, <3>2 DEF HostStart
  <2>2. CASE HostReadUnloading
    BY <2>2 DEF HostReadUnloading, HostPcs, Core
  <2>3. CASE HostSetPending
    BY <2>3 DEF HostSetPending, HostGoto, HostPcs, Core
  <2>4. CASE HostCancel
    BY <2>4 DEF HostCancel, HostGoto, HostPcs, Core
  <2>5. CASE HostSupersede
    BY <2>5 DEF HostSupersede, HostGoto, HostPcs, Core
  <2>6. CASE HostAnnounce
    <3>1. host' \in [pc : HostPcs, flag : BOOLEAN]
      BY <2>6 DEF HostAnnounce, HostGoto, HostPcs
    <3> QED
      BY <2>6, <3>1, DetectionEvent DEF HostAnnounce
  <2>7. CASE HostDropAll
    BY <2>7 DEF HostDropAll, HostGoto, HostPcs
  <2>8. CASE HostEnd
    BY <2>8 DEF HostEnd, HostPcs, Core
  <2>9. CASE HostDecide
    BY <2>9 DEF HostDecide, HostGoto, HostPcs
  <2>10. CASE HostRepost
    <3>1. host' \in [pc : HostPcs, flag : BOOLEAN]
      BY <2>10 DEF HostRepost, HostGoto, HostPcs
    <3>2. queue' \in Seq(Events)
      BY <2>10 DEF HostRepost, Post, Events
    <3> QED
      BY <2>10, <3>1, <3>2 DEF HostRepost
  <2>11. CASE HostClear
    BY <2>11 DEF HostClear, HostGoto, HostPcs, Core
  <2> QED
    BY <2>1, <2>2, <2>3, <2>4, <2>5, <2>6, <2>7, <2>8, <2>9, <2>10, <2>11
<1> QED
  BY <1>2, <1>3, <1>4, Assemble

\* The worker that takes a step is the only one, and stays the only one.
LEMMA Becomes ==
  ASSUME IInv, NEW w \in workers, NEW v \in Worker, Become(w, v), v.gen = w.gen,
         thread' = thread
  PROVE  workers' = {v} /\ workers' \in SUBSET Worker /\ OneWorker'
<1>1. workers = {w} /\ w.gen = thread /\ thread # 0
  BY DEF IInv, OneWorker
<1>2. workers' = {v}
  BY <1>1 DEF Become
<1> QED
  BY <1>1, <1>2 DEF OneWorker

\* A worker's step that leaves the registry alone, to a place where it has no
\* more claim on the registry than before.
LEMMA RegistryKept ==
  ASSUME IInv, NEW w \in workers, NEW v, workers' = {v}, v.gen = w.gen,
         registry' = registry,
         v.pc \in RegisteringPcs => w.pc \in RegisteringPcs,
         v.pc \in {"register", "record"} =>
           \E d \in Devices : v.new = {[gen |-> v.gen, dev |-> d]}
  PROVE  RegistryInv'
<1>1. RegistryOfOneDiscovery
      /\ (w.pc \in RegisteringPcs => \A c \in registry : c.gen = w.gen)
  BY DEF IInv, RegistryInv
<1>2. RegistryOfOneDiscovery'
  BY <1>1 DEF RegistryOfOneDiscovery
<1>3. v.pc \in RegisteringPcs => \A c \in registry' : c.gen = v.gen
  BY <1>1
<1> QED
  BY <1>2, <1>3 DEF RegistryInv

\* The worker's own steps.
LEMMA WorkerInv ==
  ASSUME IInv, NEW w \in workers, WorkerStep(w)
  PROVE  IInv'
<1> USE DEF WorkerStep
<1>1. UNCHANGED <<thread, gui, newGeneration, doomed, host, terminated, spent, widget>>
  BY DEF WorkerWaitHost, WorkerCheck, WorkerTakeRegistry, WorkerUnregister, WorkerUnregisterThrows, WorkerScan, WorkerFails,
         WorkerPick, WorkerAbort, WorkerRegister, WorkerRegisterThrows, WorkerFail, WorkerRecord, WorkerPublish,
         WorkerExit, workerFrame, locals
<1>2. StackOK(gui') /\ HandlerInv'
  BY <1>1, HandlersKept
<1>3. w \in Worker /\ TypeOKButGui
  BY TypeParts DEF TypeOKButGui
<1>4. ASSUME core' \in Core, queue' \in Seq(Events), registry' \in SUBSET Controllers,
             hostList' \in SUBSET Controllers, orphans' \in SUBSET Controllers,
             workers' \in SUBSET Worker, OneWorker', RegistryInv'
      PROVE  IInv'
  <2>1. TypeOKButGui'
    BY <1>1, <1>3, <1>4 DEF TypeOKButGui
  <2> QED
    BY <1>2, <1>4, <2>1, Assemble
<1>5. ASSUME NEW pc \in WorkerPcs, WorkerGoto(w, pc), registry' = registry,
             core' = core, queue' \in Seq(Events), hostList' \in SUBSET Controllers,
             orphans' \in SUBSET Controllers,
             pc \in RegisteringPcs => w.pc \in RegisteringPcs,
             pc \in {"register", "record"} => w.pc \in {"register", "record"}
      PROVE  IInv'
  <2> DEFINE v == [w EXCEPT !.pc = pc]
  <2>1. v \in Worker /\ v.gen = w.gen /\ v.pc = pc /\ v.new = w.new
    BY <1>3, <1>5 DEF Worker
  <2>2. Become(w, v)
    BY <1>5 DEF WorkerGoto
  <2> HIDE DEF v
  <2>3. workers' = {v} /\ workers' \in SUBSET Worker /\ OneWorker'
    BY <1>1, <2>1, <2>2, Becomes
  <2>4. v.pc \in {"register", "record"} =>
          \E d \in Devices : v.new = {[gen |-> v.gen, dev |-> d]}
    BY <1>5, <2>1 DEF IInv, RegistryInv
  <2>5. RegistryInv'
    BY <1>5, <2>1, <2>3, <2>4, RegistryKept
  <2> QED
    BY <1>3, <1>4, <1>5, <2>3, <2>5 DEF TypeOKButGui
<1>6. CASE WorkerWaitHost(w)
  BY <1>3, <1>5, <1>6 DEF WorkerWaitHost, WorkerPcs, RegisteringPcs, TypeOKButGui, lists
<1>7. CASE WorkerCheck(w)
  <2>1. \E pc \in {"exit", "takeRegistry"} : WorkerGoto(w, pc)
    BY <1>7 DEF WorkerCheck
  <2> QED
    BY <1>3, <1>5, <1>7, <2>1 DEF WorkerCheck, WorkerPcs, RegisteringPcs, TypeOKButGui, lists
<1>8. CASE WorkerTakeRegistry(w)
  <2> DEFINE v == [w EXCEPT !.pc = "unregister", !.old = registry]
  <2>1. v \in Worker /\ v.gen = w.gen /\ v.pc = "unregister"
    BY <1>3 DEF Worker, WorkerPcs, TypeOKButGui
  <2>2. Become(w, v)
    BY <1>8 DEF WorkerTakeRegistry
  <2> HIDE DEF v
  <2>3. workers' = {v} /\ workers' \in SUBSET Worker /\ OneWorker'
    BY <1>1, <2>1, <2>2, Becomes
  <2>4. RegistryInv'
    BY <1>8, <2>1, <2>3 DEF WorkerTakeRegistry, RegistryInv, RegistryOfOneDiscovery
  <2> QED
    BY <1>3, <1>4, <1>8, <2>3, <2>4 DEF WorkerTakeRegistry, TypeOKButGui
<1>9. CASE WorkerUnregister(w)
  <2>1. PICK c \in w.old : Become(w, [w EXCEPT !.old = @ \ {c}]) /\ hostList' = hostList \ {c}
    BY <1>9 DEF WorkerUnregister
  <2> DEFINE v == [w EXCEPT !.old = @ \ {c}]
  <2>2. v \in Worker /\ v.gen = w.gen /\ v.pc = "unregister"
    BY <1>3, <1>9 DEF Worker, WorkerPcs, WorkerUnregister, WorkerAt
  <2>3. Become(w, v)
    BY <2>1
  <2> HIDE DEF v
  <2>4. workers' = {v} /\ workers' \in SUBSET Worker /\ OneWorker'
    BY <1>1, <2>2, <2>3, Becomes
  <2>5. registry' = registry /\ w.pc = "unregister"
    BY <1>9 DEF WorkerUnregister, WorkerAt
  <2>6. RegistryInv'
    BY <2>2, <2>4, <2>5, RegistryKept
  <2> QED
    BY <1>3, <1>4, <1>9, <2>1, <2>4, <2>6 DEF WorkerUnregister, TypeOKButGui
<1>10. CASE WorkerScan(w)
  <2>1. w.pc = "unregister" /\ UNCHANGED <<core, registry, hostList, orphans>>
    BY <1>10 DEF WorkerScan, WorkerAt, lists
  <2>2. CASE IsDiscoveryStale(w.gen)
    <3>1. WorkerGoto(w, "exit") /\ queue' = queue
      BY <1>10, <2>2 DEF WorkerScan
    <3> QED
      BY <1>3, <1>5, <2>1, <3>1 DEF WorkerPcs, RegisteringPcs, TypeOKButGui
  <2>3. CASE ~IsDiscoveryStale(w.gen)
    <3>1. WorkerGoto(w, "match") /\ Post(Status(w.gen, "matching", TRUE, TRUE, {}))
      BY <1>10, <2>3 DEF WorkerScan
    <3>2. Status(w.gen, "matching", TRUE, TRUE, {}) \in Events
      BY <1>3 DEF Status, Events, Texts, Worker
    <3>3. queue' \in Seq(Events)
      BY <3>1, <3>2, PostEvents
    <3> QED
      BY <1>3, <1>5, <2>1, <3>1, <3>3 DEF WorkerPcs, RegisteringPcs, TypeOKButGui
  <2> QED
    BY <2>2, <2>3
<1>11. CASE WorkerPick(w)
  <2>1. PICK d \in w.left :
          Become(w, [w EXCEPT !.pc = "register", !.left = @ \ {d},
                              !.new = {[gen |-> w.gen, dev |-> d]}])
    BY <1>11 DEF WorkerPick
  <2> DEFINE v == [w EXCEPT !.pc = "register", !.left = @ \ {d},
                            !.new = {[gen |-> w.gen, dev |-> d]}]
  <2>2. d \in Devices /\ w.gen \in Nat
    BY <1>3, <2>1 DEF Worker
  <2>3. {[gen |-> w.gen, dev |-> d]} \in SUBSET Controllers
    BY <2>2 DEF Controllers
  <2>4. v \in Worker /\ v.gen = w.gen /\ v.pc = "register" /\ v.new = {[gen |-> w.gen, dev |-> d]}
    BY <1>3, <2>3 DEF Worker, WorkerPcs
  <2>5. Become(w, v)
    BY <2>1
  <2> HIDE DEF v
  <2>6. workers' = {v} /\ workers' \in SUBSET Worker /\ OneWorker'
    BY <1>1, <2>4, <2>5, Becomes
  <2>7. registry' = registry /\ w.pc = "match"
    BY <1>11 DEF WorkerPick, WorkerAt, lists
  <2>8. RegistryInv'
    BY <2>2, <2>4, <2>6, <2>7, RegistryKept DEF RegisteringPcs
  <2> QED
    BY <1>3, <1>4, <1>11, <2>6, <2>8 DEF WorkerPick, TypeOKButGui, lists
<1>12. CASE WorkerAbort(w)
  BY <1>3, <1>5, <1>12 DEF WorkerAbort, WorkerPcs, RegisteringPcs, TypeOKButGui, lists
<1>13. CASE WorkerRegister(w)
  <2>1. hostList' \in SUBSET Controllers
    BY <1>3, <1>13 DEF WorkerRegister, Worker, TypeOKButGui
  <2> QED
    BY <1>3, <1>5, <1>13, <2>1 DEF WorkerRegister, WorkerAt, WorkerPcs, RegisteringPcs, TypeOKButGui
<1>14. CASE WorkerFail(w)
  <2> DEFINE v == [w EXCEPT !.pc = "match", !.new = {}]
  <2>1. v \in Worker /\ v.gen = w.gen /\ v.pc = "match"
    BY <1>3 DEF Worker, WorkerPcs
  <2>2. Become(w, v)
    BY <1>14 DEF WorkerFail
  <2> HIDE DEF v
  <2>3. workers' = {v} /\ workers' \in SUBSET Worker /\ OneWorker'
    BY <1>1, <2>1, <2>2, Becomes
  <2>4. registry' = registry /\ w.pc = "register"
    BY <1>14 DEF WorkerFail, WorkerAt, lists
  <2>5. RegistryInv'
    BY <2>1, <2>3, <2>4, RegistryKept DEF RegisteringPcs
  <2> QED
    BY <1>3, <1>4, <1>14, <2>3, <2>5 DEF WorkerFail, TypeOKButGui, lists
<1>15. CASE WorkerRecord(w)
  <2> DEFINE v == [w EXCEPT !.pc = "match", !.new = {}, !.listed = @ \union w.new]
  <2>1. v \in Worker /\ v.gen = w.gen /\ v.pc = "match"
    BY <1>3 DEF Worker, WorkerPcs
  <2>2. Become(w, v)
    BY <1>15 DEF WorkerRecord
  <2> HIDE DEF v
  <2>3. workers' = {v} /\ workers' \in SUBSET Worker /\ OneWorker'
    BY <1>1, <2>1, <2>2, Becomes
  <2>4. registry' = registry \union w.new /\ w.pc = "record"
    BY <1>15 DEF WorkerRecord, WorkerAt
  <2>5. \A c \in registry' : c.gen = w.gen
    BY <2>4 DEF IInv, RegistryInv, RegisteringPcs
  <2>6. RegistryInv'
    BY <2>1, <2>3, <2>5 DEF RegistryInv, RegistryOfOneDiscovery
  <2>7. registry' \in SUBSET Controllers
    BY <1>3, <2>4 DEF TypeOKButGui, Worker
  <2> QED
    BY <1>3, <1>4, <1>15, <2>3, <2>6, <2>7 DEF WorkerRecord, TypeOKButGui
<1>16. CASE WorkerPublish(w)
  <2>1. Status(w.gen, "registered", FALSE, FALSE, w.listed) \in Events
    BY <1>3 DEF Status, Events, Texts, Worker
  <2>2. queue' \in Seq(Events)
    BY <1>16, <2>1, PostEvents DEF WorkerPublish
  <2> QED
    BY <1>3, <1>5, <1>16, <2>2 DEF WorkerPublish, WorkerPcs, RegisteringPcs, TypeOKButGui, lists
<1>17. CASE WorkerExit(w)
  <2>1. workers' = {}
    BY <1>17 DEF WorkerExit, IInv, OneWorker
  <2>2. OneWorker' /\ RegistryInv'
    BY <1>17, <2>1 DEF WorkerExit, OneWorker, IInv, RegistryInv, RegistryOfOneDiscovery, lists
  <2>3. core' \in Core
    BY <1>3, <1>17 DEF WorkerExit, TypeOKButGui, Core
  <2> QED
    BY <1>3, <1>4, <1>17, <2>1, <2>2, <2>3 DEF WorkerExit, TypeOKButGui, lists
<1>18. CASE WorkerFails(w)
  <2>1. Status(w.gen, "failed", FALSE, FALSE, {}) \in Events
    BY <1>3 DEF Status, Events, Texts, Worker
  <2>2. queue' \in Seq(Events)
    BY <1>18, <2>1, PostEvents DEF WorkerFails
  <2> QED
    BY <1>3, <1>5, <1>18, <2>2
    DEF WorkerFails, WorkerPcs, RegisteringPcs, TypeOKButGui, lists
<1>19. CASE WorkerUnregisterThrows(w)
  <2> DEFINE v == [w EXCEPT !.pc = "fail", !.old = {}]
  <2>1. v \in Worker /\ v.gen = w.gen /\ v.pc = "fail"
    BY <1>3 DEF Worker, WorkerPcs
  <2>2. Become(w, v) /\ HostCallThrows(w.old) /\ UNCHANGED <<core, queue, registry>>
    BY <1>19 DEF WorkerUnregisterThrows
  <2> HIDE DEF v
  <2>3. workers' = {v} /\ workers' \in SUBSET Worker /\ OneWorker'
    BY <1>1, <2>1, <2>2, Becomes
  <2>4. RegistryInv'
    BY <2>1, <2>2, <2>3, RegistryKept DEF RegisteringPcs
  <2>5. hostList' \in SUBSET Controllers /\ orphans' \in SUBSET Controllers
    BY <1>3, <2>2, ThrownTypes DEF Worker
  <2> QED
    BY <1>3, <1>4, <2>2, <2>3, <2>4, <2>5 DEF TypeOKButGui
<1>20. CASE WorkerRegisterThrows(w)
  <2> DEFINE v == [w EXCEPT !.pc = "match", !.new = {}]
  <2>1. v \in Worker /\ v.gen = w.gen /\ v.pc = "match"
    BY <1>3 DEF Worker, WorkerPcs
  <2>2. Become(w, v) /\ w.pc = "register" /\ UNCHANGED <<core, queue, registry>>
    BY <1>20 DEF WorkerRegisterThrows, WorkerAt
  <2> HIDE DEF v
  <2>3. workers' = {v} /\ workers' \in SUBSET Worker /\ OneWorker'
    BY <1>1, <2>1, <2>2, Becomes
  <2>4. RegistryInv'
    BY <2>1, <2>2, <2>3, RegistryKept DEF RegisteringPcs
  <2>5. hostList' \in SUBSET Controllers /\ orphans' \in SUBSET Controllers
    BY <1>3, <1>20 DEF WorkerRegisterThrows, Worker, TypeOKButGui
  <2> QED
    BY <1>3, <1>4, <2>2, <2>3, <2>4, <2>5 DEF TypeOKButGui
<1> QED
  BY <1>6, <1>7, <1>8, <1>9, <1>10, <1>11, <1>12, <1>13, <1>14, <1>15, <1>16, <1>17, <1>18,
     <1>19, <1>20

\* The inductive invariant holds at first ...
LEMMA InitInv == Init => IInv
<1> SUFFICES ASSUME Init PROVE IInv
  OBVIOUS
<1>1. gui = <<>> /\ StackOK(gui)
  BY DEF Init, StackOK
<1>2. TypeOKButGui
  <2>1. core \in Core
    BY DEF Init, InitCore, Core
  <2>2. widget \in [text : Texts, running : BOOLEAN, devices : SUBSET Controllers]
    BY DEF Init, Texts
  <2>3. host \in [pc : HostPcs, flag : BOOLEAN]
    BY DEF Init, HostPcs
  <2>4. spent \in [detections : Nat, rescans : Nat, loads : Nat]
    BY DEF Init
  <2>5. queue \in Seq(Events)
    BY DEF Init
  <2> QED
    BY <2>1, <2>2, <2>3, <2>4, <2>5 DEF Init, TypeOKButGui
<1>3. TypeOK
  BY <1>1, <1>2 DEF TypeOK, TypeOKButGui, StackOK, Frame
<1>4. HandlerInv /\ OneWorker /\ RegistryInv
  BY <1>1 DEF Init, HandlerInv, OneWorker, RegistryInv, RegistryOfOneDiscovery
<1> QED
  BY <1>1, <1>3, <1>4 DEF IInv

\* ... is kept by every step ...
LEMMA NextInv == IInv /\ [Next]_vars => IInv'
<1> SUFFICES ASSUME IInv, [Next]_vars PROVE IInv'
  OBVIOUS
<1>1. CASE Environment
  BY <1>1, RequestInv, HostInv, DetectionInv DEF Environment
<1>2. CASE Handle
  BY <1>2, DiscoverInv, JoinInv, StartInv, StopInv, UnloadInv, UnregisterInv, DetectionInv
  DEF Handle
<1>3. CASE Deliver
  BY <1>3, DeliverInv
<1>4. CASE HostContinue
  BY <1>4, HostInv
<1>5. CASE \E w \in workers : WorkerStep(w)
  BY <1>5, WorkerInv
<1>6. CASE UNCHANGED vars
  <2>1. StackOK(gui') /\ HandlerInv' /\ OneWorker' /\ RegistryInv'
    BY <1>6, HandlersKept, WorkersKept DEF vars, locals, lists
  <2>2. TypeOKButGui'
    BY <1>6, TypeParts DEF TypeOKButGui, vars
  <2> QED
    BY <2>1, <2>2, Assemble
<1> QED
  BY <1>1, <1>2, <1>3, <1>4, <1>5, <1>6 DEF Next

\* ... and so always holds.
LEMMA Invariance == Spec => []IInv
BY InitInv, NextInv, PTL DEF Spec

\* The types of the core's, the threads' and the host's state hold whatever the
\* interleaving.
THEOREM TypeCorrect == Spec => []TypeOK
<1>1. IInv => TypeOK
  BY DEF IInv
<1> QED
  BY <1>1, Invariance, PTL

\* DiscoverSignalRgbDevices, nested in other handlers as it may be, never starts
\* a worker while another one lives: discovery_thread_ owns the one there is.
THEOREM NeverTwoWorkers == Spec => []OneWorker
<1>1. IInv => OneWorker
  BY DEF IInv
<1> QED
  BY <1>1, Invariance, PTL

\* A superseded Discover never leaves entries in the registry beside those of
\* its successor.
THEOREM RegistryNeverMixed == Spec => []RegistryOfOneDiscovery
<1>1. IInv => RegistryOfOneDiscovery
  BY DEF IInv, RegistryInv
<1> QED
  BY <1>1, Invariance, PTL

-----------------------------------------------------------------------------
(* The refinement of SerialDiscovery.                                      *)

\* A step that leaves the workers, the thread and the registry alone is no step of
\* SerialDiscovery.
LEMMA SerialStutter ==
  ASSUME UNCHANGED <<thread, workers, registry>>
  PROVE  UNCHANGED <<Active, registry>>
BY DEF Active

\* The steps of the worker: those that change its registry or end it.
LEMMA SerialWorker ==
  ASSUME IInv, NEW w \in workers, WorkerStep(w)
  PROVE  Serial!Next \/ UNCHANGED <<Active, registry>>
<1>1. workers = {w} /\ w.gen = thread /\ thread # 0 /\ Active = thread
  BY DEF IInv, OneWorker, Active
<1>2. thread' = thread
  BY DEF WorkerStep, WorkerWaitHost, WorkerCheck, WorkerTakeRegistry, WorkerUnregister, WorkerUnregisterThrows,
         WorkerScan, WorkerFails, WorkerPick, WorkerAbort, WorkerRegister, WorkerRegisterThrows, WorkerFail, WorkerRecord,
         WorkerPublish, WorkerExit, workerFrame
<1>3. \A v : Become(w, v) => Active' = Active
  BY <1>1, <1>2 DEF Become, Active
<1>4. CASE WorkerTakeRegistry(w)
  BY <1>3, <1>4 DEF WorkerTakeRegistry, Serial!Next, Serial!Clear
<1>5. CASE WorkerRecord(w)
  <2>1. w.pc = "record" /\ registry' = registry \union w.new /\ Active' = Active
    BY <1>3, <1>5 DEF WorkerRecord, WorkerAt
  <2>2. \A c \in registry : c.gen = Active
    BY <1>1, <2>1 DEF IInv, RegistryInv, RegisteringPcs
  <2>3. PICK d \in Devices : w.new = {[gen |-> w.gen, dev |-> d]}
    BY <2>1 DEF IInv, RegistryInv
  <2>4. registry' = registry \union {[gen |-> Active, dev |-> d]}
    BY <1>1, <2>1, <2>3
  <2>5. Serial!Add(d)
    BY <1>1, <2>1, <2>2, <2>4 DEF Serial!Add
  <2> QED
    BY <2>5 DEF Serial!Next
<1>6. CASE WorkerExit(w)
  <2>1. workers' = {} /\ registry' = registry
    BY <1>1, <1>6 DEF WorkerExit, lists
  <2>2. Serial!End
    BY <1>1, <2>1 DEF Serial!End, Active
  <2> QED
    BY <2>2 DEF Serial!Next
<1>7. CASE ~(WorkerTakeRegistry(w) \/ WorkerRecord(w) \/ WorkerExit(w))
  <2>1. registry' = registry /\ \E v : Become(w, v)
    BY <1>7 DEF WorkerStep, WorkerWaitHost, WorkerCheck, WorkerUnregister, WorkerUnregisterThrows, WorkerScan, WorkerFails,
       WorkerPick, WorkerAbort, WorkerRegister, WorkerRegisterThrows, WorkerFail, WorkerPublish, WorkerGoto, lists
  <2> QED
    BY <1>3, <2>1
<1> QED
  BY <1>4, <1>5, <1>6, <1>7

\* Every step of the core is a step of SerialDiscovery or changes nothing of it.
LEMMA SerialStep ==
  ASSUME IInv, [Next]_vars
  PROVE  [Serial!Next]_<<Active, registry>>
<1>1. CASE DiscoverStart
  <2>1. gui # <<>> /\ Top.pc = "start"
    BY <1>1 DEF DiscoverStart, At
  <2>2. thread = 0 /\ newGeneration \in Nat \ {0}
    BY <2>1 DEF IInv, TypeOK, HandlerInv, StartPcs
  <2>3. workers = {} /\ Active = 0
    BY <2>2 DEF IInv, OneWorker, Active
  <2>4. workers' # {} /\ thread' = newGeneration /\ registry' = registry
    BY <1>1 DEF DiscoverStart, lists
  <2>5. Serial!Begin
    BY <2>2, <2>3, <2>4 DEF Serial!Begin, Active
  <2> QED
    BY <2>5 DEF Serial!Next
<1>2. CASE DiscoverJoin \/ StopJoin
  <2>1. UNCHANGED <<workers, registry>> /\ (thread' = thread \/ Finished(thread))
    BY <1>2 DEF DiscoverJoin, StopJoin, JoinThread, lists
  <2>2. Finished(thread) => workers = {}
    BY DEF Finished, IInv, OneWorker
  <2> QED
    BY <2>1, <2>2 DEF Active
<1>3. CASE UnloadTakeRegistry \/ DetectionAbandon
  <2>1. UNCHANGED <<thread, workers>> /\ registry' = {}
    BY <1>3 DEF UnloadTakeRegistry, DetectionAbandon, others
  <2> QED
    BY <2>1 DEF Active, Serial!Next, Serial!Clear
<1>4. CASE \/ DiscoverGuard \/ DiscoverScanTest \/ DiscoverDefer \/ DiscoverBusyTest
           \/ DiscoverUncancel \/ DiscoverNewGeneration
           \/ StopCancel \/ StopSupersede \/ StopDone
           \/ UnloadWaitBefore \/ UnloadUnregister \/ UnloadThrows \/ UnloadUnregistered
           \/ UnloadWaitAfter \/ UnloadForget \/ DetectionPending \/ DetectionAnnounce
  BY <1>4, SerialStutter
  DEF DiscoverGuard, DiscoverScanTest, DiscoverDefer, DiscoverBusyTest, DiscoverUncancel,
      DiscoverNewGeneration, StopCancel, StopSupersede, StopDone, UnloadWaitBefore,
      UnloadWait, UnloadUnregister, UnloadThrows, UnloadUnregistered, UnloadWaitAfter, UnloadForget,
      DetectionPending, DetectionAnnounce, others, lists
<1>5. CASE Environment \/ Deliver
  BY <1>5, SerialStutter
  DEF Environment, Load, Rescan, Unload, HostStart, DetectionStart, Deliver, DeliverStatus,
      DeliverRediscover, others, lists
<1>6. CASE HostContinue
  BY <1>6, SerialStutter
  DEF HostContinue, HostReadUnloading, HostSetPending, HostCancel, HostSupersede,
      HostAnnounce, HostDropAll, HostEnd, HostDecide, HostRepost, HostClear, lists
<1>7. CASE \E w \in workers : WorkerStep(w)
  BY <1>7, SerialWorker
<1>8. CASE UNCHANGED vars
  BY <1>8, SerialStutter DEF vars
<1> QED
  BY <1>1, <1>2, <1>3, <1>4, <1>5, <1>6, <1>7, <1>8 DEF Next, Handle

\* The threads, the callbacks and the handlers nested in other handlers implement
\* the serial discoveries of SerialDiscovery.
THEOREM SerialRefinement == Spec => DiscoveriesAreSerial
<1>1. Init => Serial!Init
  BY DEF Init, Serial!Init, Active
<1>2. IInv /\ [Next]_vars => [Serial!Next]_<<Active, registry>>
  BY SerialStep
<1> QED
  BY <1>1, <1>2, Invariance, PTL DEF Spec, DiscoveriesAreSerial, Serial!Spec

-----------------------------------------------------------------------------
(* The stack of handlers, seen as the innermost frame and the set of those *)
(* below it.                                                               *)

\* The frames of all handlers, and of those that wait for one they have delivered.
Frames == {gui[i] : i \in 1 .. Len(gui)}
Below == {gui[i] : i \in 1 .. Len(gui) - 1}

\* The frames are the innermost one and those below it, which deliver events.
LEMMA FramesSplit ==
  ASSUME NEW g, StackOK(g),
         NEW all, all = {g[i] : i \in 1 .. Len(g)},
         NEW below, below = {g[i] : i \in 1 .. Len(g) - 1}
  PROVE  /\ g = <<>> => all = {} /\ below = {}
         /\ g # <<>> => all = below \union {g[Len(g)]}
         /\ \A f \in below : f.pc \in PumpPcs
<1>1. Len(g) \in Nat
  BY DEF StackOK
<1>2. ASSUME g = <<>> PROVE all = {} /\ below = {}
  BY <1>2
<1>3. ASSUME g # <<>> PROVE all = below \union {g[Len(g)]}
  <2>1. Len(g) \in Nat \ {0} /\ Len(g) \in 1 .. Len(g)
    BY <1>1, <1>3 DEF StackOK
  <2>2. \A i \in 1 .. Len(g) : i = Len(g) \/ i \in 1 .. Len(g) - 1
    BY <2>1
  <2>3. \A i \in 1 .. Len(g) - 1 : i \in 1 .. Len(g)
    BY <2>1
  <2> QED
    BY <2>1, <2>2, <2>3
<1> QED
  BY <1>2, <1>3 DEF StackOK

\* A handler that moves on leaves those below it alone.
LEMMA GotoBelow ==
  ASSUME StackOK(gui), gui # <<>>, NEW pc \in Pcs, Goto(pc)
  PROVE  /\ gui' # <<>> /\ Len(gui') = Len(gui)
         /\ Top'.pc = pc
         /\ Top'.op = Top.op
         /\ Below' = Below
<1>1. Len(gui) \in Nat \ {0} /\ Len(gui) \in 1 .. Len(gui) /\ DOMAIN gui = 1 .. Len(gui)
  BY DEF StackOK
<1>2. Top \in Frame
  BY <1>1 DEF StackOK, Top
<1> DEFINE f == [Top EXCEPT !.pc = pc]
<1>3. f \in Frame /\ f.pc = pc /\ f.op = Top.op
  BY <1>2 DEF Frame
<1>4. gui' = [gui EXCEPT ![Len(gui)] = f]
  BY <1>1 DEF Goto, Top
<1> HIDE DEF f
<1>5. gui' \in Seq(Frame) /\ Len(gui') = Len(gui) /\ gui'[Len(gui)] = f
  <2>1. gui \in Seq(Frame)
    BY DEF StackOK
  <2>2. \A h : h = [gui EXCEPT ![Len(gui)] = f] =>
          h \in Seq(Frame) /\ Len(h) = Len(gui) /\ h[Len(gui)] = f
    BY <1>1, <1>3, <2>1
  <2> QED
    BY <1>4, <2>2, Zenon
<1>6. \A i \in 1 .. Len(gui) - 1 : gui'[i] = gui[i]
  <2> DEFINE n == Len(gui)
  <2>1. \A i \in DOMAIN gui : i # n => gui'[i] = gui[i]
    BY <1>4
  <2>2. n \in Nat \ {0} /\ DOMAIN gui = 1 .. n
    BY <1>1
  <2> HIDE DEF n
  <2>3. \A i \in 1 .. n - 1 : i \in 1 .. n /\ i # n
    BY <2>2
  <2>4. \A i \in 1 .. n - 1 : gui'[i] = gui[i]
    BY <2>1, <2>2, <2>3, Zenon
  <2> QED
    BY <2>4 DEF n
<1>7. Below' = Below
  BY <1>5, <1>6 DEF Below
<1>8. gui' # <<>>
  BY <1>1, <1>5
<1> QED
  BY <1>3, <1>5, <1>7, <1>8 DEF Top

\* A handler called joins them.
LEMMA CallBelow ==
  ASSUME StackOK(gui), NEW op \in Ops, NEW pc \in Pcs, Call(op, pc)
  PROVE  /\ gui' # <<>>
         /\ Top'.pc = pc
         /\ Top'.op = op
         /\ Below' = Frames
<1> DEFINE f == [op |-> op, pc |-> pc]
<1>1. f \in Frame /\ f.pc = pc /\ f.op = op
  BY DEF Frame
<1>2. gui' = Append(gui, f) /\ gui \in Seq(Frame)
  BY DEF Call, StackOK
<1> HIDE DEF f
<1>3. Len(gui) \in Nat /\ Len(gui') = Len(gui) + 1 /\ gui'[Len(gui')] = f
      /\ \A i \in 1 .. Len(gui) : gui'[i] = gui[i]
  BY <1>1, <1>2
<1>4. Len(gui') - 1 = Len(gui)
  BY <1>3
<1>5. Below' = Frames
  BY <1>3, <1>4 DEF Below, Frames
<1>6. gui' # <<>>
  BY <1>3
<1> QED
  BY <1>1, <1>3, <1>5, <1>6 DEF Top

\* A handler that returns leaves those below it, one of which goes on.
LEMMA ReturnBelow ==
  ASSUME StackOK(gui), gui # <<>>, Return
  PROVE  /\ Frames' = Below
         /\ Below' \subseteq Below
         /\ gui' # <<>> => Top' \in Below
<1>1. Len(gui) \in Nat \ {0} /\ DOMAIN gui = 1 .. Len(gui) /\ gui \in Seq(Frame)
  BY DEF StackOK
<1>2. gui' \in Seq(Frame) /\ Len(gui') = Len(gui) - 1
  BY <1>1 DEF Return
<1>3. \A i \in 1 .. Len(gui) - 1 : gui'[i] = gui[i]
  BY <1>1 DEF Return
<1>4. Frames' = Below
  BY <1>2, <1>3 DEF Frames, Below
<1>5. Below' \subseteq Below
  <2>1. \A i \in 1 .. Len(gui') - 1 : i \in 1 .. Len(gui) - 1
    BY <1>1, <1>2
  <2> QED
    BY <1>2, <1>3, <2>1 DEF Below
<1>6. ASSUME gui' # <<>> PROVE Top' \in Below
  <2>1. Len(gui') \in Nat \ {0} /\ Len(gui') \in 1 .. Len(gui) - 1
    BY <1>1, <1>2, <1>6
  <2> QED
    BY <1>3, <2>1 DEF Top, Below
<1> QED
  BY <1>4, <1>5, <1>6

\* What a step may do to the stack, in one place.
LEMMA StackSteps ==
  ASSUME IInv
  PROVE  /\ gui = <<>> => Frames = {} /\ Below = {}
         /\ gui # <<>> => Frames = Below \union {Top}
         /\ \A f \in Below : f.pc \in PumpPcs
         /\ \A pc \in Pcs : gui # <<>> /\ Goto(pc) =>
              gui' # <<>> /\ Top'.pc = pc /\ Top'.op = Top.op /\ Below' = Below
         /\ \A op \in Ops, pc \in Pcs : Call(op, pc) =>
              gui' # <<>> /\ Top'.pc = pc /\ Top'.op = op /\ Below' = Frames
         /\ gui # <<>> /\ Return =>
              Frames' = Below /\ Below' \subseteq Below /\ (gui' # <<>> => Top' \in Below)
         /\ gui' = gui => Frames' = Frames /\ Below' = Below /\ Top' = Top
<1>1. StackOK(gui)
  BY DEF IInv
<1>2. gui' = gui => Frames' = Frames /\ Below' = Below /\ Top' = Top
  BY DEF Frames, Below, Top
<1>3. \A pc \in Pcs : gui # <<>> /\ Goto(pc) =>
        gui' # <<>> /\ Top'.pc = pc /\ Top'.op = Top.op /\ Below' = Below
  BY <1>1, GotoBelow
<1>4. \A op \in Ops, pc \in Pcs : Call(op, pc) =>
        gui' # <<>> /\ Top'.pc = pc /\ Top'.op = op /\ Below' = Frames
  BY <1>1, CallBelow
<1>5. gui # <<>> /\ Return =>
        Frames' = Below /\ Below' \subseteq Below /\ (gui' # <<>> => Top' \in Below)
  BY <1>1, ReturnBelow
<1>6. /\ gui = <<>> => Frames = {} /\ Below = {}
      /\ gui # <<>> => Frames = Below \union {Top}
      /\ \A f \in Below : f.pc \in PumpPcs
  BY <1>1, FramesSplit DEF Frames, Below, Top
<1> QED
  BY <1>2, <1>3, <1>4, <1>5, <1>6

\* The stack after a step is split in the same way.
LEMMA StackSplit ==
  ASSUME IInv'
  PROVE  /\ gui' = <<>> => Frames' = {} /\ Below' = {}
         /\ gui' # <<>> => Frames' = Below' \union {Top'}
         /\ \A f \in Below' : f.pc \in PumpPcs
BY FramesSplit DEF IInv, Frames, Below, Top

-----------------------------------------------------------------------------
(* Which handler can be where, and what the flags say of it.               *)

\* Where DiscoverSignalRgbDevices, StopDiscoveryThread, Unload and the API 4 callback
\* can be, and which of these places a handler passes.
DiscoverPcs == {"guard", "scanTest", "defer", "busyTest", "startJoin", "uncancel",
                "newGeneration", "start"}
JoinPcs == {"cancel", "supersede", "stopJoin", "stopped"}
UnloadPcs == {"wait1", "takeRegistry", "unregister", "wait2", "forget"}
CallbackPcs == {"pending", "abandon", "announce"}
PlacesOf(op) ==
  CASE op \in {"load", "rescan"} -> DiscoverPcs
    [] op = "rediscover" -> IF Api = 5 THEN DiscoverPcs \union JoinPcs ELSE DiscoverPcs
    [] op = "unload" -> JoinPcs \union UnloadPcs
    [] op = "detection" -> IF Api = 4 THEN JoinPcs \union CallbackPcs ELSE {}

\* Unload and the API 4 callback run under no other handler; no handler is
\* called while Unload runs, and none without a host.
FramesInv ==
  /\ \A f \in Frames : f.pc \in PlacesOf(f.op)
  /\ Api = 4 => Below = {}
  /\ \A f \in Below : f.op # "unload"
  /\ gui # <<>> =>
       /\ core.manager
       /\ core.unloading => Top.op = "unload"
       /\ Top.op = "unload" => Below = {} /\ core.unloading
  /\ core.unloading /\ gui = <<>> => ~core.manager
  /\ ~core.manager /\ ~core.unloading =>
       queue = <<>> /\ workers = {} /\ host.pc \in {"idle", "scanning"}

\* A handler that moves on within its own places.
LEMMA FramesGoto ==
  ASSUME IInv, FramesInv, gui # <<>>, NEW pc \in Pcs, Goto(pc), IInv',
         pc \in PlacesOf(Top.op),
         core'.manager = core.manager, core'.unloading = core.unloading
  PROVE  FramesInv'
<1>1. /\ gui' # <<>> /\ Top'.pc = pc /\ Top'.op = Top.op /\ Below' = Below
      /\ Frames = Below \union {Top}
      /\ Frames' = Below' \union {Top'}
  BY StackSteps, StackSplit
<1>2. \A f \in Frames' : f.pc \in PlacesOf(f.op)
  BY <1>1 DEF FramesInv
<1> QED
  BY <1>1, <1>2 DEF FramesInv

\* A handler that returns to one that was waiting.
LEMMA FramesReturn ==
  ASSUME IInv, FramesInv, gui # <<>>, Return, IInv',
         IF Top.op = "unload" THEN ~core'.manager ELSE core'.manager = core.manager,
         core'.unloading = core.unloading
  PROVE  FramesInv'
<1>1. /\ Frames' = Below /\ Below' \subseteq Below
      /\ gui' # <<>> => Top' \in Below
      /\ Frames = Below \union {Top}
      /\ gui' # <<>> => Frames' = Below' \union {Top'}
  BY StackSteps, StackSplit
<1>2. \A f \in Frames' : f.pc \in PlacesOf(f.op)
  BY <1>1 DEF FramesInv
<1>3. Top.op = "unload" => gui' = <<>>
  BY <1>1 DEF FramesInv
<1>4. ~core.unloading \/ Top.op = "unload"
  BY DEF FramesInv
<1>5. gui' # <<>> => Top'.op # "unload"
  BY <1>1 DEF FramesInv
<1> QED
  BY <1>1, <1>2, <1>3, <1>4, <1>5 DEF FramesInv

\* A step of another thread, or of a handler that stays where it is.
LEMMA FramesSame ==
  ASSUME IInv, FramesInv, gui' = gui,
         core'.manager = core.manager, core'.unloading = core.unloading,
         core.manager \/ core.unloading \/
           (queue' = <<>> /\ workers' = {} /\ host'.pc \in {"idle", "scanning"})
  PROVE  FramesInv'
<1>1. Frames' = Frames /\ Below' = Below /\ Top' = Top
  BY StackSteps
<1> QED
  BY <1>1 DEF FramesInv

\* The handlers' own steps.
LEMMA FramesHandle ==
  ASSUME IInv, FramesInv, Handle, IInv'
  PROVE  FramesInv'
<1> DEFINE Moves(pc) == /\ gui # <<>> /\ Goto(pc) /\ pc \in PlacesOf(Top.op)
                        /\ core'.manager = core.manager /\ core'.unloading = core.unloading
<1>1. \A pc \in Pcs : Moves(pc) => FramesInv'
  BY FramesGoto
<1>2. gui # <<>> => Top.pc \in PlacesOf(Top.op) /\ core.manager /\ Top.op \in Ops
  BY StackSteps, TopProper DEF FramesInv, ProperFrame, Frame
<1>3. core \in Core
  BY DEF IInv, TypeOK
<1> USE <1>2, <1>3 DEF At, PlacesOf, DiscoverPcs, JoinPcs, UnloadPcs, CallbackPcs, Ops
<1>4. CASE DiscoverScanTest
  <2>1. \E pc \in {"defer", "busyTest"} : Goto(pc) /\ Moves(pc)
    BY <1>4 DEF DiscoverScanTest, others
  <2> QED
    BY <1>1, <2>1 DEF Pcs
<1>5. CASE DiscoverUncancel
  <2>1. \E pc \in {"newGeneration"} : Goto(pc) /\ Moves(pc)
    BY <1>5 DEF DiscoverUncancel, others
  <2> QED
    BY <1>1, <2>1 DEF Pcs
<1>6. CASE DiscoverNewGeneration
  <2>1. \E pc \in {"start"} : Goto(pc) /\ Moves(pc)
    BY <1>6 DEF DiscoverNewGeneration, others
  <2> QED
    BY <1>1, <2>1 DEF Pcs
<1>7. CASE StopCancel
  <2>1. \E pc \in {"supersede"} : Goto(pc) /\ Moves(pc)
    BY <1>7 DEF StopCancel, others
  <2> QED
    BY <1>1, <2>1 DEF Pcs
<1>8. CASE StopSupersede
  <2>1. \E pc \in {"stopJoin", "stopped"} : Goto(pc) /\ Moves(pc)
    BY <1>8 DEF StopSupersede, others
  <2> QED
    BY <1>1, <2>1 DEF Pcs
<1>9. CASE UnloadWaitBefore
  <2>1. \E pc \in {"takeRegistry"} : Goto(pc) /\ Moves(pc)
    BY <1>9 DEF UnloadWaitBefore, UnloadWait, others
  <2> QED
    BY <1>1, <2>1 DEF Pcs
<1>10. CASE UnloadTakeRegistry
  <2>1. \E pc \in {"unregister"} : Goto(pc) /\ Moves(pc)
    BY <1>10 DEF UnloadTakeRegistry, others
  <2> QED
    BY <1>1, <2>1 DEF Pcs
<1>11. CASE UnloadUnregistered
  <2>1. \E pc \in {"wait2"} : Goto(pc) /\ Moves(pc)
    BY <1>11 DEF UnloadUnregistered, others
  <2> QED
    BY <1>1, <2>1 DEF Pcs
<1>12. CASE UnloadWaitAfter
  <2>1. \E pc \in {"forget"} : Goto(pc) /\ Moves(pc)
    BY <1>12 DEF UnloadWaitAfter, UnloadWait, others
  <2> QED
    BY <1>1, <2>1 DEF Pcs
<1>13. CASE DetectionPending
  <2>1. \E pc \in {"cancel"} : Goto(pc) /\ Moves(pc)
    BY <1>13 DEF DetectionPending, others
  <2> QED
    BY <1>1, <2>1 DEF Pcs
<1>14. CASE DetectionAbandon
  <2>1. \E pc \in {"announce"} : Goto(pc) /\ Moves(pc)
    BY <1>14 DEF DetectionAbandon, others
  <2> QED
    BY <1>1, <2>1 DEF Pcs
<1>15. CASE DiscoverGuard
  <2>1. Goto("scanTest") => Moves("scanTest")
    BY <1>15 DEF DiscoverGuard
  <2>2. Return => FramesInv'
    BY <1>15, FramesReturn DEF DiscoverGuard
  <2> QED
    BY <1>1, <1>15, <2>1, <2>2 DEF DiscoverGuard, Pcs
<1>16. CASE DiscoverBusyTest
  <2>1. \A pc \in {"startJoin", "uncancel"} : Goto(pc) => Moves(pc)
    BY <1>16 DEF DiscoverBusyTest
  <2>2. Return => FramesInv'
    BY <1>16, FramesReturn DEF DiscoverBusyTest
  <2>3. Return \/ Goto("startJoin") \/ Goto("uncancel")
    BY <1>16 DEF DiscoverBusyTest
  <2> QED
    BY <1>1, <2>1, <2>2, <2>3 DEF Pcs
<1>17. CASE DiscoverDefer \/ DiscoverStart \/ DetectionAnnounce
  <2>1. gui # <<>> /\ Top.op # "unload" /\ Return
    BY <1>17 DEF DiscoverDefer, DiscoverStart, DetectionAnnounce
  <2>2. core'.manager = core.manager /\ core'.unloading = core.unloading
    <3>1. core' \in {core, [core EXCEPT !.pending = TRUE], [core EXCEPT !.running = TRUE]}
      BY <1>17 DEF DiscoverDefer, DiscoverStart, DetectionAnnounce
    <3> QED
      BY <3>1 DEF Core
  <2> QED
    BY <2>1, <2>2, FramesReturn
<1>18. CASE UnloadForget
  <2>1. Top.op = "unload"
    BY <1>18 DEF UnloadForget
  <2> QED
    BY <1>18, <2>1, FramesReturn DEF UnloadForget
<1>19. CASE UnloadUnregister \/ UnloadThrows
  BY <1>19, FramesSame DEF UnloadUnregister, UnloadThrows, others
<1>20. CASE DiscoverJoin
  <2>1. CASE thread = 0
    BY <1>20, <2>1, FramesSame DEF DiscoverJoin, JoinThread
  <2>2. CASE thread # 0
    <3>1. Moves("uncancel")
      BY <1>20, <2>2 DEF DiscoverJoin, JoinThread
    <3> QED
      BY <1>1, <3>1 DEF Pcs
  <2> QED
    BY <2>1, <2>2
<1>21. CASE StopJoin
  <2>1. CASE thread = 0
    BY <1>21, <2>1, FramesSame DEF StopJoin, JoinThread
  <2>2. CASE thread # 0
    <3>1. Moves("stopped")
      BY <1>21, <2>2 DEF StopJoin, JoinThread
    <3> QED
      BY <1>1, <3>1 DEF Pcs
  <2> QED
    BY <2>1, <2>2
<1>22. CASE StopDone
  <2>1. Moves(AfterStop(Top.op)) /\ AfterStop(Top.op) \in {"wait1", "guard", "abandon"}
    BY <1>22 DEF StopDone, AfterStop
  <2> QED
    BY <1>1, <2>1 DEF Pcs
<1> QED
  BY <1>4, <1>5, <1>6, <1>7, <1>8, <1>9, <1>10, <1>11, <1>12, <1>13, <1>14, <1>15, <1>16, <1>17, <1>18, <1>19, <1>20, <1>21, <1>22 DEF Handle

\* Load, Rescan and Unload find no handler running.
LEMMA FramesRequest ==
  ASSUME IInv, FramesInv, Load \/ Rescan \/ Unload, IInv'
  PROVE  FramesInv'
<1>1. core \in Core /\ gui = <<>>
  BY DEF IInv, TypeOK, Load, Rescan, Unload, Idle
<1>2. PICK op \in {"load", "rescan", "unload"}, pc \in {"guard", "cancel"} :
        Call(op, pc) /\ (IF op = "unload" THEN pc = "cancel" ELSE pc = "guard")
        /\ core'.manager /\ (core'.unloading <=> op = "unload")
  BY <1>1 DEF Load, Rescan, Unload, Core, FramesInv
<1>3. op \in Ops /\ pc \in Pcs
  BY DEF Ops, Pcs
<1>4. gui' # <<>> /\ Top'.pc = pc /\ Top'.op = op /\ Below' = {} /\ Frames' = {Top'}
  BY <1>1, <1>2, <1>3, StackSteps, StackSplit
<1>5. pc \in PlacesOf(op)
  BY <1>2 DEF PlacesOf, DiscoverPcs, JoinPcs
<1>6. \A f \in Frames' : f.pc \in PlacesOf(f.op)
  BY <1>4, <1>5
<1> QED
  BY <1>2, <1>4, <1>6 DEF FramesInv

\* A rediscovery is not called under Unload.
LEMMA FramesDeliver ==
  ASSUME IInv, FramesInv, Deliver, IInv'
  PROVE  FramesInv'
<1>1. UNCHANGED <<core, workers, host>> /\ queue # <<>> /\ Serves
  BY DEF Deliver, DeliverStatus, DeliverRediscover, lists, others
<1>2. core.manager \/ core.unloading
  BY <1>1 DEF FramesInv
<1>3. CASE gui' = gui
  BY <1>1, <1>2, <1>3, FramesSame
<1>4. CASE gui' # gui
  <2>1. ~core.unloading /\ \E pc \in {"cancel", "guard"} :
          Call("rediscover", pc) /\ (pc = "cancel" => Api = 5)
    BY <1>4 DEF Deliver, DeliverStatus, DeliverRediscover
  <2>2. PICK pc \in {"cancel", "guard"} :
          Call("rediscover", pc) /\ (pc = "cancel" => Api = 5)
    BY <2>1
  <2>3. /\ gui' # <<>> /\ Top'.pc = pc /\ Top'.op = "rediscover" /\ Below' = Frames
        /\ Frames' = Below' \union {Top'}
    <3>1. "rediscover" \in Ops /\ pc \in Pcs
      BY DEF Ops, Pcs
    <3> QED
      BY <2>2, <3>1, StackSteps, StackSplit
  <2>4. pc \in PlacesOf("rediscover")
    BY <2>2 DEF PlacesOf, DiscoverPcs, JoinPcs
  <2>5. \A f \in Frames' : f.pc \in PlacesOf(f.op)
    BY <2>3, <2>4 DEF FramesInv
  <2>6. Api = 4 => Below' = {}
    BY <1>1, <2>3, StackSteps DEF Serves, Pumps
  <2>7. \A f \in Below' : f.op # "unload"
    BY <2>1, <2>3, StackSteps DEF FramesInv
  <2> QED
    BY <1>1, <1>2, <2>1, <2>3, <2>5, <2>6, <2>7 DEF FramesInv
<1> QED
  BY <1>3, <1>4

\* The host calls back on the application thread where no handler runs.
LEMMA FramesDetection ==
  ASSUME IInv, FramesInv, DetectionStart, IInv'
  PROVE  FramesInv'
<1>1. core \in Core /\ gui = <<>> /\ Api = 4 /\ UNCHANGED <<queue, workers>>
  BY DEF IInv, TypeOK, DetectionStart, Idle
<1>2. CASE core.manager
  <2>1. Call("detection", "pending") /\ core'.manager /\ core'.unloading = core.unloading
    BY <1>1, <1>2 DEF DetectionStart, Core
  <2>2. gui' # <<>> /\ Top'.pc = "pending" /\ Top'.op = "detection" /\ Below' = {} /\ Frames' = {Top'}
    <3>1. "detection" \in Ops /\ "pending" \in Pcs
      BY DEF Ops, Pcs
    <3> QED
      BY <1>1, <2>1, <3>1, StackSteps, StackSplit
  <2>3. "pending" \in PlacesOf("detection")
    BY <1>1 DEF PlacesOf, CallbackPcs
  <2>4. \A f \in Frames' : f.pc \in PlacesOf(f.op)
    BY <2>2, <2>3
  <2>5. ~core.unloading
    BY <1>1, <1>2 DEF FramesInv
  <2> QED
    BY <2>1, <2>2, <2>4, <2>5 DEF FramesInv
<1>3. CASE ~core.manager
  <2>1. gui' = gui /\ core' = core /\ (core.unloading \/ (queue' = <<>> /\ workers' = {}))
    BY <1>1, <1>3 DEF DetectionStart, FramesInv
  <2>2. host'.pc = "scanning"
    BY <1>3 DEF DetectionStart, HostGoto, IInv, TypeOK
  <2> QED
    BY <2>1, <2>2, FramesSame
<1> QED
  BY <1>2, <1>3

\* The host's thread and the workers leave the handlers alone.
LEMMA FramesOthers ==
  ASSUME IInv, FramesInv, HostStart \/ HostContinue \/ \E w \in workers : WorkerStep(w), IInv'
  PROVE  FramesInv'
<1>1. core \in Core /\ host \in [pc : HostPcs, flag : BOOLEAN]
  BY DEF IInv, TypeOK
<1>2. CASE HostStart \/ HostContinue
  <2>1. gui' = gui /\ core'.manager = core.manager /\ core'.unloading = core.unloading /\ workers' = workers
    BY <1>1, <1>2 DEF HostStart, HostContinue, HostReadUnloading, HostSetPending, HostCancel, HostSupersede,
       HostAnnounce, HostDropAll, HostEnd, HostDecide, HostRepost, HostClear, lists, Core
  <2>2. ~core.manager /\ ~core.unloading => queue' = queue /\ host'.pc \in {"idle", "scanning"}
    <3> SUFFICES ASSUME ~core.manager, ~core.unloading
                 PROVE  queue' = queue /\ host'.pc \in {"idle", "scanning"}
      OBVIOUS
    <3>1. host.pc \in {"idle", "scanning"}
      BY DEF FramesInv
    <3>2. HostStart \/ HostEnd
      BY <1>2, <3>1 DEF HostContinue, HostReadUnloading, HostSetPending, HostCancel, HostSupersede,
         HostAnnounce, HostDropAll, HostEnd, HostDecide, HostRepost, HostClear, HostAt
    <3> QED
      BY <1>1, <3>2 DEF HostStart, HostEnd, HostGoto
  <2> QED
    BY <2>1, <2>2, FramesSame DEF FramesInv
<1>3. CASE \E w \in workers : WorkerStep(w)
  <2>1. gui' = gui /\ core'.manager = core.manager /\ core'.unloading = core.unloading
    BY <1>1, <1>3 DEF WorkerStep, WorkerWaitHost, WorkerCheck, WorkerTakeRegistry, WorkerUnregister, WorkerUnregisterThrows,
       WorkerScan, WorkerFails, WorkerPick, WorkerAbort, WorkerRegister, WorkerRegisterThrows, WorkerFail, WorkerRecord,
       WorkerPublish, WorkerExit, workerFrame, lists, Core
  <2>2. workers # {}
    BY <1>3
  <2> QED
    BY <2>1, <2>2, FramesSame DEF FramesInv
<1> QED
  BY <1>2, <1>3

\* Every step keeps the handlers in their places.
LEMMA FramesStep ==
  ASSUME IInv, FramesInv, [Next]_vars, IInv'
  PROVE  FramesInv'
<1>1. CASE UNCHANGED vars
  BY <1>1, FramesSame DEF vars, FramesInv
<1>2. CASE Next
  BY <1>2, FramesHandle, FramesRequest, FramesDeliver, FramesDetection, FramesOthers
  DEF Next, Environment
<1> QED
  BY <1>1, <1>2

-----------------------------------------------------------------------------
(* StopDiscoveryThread leaves no worker behind.                            *)

\* Where a handler is that has stopped the worker and has not started another.
Stopped == {"stopped", "abandon", "announce"} \union UnloadPcs
Again == {"guard", "scanTest", "busyTest"}

\* Past its StopDiscoveryThread a handler finds the thread object not joinable,
\* and discovery_running_ is cleared until it starts a worker itself.
StoppedInv ==
  /\ \A f \in Frames : f.op = "rediscover" /\ Api = 5 => f.pc # "startJoin"
  /\ gui # <<>> =>
       /\ Top.pc \in Stopped => thread = 0
       /\ Top.pc \in UnloadPcs => ~core.running
       /\ Top.op = "rediscover" /\ Api = 5 /\ Top.pc \in Again => thread = 0 /\ ~core.running

\* Steps that leave the handlers where they are and start no worker.
LEMMA StoppedSame ==
  ASSUME IInv, StoppedInv, gui' = gui, thread' \in {thread, 0},
         core'.running => core.running
  PROVE  StoppedInv'
<1>1. Frames' = Frames /\ Top' = Top
  BY StackSteps
<1> QED
  BY <1>1 DEF StoppedInv

\* A handler that moves on.
LEMMA StoppedGoto ==
  ASSUME IInv, StoppedInv, gui # <<>>, NEW pc \in Pcs, Goto(pc), IInv',
         pc \in Stopped => thread' = 0,
         pc \in UnloadPcs => ~core'.running,
         Top.op = "rediscover" /\ Api = 5 =>
           pc # "startJoin" /\ (pc \in Again => thread' = 0 /\ ~core'.running)
  PROVE  StoppedInv'
<1>1. /\ gui' # <<>> /\ Top'.pc = pc /\ Top'.op = Top.op /\ Below' = Below
      /\ Frames = Below \union {Top}
      /\ Frames' = Below' \union {Top'}
  BY StackSteps, StackSplit
<1> QED
  BY <1>1 DEF StoppedInv

\* The handler that goes on was waiting: it is none of those.
LEMMA StoppedReturn ==
  ASSUME IInv, FramesInv, StoppedInv, gui # <<>>, Return, IInv'
  PROVE  StoppedInv'
<1>1. /\ Frames' = Below /\ Frames = Below \union {Top}
      /\ \A f \in Below : f.pc \in PumpPcs
      /\ gui' # <<>> => Top' \in Below
  BY StackSteps
<1>2. \A f \in Below : f.op # "unload" /\ f.pc \in PlacesOf(f.op)
  BY <1>1 DEF FramesInv
<1>3. \A f \in Below : f.op \in Ops
  <2>1. \A i \in 1 .. Len(gui) - 1 : i \in 1 .. Len(gui)
    BY TopProper
  <2> QED
    BY <2>1 DEF Below, IInv, StackOK, ProperFrame, Frame
<1>4. \A f \in Below : f.pc \in {"startJoin", "stopJoin"}
  BY <1>1, <1>2, <1>3 DEF PlacesOf, DiscoverPcs, JoinPcs, CallbackPcs, PumpPcs, Ops
<1> QED
  BY <1>1, <1>4 DEF StoppedInv, Stopped, UnloadPcs, Again

\* A handler that is called has not stopped anything yet.
LEMMA StoppedCall ==
  ASSUME IInv, StoppedInv, NEW op \in Ops, NEW pc \in {"guard", "cancel", "pending"}, Call(op, pc), IInv',
         op = "rediscover" /\ Api = 5 => pc = "cancel"
  PROVE  StoppedInv'
<1>1. pc \in Pcs
  BY DEF Pcs
<1>2. /\ gui' # <<>> /\ Top'.pc = pc /\ Top'.op = op /\ Below' = Frames
      /\ Frames' = Below' \union {Top'}
  BY <1>1, StackSteps, StackSplit
<1> QED
  BY <1>2 DEF StoppedInv, Stopped, UnloadPcs, Again

\* Every step: what StopDiscoveryThread has achieved lasts until the handler returns
\* or starts a worker itself.
LEMMA StoppedStep ==
  ASSUME IInv, FramesInv, StoppedInv, [Next]_vars, IInv'
  PROVE  StoppedInv'
<1>1. core \in Core
  BY DEF IInv, TypeOK
<1>2. gui # <<>> => Top.op \in Ops /\ Top.pc \in PlacesOf(Top.op)
  BY StackSteps, TopProper DEF FramesInv, ProperFrame, Frame
<1> DEFINE Calm == thread' \in {thread, 0} /\ (core'.running => core.running)
<1>3. CASE \/ DiscoverScanTest \/ DiscoverUncancel \/ DiscoverNewGeneration
           \/ StopCancel \/ StopSupersede \/ UnloadWaitBefore \/ UnloadTakeRegistry
           \/ UnloadUnregistered \/ UnloadWaitAfter \/ DetectionPending \/ DetectionAbandon
  <2> USE DEF StoppedInv, At, Stopped, UnloadPcs, Again, Pcs, others
  <2>1. CASE DiscoverScanTest
    <3>1. PICK pc \in {"defer", "busyTest"} : Goto(pc)
      BY <2>1 DEF DiscoverScanTest
    <3>2. gui # <<>> /\ thread' = thread /\ core'.running = core.running
      BY <1>1, <2>1 DEF DiscoverScanTest, Core
    <3> QED
      BY <2>1, <3>1, <3>2, StoppedGoto DEF DiscoverScanTest
  <2>2. CASE DiscoverUncancel
    <3>1. PICK pc \in {"newGeneration"} : Goto(pc)
      BY <2>2 DEF DiscoverUncancel
    <3>2. gui # <<>> /\ thread' = thread /\ core'.running = core.running
      BY <1>1, <2>2 DEF DiscoverUncancel, Core
    <3> QED
      BY <2>2, <3>1, <3>2, StoppedGoto DEF DiscoverUncancel
  <2>3. CASE DiscoverNewGeneration
    <3>1. PICK pc \in {"start"} : Goto(pc)
      BY <2>3 DEF DiscoverNewGeneration
    <3>2. gui # <<>> /\ thread' = thread /\ core'.running = core.running
      BY <1>1, <2>3 DEF DiscoverNewGeneration, Core
    <3> QED
      BY <2>3, <3>1, <3>2, StoppedGoto DEF DiscoverNewGeneration
  <2>4. CASE StopCancel
    <3>1. PICK pc \in {"supersede"} : Goto(pc)
      BY <2>4 DEF StopCancel
    <3>2. gui # <<>> /\ thread' = thread /\ core'.running = core.running
      BY <1>1, <2>4 DEF StopCancel, Core
    <3> QED
      BY <2>4, <3>1, <3>2, StoppedGoto DEF StopCancel
  <2>5. CASE StopSupersede
    <3>1. PICK pc \in {"stopJoin", "stopped"} : Goto(pc) /\ (pc = "stopped" => thread = 0)
      BY <2>5 DEF StopSupersede
    <3>2. gui # <<>> /\ thread' = thread /\ core'.running = core.running
      BY <1>1, <2>5 DEF StopSupersede, Core
    <3> QED
      BY <2>5, <3>1, <3>2, StoppedGoto DEF StopSupersede
  <2>6. CASE UnloadWaitBefore
    <3>1. PICK pc \in {"takeRegistry"} : Goto(pc)
      BY <2>6 DEF UnloadWaitBefore, UnloadWait
    <3>2. gui # <<>> /\ thread' = thread /\ core'.running = core.running
      BY <1>1, <2>6 DEF UnloadWaitBefore, UnloadWait, Core
    <3> QED
      BY <2>6, <3>1, <3>2, StoppedGoto DEF UnloadWaitBefore, UnloadWait
  <2>7. CASE UnloadTakeRegistry
    <3>1. PICK pc \in {"unregister"} : Goto(pc)
      BY <2>7 DEF UnloadTakeRegistry
    <3>2. gui # <<>> /\ thread' = thread /\ core'.running = core.running
      BY <1>1, <2>7 DEF UnloadTakeRegistry, Core
    <3> QED
      BY <2>7, <3>1, <3>2, StoppedGoto DEF UnloadTakeRegistry
  <2>8. CASE UnloadUnregistered
    <3>1. PICK pc \in {"wait2"} : Goto(pc)
      BY <2>8 DEF UnloadUnregistered
    <3>2. gui # <<>> /\ thread' = thread /\ core'.running = core.running
      BY <1>1, <2>8 DEF UnloadUnregistered, Core
    <3> QED
      BY <2>8, <3>1, <3>2, StoppedGoto DEF UnloadUnregistered
  <2>9. CASE UnloadWaitAfter
    <3>1. PICK pc \in {"forget"} : Goto(pc)
      BY <2>9 DEF UnloadWaitAfter, UnloadWait
    <3>2. gui # <<>> /\ thread' = thread /\ core'.running = core.running
      BY <1>1, <2>9 DEF UnloadWaitAfter, UnloadWait, Core
    <3> QED
      BY <2>9, <3>1, <3>2, StoppedGoto DEF UnloadWaitAfter, UnloadWait
  <2>10. CASE DetectionPending
    <3>1. PICK pc \in {"cancel"} : Goto(pc)
      BY <2>10 DEF DetectionPending
    <3>2. gui # <<>> /\ thread' = thread /\ core'.running = core.running
      BY <1>1, <2>10 DEF DetectionPending, Core
    <3> QED
      BY <2>10, <3>1, <3>2, StoppedGoto DEF DetectionPending
  <2>11. CASE DetectionAbandon
    <3>1. PICK pc \in {"announce"} : Goto(pc)
      BY <2>11 DEF DetectionAbandon
    <3>2. gui # <<>> /\ thread' = thread /\ core'.running = core.running
      BY <1>1, <2>11 DEF DetectionAbandon, Core
    <3> QED
      BY <2>11, <3>1, <3>2, StoppedGoto DEF DetectionAbandon
  <2> QED
    BY <1>3, <2>1, <2>2, <2>3, <2>4, <2>5, <2>6, <2>7, <2>8, <2>9, <2>10, <2>11
<1>4. CASE DiscoverGuard \/ DiscoverBusyTest
  <2>1. CASE Return
    BY <1>4, <2>1, StoppedReturn DEF DiscoverGuard, DiscoverBusyTest, At
  <2>2. CASE DiscoverGuard /\ Goto("scanTest")
    BY <2>2, StoppedGoto DEF DiscoverGuard, At, StoppedInv, Stopped, UnloadPcs, Again, Pcs
  <2>3. CASE DiscoverBusyTest /\ ~Return
    <3>1. PICK pc \in {"startJoin", "uncancel"} : Goto(pc) /\ (pc = "startJoin" => thread # 0)
      BY <2>3 DEF DiscoverBusyTest
    <3> QED
      BY <2>3, <3>1, StoppedGoto DEF DiscoverBusyTest, At, StoppedInv, Stopped, UnloadPcs, Again, Pcs
  <2> QED
    BY <1>4, <2>1, <2>2, <2>3 DEF DiscoverGuard
<1>5. CASE DiscoverDefer \/ DiscoverStart \/ DetectionAnnounce \/ UnloadForget
  BY <1>5, StoppedReturn DEF DiscoverDefer, DiscoverStart, DetectionAnnounce, UnloadForget, At
<1>6. CASE DiscoverJoin \/ StopJoin
  <2>1. CASE thread = 0
    BY <1>6, <2>1, StoppedSame DEF DiscoverJoin, StopJoin, JoinThread
  <2>2. CASE thread # 0
    <3>1. PICK pc \in {"uncancel", "stopped"} : Goto(pc) /\ gui # <<>> /\ thread' = 0
      BY <1>6, <2>2 DEF DiscoverJoin, StopJoin, JoinThread, At
    <3> QED
      BY <3>1, StoppedGoto DEF StoppedInv, Stopped, UnloadPcs, Again, Pcs
  <2> QED
    BY <2>1, <2>2
<1>7. CASE StopDone
  <2>1. gui # <<>> /\ Top.pc = "stopped" /\ thread = 0 /\ thread' = thread /\ ~core'.running
    BY <1>1, <1>7 DEF StopDone, At, StoppedInv, Stopped, Core
  <2>2. PICK pc \in {"wait1", "guard", "abandon"} : Goto(pc)
    BY <1>2, <1>7, <2>1 DEF StopDone, AfterStop, PlacesOf, Ops, DiscoverPcs
  <2> QED
    BY <2>1, <2>2, StoppedGoto DEF Pcs
<1>8. CASE Load \/ Rescan \/ Unload \/ (DetectionStart /\ core.manager) \/ (DeliverRediscover /\ ~core.unloading)
  <2>1. PICK op \in {"load", "rescan", "unload", "detection", "rediscover"}, pc \in {"guard", "cancel", "pending"} :
          Call(op, pc) /\ (op = "rediscover" /\ Api = 5 => pc = "cancel")
    BY <1>8 DEF Load, Rescan, Unload, DetectionStart, DeliverRediscover
  <2> QED
    BY <2>1, StoppedCall DEF Ops
<1>9. CASE gui' = gui /\ Calm
  BY <1>9, StoppedSame
<1>10. CASE UnloadUnregister \/ UnloadThrows \/ DeliverStatus \/ (DeliverRediscover /\ core.unloading) \/ UNCHANGED vars
  BY <1>9, <1>10 DEF UnloadUnregister, UnloadThrows, DeliverStatus, DeliverRediscover, others, vars
<1>11. CASE HostStart \/ HostContinue \/ (DetectionStart /\ ~core.manager)
  <2>1. gui' = gui /\ thread' = thread
    BY <1>11 DEF HostStart, HostContinue, HostReadUnloading, HostSetPending, HostCancel, HostSupersede,
       HostAnnounce, HostDropAll, HostEnd, HostDecide, HostRepost, HostClear, DetectionStart
  <2>2. core'.running = core.running
    BY <1>1, <1>11 DEF HostStart, HostContinue, HostReadUnloading, HostSetPending, HostCancel, HostSupersede,
       HostAnnounce, HostDropAll, HostEnd, HostDecide, HostRepost, HostClear, DetectionStart, Core
  <2> QED
    BY <1>9, <2>1, <2>2
<1>12. CASE \E w \in workers : WorkerStep(w)
  <2>1. gui' = gui /\ thread' = thread /\ (core'.running => core.running)
    BY <1>1, <1>12 DEF WorkerStep, WorkerWaitHost, WorkerCheck, WorkerTakeRegistry, WorkerUnregister, WorkerUnregisterThrows,
       WorkerScan, WorkerFails, WorkerPick, WorkerAbort, WorkerRegister, WorkerRegisterThrows, WorkerFail, WorkerRecord,
       WorkerPublish, WorkerExit, workerFrame, Core
  <2> QED
    BY <1>9, <2>1
<1> QED
  BY <1>3, <1>4, <1>5, <1>6, <1>7, <1>8, <1>9, <1>10, <1>11, <1>12 DEF Next, Environment, Handle, Deliver

-----------------------------------------------------------------------------
(* What Unload and the API 4 callback take out of the registry.            *)

Emptied == {"unregister", "wait2", "forget", "announce"}

\* Once taken, the registry stays empty; what Unload took it unregisters before
\* it goes on.
TakenInv ==
  /\ gui # <<>> /\ Top.pc \in Emptied => registry = {}
  /\ doomed # {} => gui # <<>> /\ Top.pc = "unregister"

\* Without a host there is no worker, and nothing is registered.
ForgottenInv ==
  ~core.manager => thread = 0 /\ registry = {} /\ doomed = {} /\ ~core.running

\* A handler that moves on without touching the entries.
LEMMA TakenGoto ==
  ASSUME IInv, TakenInv, gui # <<>>, NEW pc \in Pcs, Goto(pc),
         doomed = {} \/ Top.pc # "unregister", UNCHANGED <<doomed, registry>>,
         pc \in Emptied => registry = {}
  PROVE  TakenInv'
<1>1. gui' # <<>> /\ Top'.pc = pc
  BY StackSteps
<1> QED
  BY <1>1 DEF TakenInv

\* Every step: nothing gets into a registry that was taken before its handler returns.
LEMMA TakenStep ==
  ASSUME IInv, FramesInv, StoppedInv, TakenInv, [Next]_vars, StoppedInv', FramesInv', IInv'
  PROVE  TakenInv'
<1>1. gui # <<>> => Top.op \in Ops /\ Top.pc \in PlacesOf(Top.op)
  BY StackSteps, TopProper DEF FramesInv, ProperFrame, Frame
<1>2. gui # <<>> /\ Top.pc = "unregister" => core.unloading
  BY <1>1 DEF FramesInv, PlacesOf, Ops, DiscoverPcs, JoinPcs, CallbackPcs
<1>3. ASSUME UNCHANGED <<gui, doomed, registry>> PROVE TakenInv'
  BY <1>3, StackSteps DEF TakenInv
<1>4. CASE \/ DiscoverScanTest \/ DiscoverUncancel \/ DiscoverNewGeneration
           \/ StopCancel \/ StopSupersede \/ UnloadWaitBefore
           \/ UnloadUnregistered \/ UnloadWaitAfter \/ DetectionPending
  <2> USE DEF TakenInv, Emptied, At, Pcs, locals, lists, others
  <2>1. CASE DiscoverScanTest
    <3>1. PICK pc \in {"defer", "busyTest"} : Goto(pc)
      BY <2>1 DEF DiscoverScanTest
    <3> QED
      BY <2>1, <3>1, TakenGoto DEF DiscoverScanTest
  <2>2. CASE DiscoverUncancel
    <3>1. PICK pc \in {"newGeneration"} : Goto(pc)
      BY <2>2 DEF DiscoverUncancel
    <3> QED
      BY <2>2, <3>1, TakenGoto DEF DiscoverUncancel
  <2>3. CASE DiscoverNewGeneration
    <3>1. PICK pc \in {"start"} : Goto(pc)
      BY <2>3 DEF DiscoverNewGeneration
    <3> QED
      BY <2>3, <3>1, TakenGoto DEF DiscoverNewGeneration
  <2>4. CASE StopCancel
    <3>1. PICK pc \in {"supersede"} : Goto(pc)
      BY <2>4 DEF StopCancel
    <3> QED
      BY <2>4, <3>1, TakenGoto DEF StopCancel
  <2>5. CASE StopSupersede
    <3>1. PICK pc \in {"stopJoin", "stopped"} : Goto(pc)
      BY <2>5 DEF StopSupersede
    <3> QED
      BY <2>5, <3>1, TakenGoto DEF StopSupersede
  <2>6. CASE UnloadWaitBefore
    <3>1. PICK pc \in {"takeRegistry"} : Goto(pc)
      BY <2>6 DEF UnloadWaitBefore, UnloadWait
    <3> QED
      BY <2>6, <3>1, TakenGoto DEF UnloadWaitBefore, UnloadWait
  <2>7. CASE UnloadUnregistered
    <3>1. PICK pc \in {"wait2"} : Goto(pc)
      BY <2>7 DEF UnloadUnregistered
    <3> QED
      BY <2>7, <3>1, TakenGoto DEF UnloadUnregistered
  <2>8. CASE UnloadWaitAfter
    <3>1. PICK pc \in {"forget"} : Goto(pc)
      BY <2>8 DEF UnloadWaitAfter, UnloadWait
    <3> QED
      BY <2>8, <3>1, TakenGoto DEF UnloadWaitAfter, UnloadWait
  <2>9. CASE DetectionPending
    <3>1. PICK pc \in {"cancel"} : Goto(pc)
      BY <2>9 DEF DetectionPending
    <3> QED
      BY <2>9, <3>1, TakenGoto DEF DetectionPending
  <2> QED
    BY <1>4, <2>1, <2>2, <2>3, <2>4, <2>5, <2>6, <2>7, <2>8, <2>9
<1>5. CASE UnloadTakeRegistry
  <2>1. gui' # <<>> /\ Top'.pc = "unregister" /\ registry' = {}
    BY <1>5, StackSteps DEF UnloadTakeRegistry, At, Pcs
  <2> QED
    BY <2>1 DEF TakenInv
<1>6. CASE DetectionAbandon
  <2>1. gui' # <<>> /\ Top'.pc = "announce" /\ registry' = {} /\ doomed' = doomed /\ Top.pc = "abandon"
    BY <1>6, StackSteps DEF DetectionAbandon, At, Pcs, locals
  <2> QED
    BY <2>1 DEF TakenInv
<1>7. CASE UnloadUnregister \/ UnloadThrows
  <2>1. gui' = gui /\ Top.pc = "unregister" /\ gui # <<>> /\ registry' = registry
    BY <1>7 DEF UnloadUnregister, UnloadThrows, At
  <2> QED
    BY <2>1, StackSteps DEF TakenInv
<1>8. CASE Return /\ UNCHANGED <<doomed, registry>> /\ gui # <<>> /\ Top.pc # "unregister"
  <2>1. gui' # <<>> => Top'.pc \notin Emptied
    <3>1. gui' # <<>> => Top' \in Below /\ Top'.pc \in PumpPcs
      BY <1>8, StackSteps
    <3>2. gui' # <<>> => Top'.op \in Ops /\ Top'.pc \in PlacesOf(Top'.op) /\ Top'.op # "unload"
      <4>1. \A i \in 1 .. Len(gui) - 1 : i \in 1 .. Len(gui)
        BY <1>8, TopProper
      <4>2. \A f \in Below : f.op \in Ops
        BY <4>1 DEF Below, IInv, StackOK, ProperFrame, Frame
      <4> QED
        BY <1>8, <3>1, <4>2, StackSteps DEF FramesInv
    <3> QED
      BY <3>1, <3>2 DEF PlacesOf, Ops, DiscoverPcs, JoinPcs, CallbackPcs, PumpPcs, Emptied
  <2> QED
    BY <1>8, <2>1 DEF TakenInv
<1>9. CASE DiscoverGuard \/ DiscoverBusyTest \/ DiscoverJoin \/ StopJoin \/ StopDone
  <2>1. UNCHANGED <<doomed, registry>> /\ gui # <<>> /\ Top.pc \notin Emptied
    BY <1>9 DEF DiscoverGuard, DiscoverBusyTest, DiscoverJoin, StopJoin, JoinThread, StopDone, At, locals, lists, Emptied
  <2>2. CASE Return
    BY <1>8, <2>1, <2>2 DEF Emptied
  <2>3. CASE gui' = gui
    BY <1>3, <2>1, <2>3
  <2>4. CASE StopDone
    <3>1. PICK pc \in {"wait1", "guard", "abandon"} : Goto(pc)
      BY <1>1, <2>1, <2>4 DEF StopDone, At, AfterStop, PlacesOf, Ops, DiscoverPcs
    <3> QED
      BY <2>1, <3>1, TakenGoto DEF Pcs, Emptied
  <2>5. CASE ~StopDone /\ ~Return /\ gui' # gui
    <3>1. PICK pc \in {"scanTest", "startJoin", "uncancel", "stopped"} : Goto(pc)
      BY <1>9, <2>5 DEF DiscoverGuard, DiscoverBusyTest, DiscoverJoin, StopJoin, JoinThread
    <3> QED
      BY <2>1, <3>1, TakenGoto DEF Pcs, Emptied
  <2> QED
    BY <2>2, <2>3, <2>4, <2>5
<1>10. CASE DiscoverDefer \/ DiscoverStart \/ DetectionAnnounce \/ UnloadForget
  BY <1>8, <1>10 DEF DiscoverDefer, DiscoverStart, DetectionAnnounce, UnloadForget, At, locals, lists
<1>11. CASE Load \/ Rescan \/ Unload \/ (DetectionStart /\ core.manager) \/ (DeliverRediscover /\ ~core.unloading)
  <2>1. PICK op \in {"load", "rescan", "unload", "detection", "rediscover"}, pc \in {"guard", "cancel", "pending"} :
          Call(op, pc) /\ UNCHANGED <<doomed, registry>>
    BY <1>11 DEF Load, Rescan, Unload, DetectionStart, DeliverRediscover, locals, lists
  <2>2. gui = <<>> \/ Top.pc # "unregister"
    BY <1>2, <1>11 DEF Load, Rescan, Unload, DetectionStart, DeliverRediscover, Idle
  <2>3. gui' # <<>> /\ Top'.pc = pc
    BY <2>1, StackSteps DEF Ops, Pcs
  <2> QED
    BY <2>1, <2>2, <2>3 DEF TakenInv, Emptied
<1>12. CASE DeliverStatus \/ (DeliverRediscover /\ core.unloading) \/ UNCHANGED vars \/ (DetectionStart /\ ~core.manager)
  BY <1>3, <1>12 DEF DeliverStatus, DeliverRediscover, DetectionStart, locals, lists, others, vars
<1>13. CASE HostStart \/ HostContinue
  BY <1>3, <1>13 DEF HostStart, HostContinue, HostReadUnloading, HostSetPending, HostCancel, HostSupersede,
       HostAnnounce, HostDropAll, HostEnd, HostDecide, HostRepost, HostClear, locals, lists
<1>14. CASE \E w \in workers : WorkerStep(w)
  <2>1. gui' = gui /\ doomed' = doomed
    BY <1>14 DEF WorkerStep, WorkerWaitHost, WorkerCheck, WorkerTakeRegistry, WorkerUnregister, WorkerUnregisterThrows,
       WorkerScan, WorkerFails, WorkerPick, WorkerAbort, WorkerRegister, WorkerRegisterThrows, WorkerFail, WorkerRecord,
       WorkerPublish, WorkerExit, workerFrame, locals
  <2>2. thread # 0
    BY <1>14 DEF IInv, OneWorker
  <2>3. gui # <<>> => Top.pc \notin Emptied
    BY <2>2 DEF StoppedInv, Stopped, UnloadPcs, Emptied
  <2> QED
    BY <2>1, <2>3, StackSteps DEF TakenInv
<1> QED
  BY <1>4, <1>5, <1>6, <1>7, <1>9, <1>10, <1>11, <1>12, <1>13, <1>14
  DEF Next, Environment, Handle, Deliver

\* Every step: only Unload forgets the host, and by then everything is gone.
LEMMA ForgottenStep ==
  ASSUME IInv, FramesInv, StoppedInv, TakenInv, ForgottenInv, [Next]_vars, IInv'
  PROVE  ForgottenInv'
<1>1. core \in Core
  BY DEF IInv, TypeOK
<1>2. CASE UnloadForget
  <2>1. gui # <<>> /\ Top.pc = "forget"
    BY <1>2 DEF UnloadForget, At
  <2>2. thread = 0 /\ ~core.running /\ registry = {} /\ doomed = {}
    BY <2>1 DEF StoppedInv, Stopped, UnloadPcs, TakenInv, Emptied
  <2>3. UNCHANGED <<thread, registry, doomed>> /\ core'.running = core.running
    BY <1>1, <1>2 DEF UnloadForget, locals, lists, Core
  <2> QED
    BY <2>2, <2>3 DEF ForgottenInv
<1>3. CASE Handle /\ ~UnloadForget
  <2>1. core.manager
    BY <1>3 DEF FramesInv, Handle, At, DiscoverGuard, DiscoverScanTest, DiscoverDefer,
     DiscoverBusyTest, DiscoverJoin, DiscoverUncancel, DiscoverNewGeneration, DiscoverStart, StopCancel,
     StopSupersede, StopJoin, StopDone, UnloadWaitBefore, UnloadWait, UnloadTakeRegistry, UnloadUnregister, UnloadThrows,
     UnloadUnregistered, UnloadWaitAfter, DetectionPending, DetectionAbandon, DetectionAnnounce
  <2>2. core'.manager = core.manager
    BY <1>1, <1>3 DEF Handle, DiscoverGuard, DiscoverScanTest, DiscoverDefer,
     DiscoverBusyTest, DiscoverJoin, DiscoverUncancel, DiscoverNewGeneration, DiscoverStart, StopCancel,
     StopSupersede, StopJoin, JoinThread, StopDone, UnloadWaitBefore, UnloadWait, UnloadTakeRegistry, UnloadUnregister, UnloadThrows,
     UnloadUnregistered, UnloadWaitAfter, DetectionPending, DetectionAbandon, DetectionAnnounce, others, Core
  <2> QED
    BY <2>1, <2>2 DEF ForgottenInv
<1>4. CASE Environment \/ Deliver
  <2>1. UNCHANGED <<thread, registry, doomed>> /\ core'.running = core.running /\ (core.manager => core'.manager)
    BY <1>1, <1>4 DEF Environment, Load, Rescan, Unload, HostStart, DetectionStart, Deliver, DeliverStatus,
      DeliverRediscover, others, lists, locals, Core
  <2> QED
    BY <2>1 DEF ForgottenInv
<1>5. CASE HostContinue
  <2>1. UNCHANGED <<thread, registry, doomed>> /\ core'.running = core.running /\ core'.manager = core.manager
    BY <1>1, <1>5 DEF HostContinue, HostReadUnloading, HostSetPending, HostCancel, HostSupersede,
      HostAnnounce, HostDropAll, HostEnd, HostDecide, HostRepost, HostClear, lists, locals, Core
  <2> QED
    BY <2>1 DEF ForgottenInv
<1>6. CASE \E w \in workers : WorkerStep(w)
  <2>1. core.manager
    BY <1>6 DEF ForgottenInv, IInv, OneWorker
  <2>2. core'.manager = core.manager
    BY <1>1, <1>6 DEF WorkerStep, WorkerWaitHost, WorkerCheck, WorkerTakeRegistry, WorkerUnregister, WorkerUnregisterThrows,
       WorkerScan, WorkerFails, WorkerPick, WorkerAbort, WorkerRegister, WorkerRegisterThrows, WorkerFail, WorkerRecord,
       WorkerPublish, WorkerExit, Core
  <2> QED
    BY <2>1, <2>2 DEF ForgottenInv
<1>7. CASE UNCHANGED vars
  BY <1>7 DEF vars, locals, lists, ForgottenInv
<1> QED
  BY <1>2, <1>3, <1>4, <1>5, <1>6, <1>7 DEF Next

-----------------------------------------------------------------------------
(* The host's scan, in API 4: its callback joins the worker, and a worker  *)
(* does not go on before the scan has ended.                               *)

\* Where DiscoverSignalRgbDevices has found that the host does not scan.
AwayFromScan == {"busyTest", "startJoin"} \union StartPcs

\* Where the host's thread is in OnOpenRgbDetectionStarted (API 5).
CancelPcs == {"readUnloading", "setPending", "cancel", "supersede", "announce"}

\* A host that drops its list, or scans, does so with no worker past its wait, and
\* with no handler that goes on as if it were not scanning.
ScanInv ==
  /\ host.pc = "callback" <=> gui # <<>> /\ Top.op = "detection"
  /\ host.pc \in {"callback", "dropAll"} => Api = 4 /\ core.scanning /\ core.manager
  /\ host.pc = "dropAll" => registry = {} /\ workers = {}
  /\ host.pc \in CancelPcs => Api = 5
  /\ Api = 4 /\ host.pc = "scanning" => \A w \in workers : w.pc = "waitHost"
  /\ Api = 4 /\ gui # <<>> /\ core.scanning =>
       Top.pc \notin (UnloadPcs \ {"wait1"}) \union AwayFromScan

\* The handlers' steps but for the last of the callback.
LEMMA ScanGoto ==
  ASSUME IInv, ScanInv, gui # <<>>, NEW pc \in Pcs, Goto(pc),
         host' = host, core'.scanning = core.scanning, core'.manager = core.manager,
         workers' = workers, registry' \in {registry, {}},
         Api = 4 /\ core.scanning => pc \notin (UnloadPcs \ {"wait1"}) \union AwayFromScan
  PROVE  ScanInv'
<1>1. gui' # <<>> /\ Top'.pc = pc /\ Top'.op = Top.op
  BY StackSteps
<1> QED
  BY <1>1 DEF ScanInv

\* A handler that returns.
LEMMA ScanReturn ==
  ASSUME IInv, FramesInv, ScanInv, gui # <<>>, Return, Top.op # "detection",
         host' = host, core'.scanning = core.scanning, registry' = registry,
         core.scanning => core'.manager = core.manager,
         Api = 5 \/ ~core.scanning \/ workers' = workers,
         workers' = workers \/ \E w : w.pc = "waitHost" /\ workers' = workers \union {w}
  PROVE  ScanInv'
<1>1. gui' # <<>> => Top' \in Below /\ Below \subseteq Frames
  BY StackSteps
<1>2. Api = 4 => gui' = <<>>
  BY <1>1 DEF FramesInv
<1>3. gui' # <<>> => Top'.op # "detection"
  BY <1>1, <1>2, ApiAssumption DEF FramesInv, PlacesOf
<1>4. host.pc # "callback"
  BY DEF ScanInv
<1> QED
  BY <1>2, <1>3, <1>4, ApiAssumption DEF ScanInv

\* Steps that leave the handlers alone.
LEMMA ScanSame ==
  ASSUME IInv, ScanInv, gui' = gui, host' = host,
         core'.scanning = core.scanning, core'.manager = core.manager,
         registry' \in {registry, {}} \/ workers # {},
         workers' = workers \/ ~(Api = 4 /\ host.pc = "scanning"),
         workers' = {} \/ workers # {}
  PROVE  ScanInv'
<1>1. Top' = Top
  BY StackSteps
<1> QED
  BY <1>1 DEF ScanInv

\* A handler that is called; the API 4 callback is not among them.
LEMMA ScanCall ==
  ASSUME IInv, FramesInv, ScanInv, NEW op \in Ops \ {"detection"}, NEW pc \in {"guard", "cancel"},
         Call(op, pc), host' = host, UNCHANGED <<workers, registry>>, core'.manager,
         core'.scanning = core.scanning \/ ~core.manager,
         Api = 4 => gui = <<>>, gui = <<>> \/ Top.op # "detection"
  PROVE  ScanInv'
<1>1. gui' # <<>> /\ Top'.pc = pc /\ Top'.op = op
  BY StackSteps DEF Pcs
<1> QED
  BY <1>1 DEF ScanInv, UnloadPcs, AwayFromScan, StartPcs

\* The host's thread, and the two ends of the API 4 callback.
LEMMA ScanHost ==
  ASSUME IInv, FramesInv, StoppedInv, ForgottenInv, TakenInv, ScanInv,
         HostStart \/ HostContinue \/ DetectionStart \/ DetectionAnnounce
  PROVE  ScanInv'
<1> USE DEF CancelPcs
<1>1. core \in Core /\ host \in [pc : HostPcs, flag : BOOLEAN]
  BY DEF IInv, TypeOK
<1>2. CASE DetectionAnnounce
  <2>1. gui # <<>> /\ Top.pc = "announce" /\ Return /\ UNCHANGED <<core, registry, workers>>
    BY <1>2 DEF DetectionAnnounce, At, lists
  <2>2. Top.op = "detection" /\ Api = 4
    <3>1. Top \in Frames /\ Top.op \in Ops
      BY <2>1, StackSteps, TopProper DEF ProperFrame, Frame
    <3> QED
      BY <2>1, <3>1 DEF FramesInv, PlacesOf, Ops, DiscoverPcs, JoinPcs, UnloadPcs
  <2>3. gui' = <<>>
    BY <2>1, <2>2, StackSteps DEF FramesInv
  <2>4. registry = {} /\ thread = 0 /\ workers = {}
    BY <2>1 DEF TakenInv, Emptied, StoppedInv, Stopped, IInv, OneWorker
  <2>5. host'.pc = "dropAll" /\ host.pc = "callback"
    BY <1>1, <1>2, <2>1, <2>2 DEF DetectionAnnounce, HostGoto, ScanInv
  <2> QED
    BY <2>1, <2>2, <2>3, <2>4, <2>5 DEF ScanInv
<1>3. CASE DetectionStart /\ core.manager
  <2>1. gui' # <<>> /\ Top'.pc = "pending" /\ Top'.op = "detection"
    BY <1>3, StackSteps DEF DetectionStart, Ops, Pcs
  <2>2. host'.pc = "callback" /\ core'.scanning /\ core'.manager /\ Api = 4
    BY <1>1, <1>3 DEF DetectionStart, HostGoto, Core
  <2> QED
    BY <2>1, <2>2 DEF ScanInv, UnloadPcs, AwayFromScan, StartPcs
<1>4. CASE DetectionStart /\ ~core.manager
  <2>1. gui = <<>> /\ gui' = gui /\ workers' = workers /\ host'.pc = "scanning"
    BY <1>1, <1>4 DEF DetectionStart, Idle, HostGoto
  <2>2. workers = {}
    BY <1>4 DEF ForgottenInv, IInv, OneWorker
  <2> QED
    BY <2>1, <2>2 DEF ScanInv
<1>5. CASE HostStart
  <2>1. Api = 5 /\ gui' = gui /\ host.pc = "idle" /\ host'.pc \in {"readUnloading", "scanning"}
    BY <1>1, <1>5 DEF HostStart, HostAt, HostGoto
  <2> QED
    BY <2>1, StackSteps DEF ScanInv
<1>6. CASE HostDropAll
  <2>1. host.pc = "dropAll" /\ host'.pc = "scanning" /\ UNCHANGED <<gui, workers, registry, core>>
    BY <1>1, <1>6 DEF HostDropAll, HostAt, HostGoto
  <2> QED
    BY <2>1, StackSteps DEF ScanInv
<1>7. CASE HostClear
  <2>1. host.pc = "clear" /\ host'.pc = "idle" /\ UNCHANGED <<gui, workers, registry>> /\ ~core'.scanning
    BY <1>1, <1>7 DEF HostClear, HostAt, HostGoto, lists, Core
  <2> QED
    BY <2>1, StackSteps DEF ScanInv
<1>8. CASE HostContinue /\ ~HostDropAll /\ ~HostClear
  <2>1. UNCHANGED <<gui, workers, registry>> /\ core'.scanning = core.scanning /\ core'.manager = core.manager
    BY <1>1, <1>8 DEF HostContinue, HostReadUnloading, HostSetPending, HostCancel, HostSupersede,
      HostAnnounce, HostEnd, HostDecide, HostRepost, lists, Core
  <2>2. host.pc \notin {"callback", "dropAll"} /\ host'.pc \notin {"callback", "dropAll"}
        /\ (host'.pc \in CancelPcs \union {"scanning"} => host.pc \in CancelPcs)
    BY <1>1, <1>8 DEF HostContinue, HostReadUnloading, HostSetPending, HostCancel, HostSupersede,
      HostAnnounce, HostEnd, HostDecide, HostRepost, HostAt, HostGoto
  <2> QED
    BY <2>1, <2>2, StackSteps DEF ScanInv
<1> QED
  BY <1>2, <1>3, <1>4, <1>5, <1>6, <1>7, <1>8

\* The handlers' own steps.
LEMMA ScanHandle ==
  ASSUME IInv, FramesInv, StoppedInv, TakenInv, ScanInv, Handle, ~DetectionAnnounce
  PROVE  ScanInv'
<1>1. core \in Core
  BY DEF IInv, TypeOK
<1>2. gui # <<>> => Top.op \in Ops /\ Top.pc \in PlacesOf(Top.op)
  BY StackSteps, TopProper DEF FramesInv, ProperFrame, Frame
<1>3. Api = 4 /\ gui # <<>> /\ core.scanning => Top.pc \notin (UnloadPcs \ {"wait1"}) \union AwayFromScan
  BY DEF ScanInv
<1>4. CASE \/ DiscoverScanTest \/ DiscoverUncancel \/ DiscoverNewGeneration
           \/ StopCancel \/ StopSupersede \/ UnloadWaitBefore \/ UnloadTakeRegistry
           \/ UnloadUnregistered \/ UnloadWaitAfter \/ DetectionPending \/ DetectionAbandon
  <2>1. gui # <<>> /\ UNCHANGED <<host, workers>> /\ registry' \in {registry, {}}
        /\ core'.scanning = core.scanning /\ core'.manager = core.manager
    BY <1>1, <1>4 DEF DiscoverScanTest, DiscoverUncancel, DiscoverNewGeneration, StopCancel, StopSupersede,
       UnloadWaitBefore, UnloadWait, UnloadTakeRegistry, UnloadUnregistered, UnloadWaitAfter,
       DetectionPending, DetectionAbandon, At, others, lists, Core
  <2> DEFINE Tos == {"defer", "busyTest", "newGeneration", "start", "supersede", "stopJoin", "stopped",
                     "takeRegistry", "unregister", "wait2", "forget", "cancel", "announce"}
  <2>2. PICK pc \in Tos : Goto(pc) /\ (Api = 4 /\ core.scanning => pc \notin (UnloadPcs \ {"wait1"}) \union AwayFromScan)
    <3> USE <1>3 DEF UnloadPcs, AwayFromScan, StartPcs, At
    <3>1. CASE DiscoverScanTest
      BY <3>1 DEF DiscoverScanTest
    <3>2. CASE DiscoverUncancel
      BY <3>2 DEF DiscoverUncancel
    <3>3. CASE DiscoverNewGeneration
      BY <3>3 DEF DiscoverNewGeneration
    <3>4. CASE StopCancel \/ DetectionPending \/ DetectionAbandon
      BY <3>4 DEF StopCancel, DetectionPending, DetectionAbandon
    <3>5. CASE StopSupersede
      BY <3>5 DEF StopSupersede
    <3>6. CASE UnloadWaitBefore \/ UnloadWaitAfter
      BY <3>6 DEF UnloadWaitBefore, UnloadWaitAfter, UnloadWait
    <3>7. CASE UnloadTakeRegistry \/ UnloadUnregistered
      BY <3>7 DEF UnloadTakeRegistry, UnloadUnregistered
    <3> QED
      BY <1>4, <3>1, <3>2, <3>3, <3>4, <3>5, <3>6, <3>7
  <2>3. pc \in Pcs
    BY DEF Pcs
  <2> QED
    BY <2>1, <2>2, <2>3, ScanGoto
<1>5. CASE UnloadUnregister \/ UnloadThrows
  BY <1>5, ScanSame DEF UnloadUnregister, UnloadThrows, others
<1>6. CASE DiscoverGuard \/ DiscoverBusyTest \/ DiscoverJoin \/ StopJoin
  <2>1. gui # <<>> /\ UNCHANGED <<core, host, workers, registry>>
        /\ Top.pc \in {"guard", "busyTest", "startJoin", "stopJoin"}
    BY <1>6 DEF DiscoverGuard, DiscoverBusyTest, DiscoverJoin, StopJoin, JoinThread, At, others, lists
  <2>2. CASE Return /\ Top.pc \in {"guard", "busyTest"}
    <3>1. Top.op # "detection"
      BY <1>2, <2>1, <2>2 DEF PlacesOf, JoinPcs, CallbackPcs
    <3> QED
      BY <2>1, <2>2, <3>1, ScanReturn
  <2>3. CASE gui' = gui
    BY <2>1, <2>3, ScanSame
  <2>4. CASE ~(Return /\ Top.pc \in {"guard", "busyTest"}) /\ gui' # gui
    <3>1. PICK pc \in {"scanTest", "startJoin", "uncancel", "stopped"} :
            Goto(pc) /\ (pc \in {"startJoin", "uncancel"} => Top.pc \in {"busyTest", "startJoin"})
      BY <1>6, <2>4 DEF DiscoverGuard, DiscoverBusyTest, DiscoverJoin, StopJoin, JoinThread, At
    <3> QED
      BY <1>3, <2>1, <3>1, ScanGoto DEF Pcs, UnloadPcs, AwayFromScan, StartPcs
  <2> QED
    BY <2>2, <2>3, <2>4
<1>7. CASE StopDone
  <2>1. gui # <<>> /\ Top.pc = "stopped" /\ UNCHANGED <<host, workers, registry>>
        /\ core'.scanning = core.scanning /\ core'.manager = core.manager
    BY <1>1, <1>7 DEF StopDone, At, others, lists, Core
  <2>2. PICK pc \in {"wait1", "guard", "abandon"} : Goto(pc)
    BY <1>2, <1>7, <2>1 DEF StopDone, AfterStop, PlacesOf, Ops, DiscoverPcs
  <2> QED
    BY <2>1, <2>2, ScanGoto DEF Pcs, UnloadPcs, AwayFromScan, StartPcs
<1>8. CASE DiscoverDefer \/ DiscoverStart
  <2>1. gui # <<>> /\ Top.op # "detection" /\ Return /\ UNCHANGED <<host, registry>>
    BY <1>2, <1>8 DEF DiscoverDefer, DiscoverStart, At, PlacesOf, Ops, JoinPcs, CallbackPcs, others, lists
  <2>2. core'.scanning = core.scanning /\ core'.manager = core.manager
    BY <1>1, <1>8 DEF DiscoverDefer, DiscoverStart, Core
  <2>3. CASE DiscoverDefer
    BY <2>1, <2>2, <2>3, ScanReturn DEF DiscoverDefer, others
  <2>4. CASE DiscoverStart
    <3>1. workers' = workers \union {NewWorker(newGeneration)} /\ NewWorker(newGeneration).pc = "waitHost"
      BY <2>4 DEF DiscoverStart, NewWorker
    <3>2. Api = 5 \/ ~core.scanning
      BY <1>3, <2>4, ApiAssumption DEF DiscoverStart, At, AwayFromScan, StartPcs
    <3> QED
      BY <2>1, <2>2, <3>1, <3>2, ScanReturn
  <2> QED
    BY <1>8, <2>3, <2>4
<1>9. CASE UnloadForget
  <2>1. gui # <<>> /\ Top.pc = "forget" /\ Return /\ UNCHANGED <<host, registry, workers>>
    BY <1>9 DEF UnloadForget, At, others, lists
  <2>2. Top.op # "detection"
    BY <1>2, <2>1 DEF PlacesOf, Ops, JoinPcs, CallbackPcs
  <2>3. core'.scanning = core.scanning /\ ~core'.manager
    BY <1>1, <1>9 DEF UnloadForget, Core
  <2>4. gui' = <<>> \/ Api = 5
    BY <2>1, StackSteps, ApiAssumption DEF FramesInv
  <2>5. Api = 4 => ~core.scanning
    BY <1>3, <2>1 DEF UnloadPcs
  <2>6. gui' # <<>> => Top'.op # "detection"
    BY <2>1, <2>4, StackSteps DEF FramesInv, PlacesOf
  <2> QED
    BY <2>1, <2>2, <2>3, <2>4, <2>5, <2>6, ApiAssumption DEF ScanInv
<1> QED
  BY <1>4, <1>5, <1>6, <1>7, <1>8, <1>9 DEF Handle

\* The workers wait for the end of the host's scan.
LEMMA ScanWorker ==
  ASSUME IInv, ScanInv, NEW w \in workers, WorkerStep(w)
  PROVE  ScanInv'
<1>1. core \in Core /\ workers = {w}
  BY DEF IInv, TypeOK, OneWorker
<1>2. gui' = gui /\ host' = host /\ core'.scanning = core.scanning /\ core'.manager = core.manager
  BY <1>1 DEF WorkerStep, WorkerWaitHost, WorkerCheck, WorkerTakeRegistry, WorkerUnregister, WorkerUnregisterThrows,
       WorkerScan, WorkerFails, WorkerPick, WorkerAbort, WorkerRegister, WorkerRegisterThrows, WorkerFail, WorkerRecord,
       WorkerPublish, WorkerExit, workerFrame, Core
<1>3. ~(Api = 4 /\ host.pc = "scanning")
  BY DEF ScanInv, WorkerStep, WorkerWaitHost, WorkerCheck, WorkerTakeRegistry, WorkerUnregister, WorkerUnregisterThrows,
       WorkerScan, WorkerFails, WorkerPick, WorkerAbort, WorkerRegister, WorkerRegisterThrows, WorkerFail, WorkerRecord,
       WorkerPublish, WorkerExit, WorkerAt
<1> QED
  BY <1>1, <1>2, <1>3, ScanSame

\* Every step.
LEMMA ScanStep ==
  ASSUME IInv, FramesInv, StoppedInv, TakenInv, ForgottenInv, ScanInv, [Next]_vars
  PROVE  ScanInv'
<1>1. core \in Core
  BY DEF IInv, TypeOK
<1>2. CASE Load \/ Rescan \/ Unload \/ (DeliverRediscover /\ ~core.unloading)
  <2>1. UNCHANGED <<host, workers, registry>>
    BY <1>2 DEF Load, Rescan, Unload, DeliverRediscover, others, lists
  <2>2. core'.manager /\ (core'.scanning = core.scanning \/ ~core.manager)
    <3>1. DeliverRediscover /\ ~core.unloading => core.manager
      BY DEF DeliverRediscover, FramesInv
    <3> QED
      BY <1>1, <1>2, <3>1 DEF Load, Rescan, Unload, DeliverRediscover, Core
  <2>3. PICK op \in Ops \ {"detection"}, pc \in {"guard", "cancel"} : Call(op, pc)
    BY <1>2 DEF Load, Rescan, Unload, DeliverRediscover, Ops
  <2>4. /\ Api = 4 => gui = <<>>
        /\ gui = <<>> \/ Top.op # "detection"
    <3>1. Api = 4 => gui = <<>>
      BY <1>2 DEF Load, Rescan, Unload, DeliverRediscover, Serves, Pumps, Idle
    <3>2. gui # <<>> => Top \in Frames
      BY StackSteps
    <3> QED
      BY <3>1, <3>2, ApiAssumption DEF FramesInv, PlacesOf
  <2> QED
    BY <2>1, <2>2, <2>3, <2>4, ScanCall
<1>3. CASE DeliverStatus \/ (DeliverRediscover /\ core.unloading) \/ UNCHANGED vars
  BY <1>3, ScanSame DEF DeliverStatus, DeliverRediscover, others, lists, vars
<1> QED
  BY <1>2, <1>3, ScanHost, ScanHandle, ScanWorker DEF Next, Environment, Handle, Deliver

-----------------------------------------------------------------------------
(* The registry and the host's list.                                       *)

\* Generations only grow: whatever is listed is no younger than the core's, and
\* older than the one a handler is about to start a worker for.
GenerationInv ==
  /\ thread <= core.generation
  /\ newGeneration <= core.generation
  /\ \A c \in hostList : c.gen <= core.generation
  /\ gui # <<>> /\ Top.pc = "start" => \A c \in hostList : c.gen < newGeneration

\* What a worker has in hand is what the host lists and the registry does not:
\* the entries it took, then the controller between its registration and its
\* record; and no candidate is left that was registered already.
InHandOK(w) ==
  /\ w.pc # "unregister" => w.old = {}
  /\ w.pc = "unregister" => registry = {}
  /\ w.pc \notin {"register", "record"} => w.new = {}
  /\ w.pc = "register" => w.new \cap hostList = {}
  /\ w.pc = "record" => w.new \subseteq hostList
  /\ \A c \in w.new : c.dev \notin w.left
  /\ \A c \in hostList : c.gen = w.gen => c.dev \notin w.left
  /\ w.pc \in {"match", "register", "record"} => w.listed = registry
  /\ w.pc \in {"waitHost", "check", "takeRegistry", "unregister"} => w.listed = {}

\* What the plugin has destroyed under the host is in nobody's hand, and only an
\* exception of an API 5 host brings it about.
OrphansInv ==
  /\ orphans \subseteq hostList
  /\ orphans \cap InHand = {}
  /\ orphans # {} => Api = 5 /\ HostThrows

\* The two lists agree, up to what the worker has in hand and the orphans.
ListsInv == RegistryAndHostAgree /\ OrphansInv /\ \A w \in workers : InHandOK(w)

\* Every step: a new generation is younger than whatever is listed.
LEMMA GenerationStep ==
  ASSUME IInv, GenerationInv, [Next]_vars
  PROVE  GenerationInv'
<1>1. core \in Core /\ core.generation \in Nat /\ newGeneration \in Nat /\ thread \in Nat
      /\ hostList \in SUBSET Controllers
  BY DEF IInv, TypeOK, Core
<1>2. ASSUME core'.generation = core.generation, thread' \in {thread, 0, newGeneration}, newGeneration' = newGeneration,
             hostList' \subseteq hostList,
             gui' # <<>> /\ Top'.pc = "start" => gui # <<>> /\ Top.pc = "start"
      PROVE  GenerationInv'
  BY <1>1, <1>2 DEF GenerationInv
<1>3. ASSUME core'.generation = core.generation + 1, UNCHANGED <<thread, newGeneration, hostList>>,
             gui' # <<>> /\ Top'.pc = "start" => gui # <<>> /\ Top.pc = "start"
      PROVE  GenerationInv'
  <2>1. \A c \in hostList : c.gen \in Nat
    BY <1>1 DEF Controllers
  <2> QED
    BY <1>1, <1>3, <2>1 DEF GenerationInv
<1>4. CASE DiscoverNewGeneration
  <2>1. core'.generation = core.generation + 1 /\ newGeneration' = core'.generation
        /\ UNCHANGED <<thread, hostList>>
    BY <1>1, <1>4 DEF DiscoverNewGeneration, lists, others, Core
  <2>2. \A c \in hostList : c.gen \in Nat
    BY <1>1 DEF Controllers
  <2> QED
    BY <1>1, <2>1, <2>2 DEF GenerationInv
<1>5. CASE Handle /\ ~DiscoverNewGeneration
  <2>1. gui' # <<>> /\ Top'.pc = "start" => gui # <<>> /\ Top.pc = "start"
    <3>1. CASE Return /\ gui # <<>>
      BY <3>1, StackSteps DEF PumpPcs
    <3>2. CASE gui' = gui
      BY <3>2, StackSteps
    <3>3. CASE gui # <<>> /\ \E pc \in Pcs \ {"start"} : Goto(pc)
      BY <3>3, StackSteps
    <3>4. (Return /\ gui # <<>>) \/ gui' = gui \/ (gui # <<>> /\ \E pc \in Pcs \ {"start"} : Goto(pc))
      <4>1. CASE StopDone
        <5>1. AfterStop(Top.op) \in Pcs \ {"start"}
          <6>1. Top.op \in Stoppers
            BY <4>1, TopProper DEF StopDone, At, ProperFrame, StopPcs
          <6> QED
            BY <6>1 DEF AfterStop, Stoppers, Pcs
        <5> QED
          BY <4>1, <5>1 DEF StopDone, At
      <4>2. CASE ~StopDone
        BY <1>5, <4>2 DEF Handle, At, DiscoverGuard, DiscoverScanTest, DiscoverDefer,
           DiscoverBusyTest, DiscoverJoin, DiscoverUncancel, DiscoverStart, StopCancel,
           StopSupersede, StopJoin, JoinThread, UnloadWaitBefore, UnloadWait, UnloadTakeRegistry,
           UnloadUnregister, UnloadThrows, UnloadUnregistered, UnloadWaitAfter, UnloadForget, DetectionPending,
           DetectionAbandon, DetectionAnnounce, Pcs
      <4> QED
        BY <4>1, <4>2
    <3> QED
      BY <3>1, <3>2, <3>3, <3>4
  <2>2. CASE StopSupersede
    BY <1>1, <1>3, <2>1, <2>2 DEF StopSupersede, locals, lists, others, Core
  <2>3. CASE ~StopSupersede
    <3>1. hostList' \subseteq hostList
      BY <1>5, <2>3 DEF Handle, DiscoverGuard, DiscoverScanTest, DiscoverDefer,
           DiscoverBusyTest, DiscoverJoin, DiscoverUncancel, DiscoverStart, StopCancel,
           StopJoin, JoinThread, StopDone, UnloadWaitBefore, UnloadWait, UnloadTakeRegistry,
           UnloadUnregister, UnloadThrows, UnloadUnregistered, UnloadWaitAfter, UnloadForget, DetectionPending,
           DetectionAbandon, DetectionAnnounce, HostCallThrows, lists, others
    <3>2. core'.generation = core.generation
      BY <1>1, <1>5, <2>3 DEF Handle, DiscoverGuard, DiscoverScanTest, DiscoverDefer,
           DiscoverBusyTest, DiscoverJoin, DiscoverUncancel, DiscoverStart, StopCancel,
           StopJoin, JoinThread, StopDone, UnloadWaitBefore, UnloadWait, UnloadTakeRegistry,
           UnloadUnregister, UnloadThrows, UnloadUnregistered, UnloadWaitAfter, UnloadForget, DetectionPending,
           DetectionAbandon, DetectionAnnounce, Core
    <3>3. newGeneration' = newGeneration /\ thread' \in {thread, 0, newGeneration}
      BY <1>5, <2>3 DEF Handle, DiscoverGuard, DiscoverScanTest, DiscoverDefer,
           DiscoverBusyTest, DiscoverJoin, DiscoverUncancel, DiscoverStart, StopCancel,
           StopJoin, JoinThread, StopDone, UnloadWaitBefore, UnloadWait, UnloadTakeRegistry,
           UnloadUnregister, UnloadThrows, UnloadUnregistered, UnloadWaitAfter, UnloadForget, DetectionPending,
           DetectionAbandon, DetectionAnnounce, locals
    <3> QED
      BY <1>2, <2>1, <3>1, <3>2, <3>3
  <2> QED
    BY <2>2, <2>3
<1>6. CASE Environment \/ Deliver
  <2>1. core'.generation = core.generation /\ UNCHANGED <<thread, newGeneration, hostList>>
    BY <1>1, <1>6 DEF Environment, Load, Rescan, Unload, HostStart, DetectionStart, Deliver, DeliverStatus,
      DeliverRediscover, others, lists, locals, Core
  <2>2. gui' = gui \/ \E op \in Ops, pc \in {"guard", "cancel", "pending"} : Call(op, pc)
    BY <1>6 DEF Environment, Load, Rescan, Unload, HostStart, DetectionStart, Deliver, DeliverStatus,
      DeliverRediscover, Ops
  <2>3. gui' # <<>> /\ Top'.pc = "start" => gui # <<>> /\ Top.pc = "start"
    BY <2>2, StackSteps DEF Pcs
  <2> QED
    BY <1>2, <2>1, <2>3
<1>7. CASE HostContinue
  <2>1. gui' = gui /\ UNCHANGED <<thread, newGeneration>> /\ hostList' \subseteq hostList
    BY <1>7 DEF HostContinue, HostReadUnloading, HostSetPending, HostCancel, HostSupersede,
      HostAnnounce, HostDropAll, HostEnd, HostDecide, HostRepost, HostClear, lists, locals
  <2>2. CASE HostSupersede
    BY <1>1, <1>3, <2>1, <2>2, StackSteps DEF HostSupersede, lists, locals, Core
  <2>3. CASE ~HostSupersede
    <3>1. core'.generation = core.generation
      BY <1>1, <1>7, <2>3 DEF HostContinue, HostReadUnloading, HostSetPending, HostCancel,
        HostAnnounce, HostDropAll, HostEnd, HostDecide, HostRepost, HostClear, Core
    <3> QED
      BY <1>2, <2>1, <3>1, StackSteps
  <2> QED
    BY <2>2, <2>3
<1>8. CASE \E w \in workers : WorkerStep(w)
  <2>1. PICK w \in workers : WorkerStep(w)
    BY <1>8
  <2>2. gui' = gui /\ UNCHANGED <<thread, newGeneration>> /\ core'.generation = core.generation
    BY <1>1, <2>1 DEF WorkerStep, WorkerWaitHost, WorkerCheck, WorkerTakeRegistry, WorkerUnregister, WorkerUnregisterThrows,
       WorkerScan, WorkerFails, WorkerPick, WorkerAbort, WorkerRegister, WorkerRegisterThrows, WorkerFail, WorkerRecord,
       WorkerPublish, WorkerExit, workerFrame, locals, Core
  <2>3. CASE WorkerRegister(w) \/ WorkerRegisterThrows(w)
    <3>1. w.gen = thread /\ thread # 0 /\ \E d \in Devices : w.new = {[gen |-> w.gen, dev |-> d]}
      BY <2>3 DEF IInv, OneWorker, RegistryInv, WorkerRegister, WorkerRegisterThrows, WorkerAt
    <3>2. hostList' = hostList \union w.new /\ \A c \in w.new : c.gen = thread
      BY <2>3, <3>1 DEF WorkerRegister, WorkerRegisterThrows
    <3>3. gui = <<>> \/ Top.pc # "start"
      BY <3>1 DEF IInv, HandlerInv, StartPcs
    <3> QED
      BY <1>1, <2>2, <3>2, <3>3, StackSteps DEF GenerationInv
  <2>4. CASE ~WorkerRegister(w) /\ ~WorkerRegisterThrows(w)
    <3>1. hostList' \subseteq hostList
      BY <2>1, <2>4 DEF WorkerStep, WorkerWaitHost, WorkerCheck, WorkerTakeRegistry, WorkerUnregister, WorkerUnregisterThrows,
       WorkerScan, WorkerFails, WorkerPick, WorkerAbort, WorkerFail, WorkerRecord,
       WorkerPublish, WorkerExit, HostCallThrows, lists
    <3> QED
      BY <1>2, <2>2, <3>1, StackSteps
  <2> QED
    BY <2>3, <2>4
<1>9. CASE UNCHANGED vars
  BY <1>2, <1>9, StackSteps DEF vars, locals, lists
<1> QED
  BY <1>4, <1>5, <1>6, <1>7, <1>8, <1>9 DEF Next

\* What is in hand when there is one worker, and when there is none.
LEMMA InHandOf ==
  /\ workers = {} => InHand = doomed
  /\ \A w : workers = {w} => InHand = doomed \union w.old \union w.new
<1>1. workers = {} => InHand = doomed
  BY DEF InHand
<1>2. ASSUME NEW w, workers = {w} PROVE InHand = doomed \union w.old \union w.new
  BY <1>2 DEF InHand
<1> QED
  BY <1>1, <1>2

\* Steps that move nothing between the lists.
LEMMA ListsSame ==
  ASSUME ListsInv, UNCHANGED <<lists, doomed, workers>>,
         host.pc \in {"callback", "dropAll"} => host'.pc \in {"callback", "dropAll"}
  PROVE  ListsInv'
<1>1. InHand' = InHand /\ \A w : InHandOK(w)' = InHandOK(w)
  BY DEF InHand, InHandOK, lists
<1> QED
  BY <1>1 DEF ListsInv, RegistryAndHostAgree, OrphansInv, lists

\* The host's list and the orphans after an exception of a call of a cleanup that has
\* these entries in hand.
LEMMA ThrownLists ==
  ASSUME ListsInv, NEW entries, entries \subseteq InHand, HostCallThrows(entries)
  PROVE  /\ hostList' \subseteq hostList /\ hostList \subseteq hostList' \union entries
         /\ orphans' \subseteq hostList' /\ orphans' \subseteq orphans \union entries
         /\ hostList' \subseteq (hostList \ entries) \union orphans'
         /\ Api = 5 /\ HostThrows
BY DEF ListsInv, OrphansInv, HostCallThrows

\* The handlers' steps: Unload and the API 4 callback take the registry when no worker
\* is left to have anything in hand.
LEMMA ListsHandle ==
  ASSUME IInv, FramesInv, StoppedInv, TakenInv, ScanInv, GenerationInv, ListsInv, Handle, IInv'
  PROVE  ListsInv'
<1>1. host \in [pc : HostPcs, flag : BOOLEAN]
  BY DEF IInv, TypeOK
<1>2. CASE UnloadTakeRegistry \/ UnloadUnregister \/ UnloadThrows \/ DetectionAbandon
  <2>1. gui # <<>> /\ Top.pc \in {"takeRegistry", "unregister", "abandon"} /\ workers' = workers /\ host' = host
    BY <1>2 DEF UnloadTakeRegistry, UnloadUnregister, UnloadThrows, DetectionAbandon, At, others
  <2>2. workers = {}
    BY <2>1 DEF StoppedInv, Stopped, UnloadPcs, IInv, OneWorker
  <2>3. InHand = doomed /\ InHand' = doomed'
    BY <2>1, <2>2 DEF InHand
  <2>4. CASE UnloadTakeRegistry
    <3>1. doomed = {} /\ doomed' = registry /\ registry' = {} /\ UNCHANGED <<hostList, orphans>>
      BY <2>4 DEF UnloadTakeRegistry, At, TakenInv
    <3> QED
      BY <2>1, <2>2, <2>3, <3>1 DEF ListsInv, RegistryAndHostAgree, OrphansInv
  <2>5. CASE UnloadUnregister
    <3>1. PICK c \in doomed : doomed' = doomed \ {c} /\ hostList' = hostList \ {c}
      BY <2>5 DEF UnloadUnregister
    <3>2. registry = {} /\ registry' = {} /\ orphans' = orphans
      BY <2>5 DEF UnloadUnregister, At, TakenInv, Emptied
    <3> QED
      BY <2>1, <2>2, <2>3, <3>1, <3>2 DEF ListsInv, RegistryAndHostAgree, OrphansInv
  <2>6. CASE DetectionAbandon
    <3>1. Top.op = "detection"
      <4>1. Top \in Frames /\ Top.op \in Ops /\ Top.pc = "abandon"
        BY <2>1, <2>6, StackSteps, TopProper DEF DetectionAbandon, At, ProperFrame, Frame
      <4> QED
        BY <4>1 DEF FramesInv, PlacesOf, Ops, DiscoverPcs, JoinPcs, UnloadPcs
    <3>2. host.pc = "callback" /\ registry' = {} /\ UNCHANGED <<hostList, orphans, doomed>>
      BY <2>1, <2>6, <3>1 DEF ScanInv, DetectionAbandon, locals
    <3> QED
      BY <2>1, <2>2, <2>3, <3>2 DEF ListsInv, RegistryAndHostAgree, OrphansInv
  <2>7. CASE UnloadThrows
    <3>1. registry = {} /\ registry' = {} /\ doomed' = {} /\ HostCallThrows(doomed)
      BY <2>7 DEF UnloadThrows, At, TakenInv, Emptied
    <3>2. /\ hostList' \subseteq (hostList \ doomed) \union orphans'
          /\ orphans' \subseteq hostList' /\ Api = 5 /\ HostThrows
      BY <2>3, <3>1, ThrownLists
    <3>3. orphans \subseteq orphans'
      BY <3>1 DEF HostCallThrows
    <3> QED
      BY <2>1, <2>2, <2>3, <3>1, <3>2, <3>3 DEF ListsInv, RegistryAndHostAgree, OrphansInv
  <2> QED
    BY <1>2, <2>4, <2>5, <2>6, <2>7
<1>3. CASE DiscoverStart
  <2>1. gui # <<>> /\ Top.pc = "start" /\ UNCHANGED <<host, lists, doomed>>
    BY <1>3 DEF DiscoverStart, At, locals
  <2>2. thread = 0 /\ workers = {}
    BY <2>1 DEF IInv, HandlerInv, StartPcs, OneWorker
  <2>a. PICK v : v = NewWorker(newGeneration)
    OBVIOUS
  <2>3. workers' = {v}
    BY <1>3, <2>2, <2>a DEF DiscoverStart
  <2>4. v.gen = newGeneration /\ v.pc = "waitHost" /\ v.old = {} /\ v.new = {} /\ v.listed = {}
    BY <2>a DEF NewWorker
  <2>5. InHand = doomed /\ InHand' = doomed'
    BY <2>2, <2>3, <2>4 DEF InHand
  <2>6. \A c \in hostList : c.gen # newGeneration
    <3>1. newGeneration \in Nat /\ \A c \in hostList : c.gen \in Nat
      BY DEF IInv, TypeOK, Controllers
    <3> QED
      BY <2>1, <3>1 DEF GenerationInv
  <2>7. InHandOK(v)'
    BY <2>1, <2>4, <2>6 DEF InHandOK, lists
  <2>8. RegistryAndHostAgree' /\ OrphansInv'
    BY <2>1, <2>5 DEF ListsInv, RegistryAndHostAgree, OrphansInv, lists
  <2> QED
    BY <2>3, <2>7, <2>8 DEF ListsInv
<1>4. CASE Handle /\ ~UnloadTakeRegistry /\ ~UnloadUnregister /\ ~UnloadThrows /\ ~DetectionAbandon
           /\ ~DiscoverStart
  <2>1. UNCHANGED <<lists, doomed, workers>>
    BY <1>4 DEF Handle, DiscoverGuard, DiscoverScanTest, DiscoverDefer,
           DiscoverBusyTest, DiscoverJoin, DiscoverUncancel, DiscoverNewGeneration, StopCancel, StopSupersede,
           StopJoin, JoinThread, StopDone, UnloadWaitBefore, UnloadWait, UnloadUnregistered, UnloadWaitAfter,
           UnloadForget, DetectionPending, DetectionAnnounce, locals, lists, others
  <2>2. host' = host \/ host'.pc = "dropAll"
    BY <1>1, <1>4 DEF Handle, DiscoverGuard, DiscoverScanTest, DiscoverDefer,
           DiscoverBusyTest, DiscoverJoin, DiscoverUncancel, DiscoverNewGeneration, StopCancel, StopSupersede,
           StopJoin, JoinThread, StopDone, UnloadWaitBefore, UnloadWait, UnloadUnregistered, UnloadWaitAfter,
           UnloadForget, DetectionPending, DetectionAnnounce, HostGoto, others
  <2> QED
    BY <2>1, <2>2, ListsSame
<1> QED
  BY <1>2, <1>3, <1>4

\* The steps of the worker, the only one.
LEMMA ListsWorker ==
  ASSUME IInv, StoppedInv, TakenInv, ListsInv, NEW w \in workers, WorkerStep(w)
  PROVE  ListsInv'
<1> USE DEF WorkerStep
<1>1. workers = {w} /\ w \in Worker
  BY DEF IInv, OneWorker, TypeOK
<1>2. host' = host /\ doomed' = doomed
  BY DEF WorkerWaitHost, WorkerCheck, WorkerTakeRegistry, WorkerUnregister, WorkerUnregisterThrows,
       WorkerScan, WorkerFails, WorkerPick, WorkerAbort, WorkerRegister, WorkerRegisterThrows, WorkerFail, WorkerRecord,
       WorkerPublish, WorkerExit, workerFrame, locals
<1>a. doomed = {}
  BY <1>1 DEF TakenInv, StoppedInv, Stopped, UnloadPcs, IInv, OneWorker
<1>3. InHand = w.old \union w.new /\ InHandOK(w) /\ RegistryAndHostAgree /\ OrphansInv
  BY <1>1, <1>a, InHandOf DEF ListsInv
<1>4. ASSUME NEW v, Become(w, v),
             registry' \subseteq hostList' \ orphans',
             hostList \subseteq registry \union InHand \union orphans =>
               hostList' \subseteq registry' \union v.old \union v.new \union orphans',
             orphans' \subseteq hostList', orphans' \cap (v.old \union v.new) = {},
             orphans' # {} => Api = 5 /\ HostThrows,
             InHandOK(v)'
      PROVE  ListsInv'
  <2>1. workers' = {v}
    BY <1>1, <1>4 DEF Become
  <2>2. InHand' = v.old \union v.new
    BY <1>2, <1>a, <2>1 DEF InHand
  <2>3. RegistryAndHostAgree' /\ OrphansInv'
    BY <1>2, <1>3, <1>4, <2>2 DEF RegistryAndHostAgree, OrphansInv
  <2> QED
    BY <1>4, <2>1, <2>3 DEF ListsInv
<1>5. ASSUME NEW pc \in {"check", "exit", "takeRegistry", "match"}, WorkerGoto(w, pc),
             UNCHANGED lists,
             w.pc \in {"waitHost", "check", "match", "fail"} \/ (w.pc = "unregister" /\ w.old = {}),
             pc = "match" => w.pc = "unregister",
             pc # "match" => pc = "exit" \/ w.pc \in {"waitHost", "check"}
      PROVE  ListsInv'
  <2> DEFINE v == [w EXCEPT !.pc = pc]
  <2>1. v.pc = pc /\ v.gen = w.gen /\ v.old = w.old /\ v.new = w.new /\ v.left = w.left /\ v.listed = w.listed
    BY <1>1 DEF Worker
  <2>2. Become(w, v)
    BY <1>5 DEF WorkerGoto
  <2> HIDE DEF v
  <2>3. w.old = {} /\ w.new = {} /\ (pc = "match" => w.listed = registry)
    BY <1>3, <1>5 DEF InHandOK
  <2>4. InHandOK(v)'
    BY <1>3, <1>5, <2>1, <2>3 DEF InHandOK, lists
  <2> QED
    BY <1>3, <1>4, <1>5, <2>1, <2>2, <2>3, <2>4 DEF RegistryAndHostAgree, OrphansInv, lists
<1>6. CASE WorkerWaitHost(w) \/ WorkerCheck(w) \/ WorkerAbort(w) \/ WorkerPublish(w) \/ WorkerScan(w) \/ WorkerFails(w)
  <2>1. UNCHANGED lists
    BY <1>6 DEF WorkerWaitHost, WorkerCheck, WorkerAbort, WorkerPublish, WorkerScan, WorkerFails
  <2>2. CASE WorkerWaitHost(w)
    BY <1>5, <2>1, <2>2 DEF WorkerWaitHost, WorkerAt
  <2>3. CASE WorkerCheck(w)
    <3>1. PICK pc \in {"exit", "takeRegistry"} : WorkerGoto(w, pc)
      BY <2>3 DEF WorkerCheck
    <3> QED
      BY <1>5, <2>1, <2>3, <3>1 DEF WorkerCheck, WorkerAt
  <2>4. CASE WorkerAbort(w) \/ WorkerPublish(w) \/ WorkerFails(w)
    BY <1>5, <2>1, <2>4 DEF WorkerAbort, WorkerPublish, WorkerFails, WorkerAt
  <2>5. CASE WorkerScan(w)
    <3>1. PICK pc \in {"exit", "match"} : WorkerGoto(w, pc)
      BY <2>5 DEF WorkerScan
    <3> QED
      BY <1>5, <2>1, <2>5, <3>1 DEF WorkerScan, WorkerAt
  <2> QED
    BY <1>6, <2>2, <2>3, <2>4, <2>5
<1>7. CASE WorkerTakeRegistry(w)
  <2>a. PICK v : v = [w EXCEPT !.pc = "unregister", !.old = registry]
    OBVIOUS
  <2>1. v.pc = "unregister" /\ v.gen = w.gen /\ v.old = registry /\ v.new = w.new /\ v.left = w.left /\ v.listed = w.listed
    BY <1>1, <2>a DEF Worker
  <2>2. Become(w, v) /\ registry' = {} /\ UNCHANGED <<hostList, orphans>> /\ w.pc = "takeRegistry"
    BY <1>7, <2>a DEF WorkerTakeRegistry, WorkerAt
  <2>3. InHandOK(v)'
    BY <1>3, <2>1, <2>2 DEF InHandOK
  <2>4. w.old = {} /\ w.new = {}
    BY <1>3, <2>2 DEF InHandOK
  <2> QED
    BY <1>3, <1>4, <2>1, <2>2, <2>3, <2>4 DEF RegistryAndHostAgree, OrphansInv
<1>8. CASE WorkerUnregister(w)
  <2>1. PICK c \in w.old : Become(w, [w EXCEPT !.old = @ \ {c}]) /\ hostList' = hostList \ {c}
    BY <1>8 DEF WorkerUnregister
  <2> DEFINE v == [w EXCEPT !.old = @ \ {c}]
  <2>2. v.pc = w.pc /\ v.gen = w.gen /\ v.old = w.old \ {c} /\ v.new = w.new /\ v.left = w.left /\ v.listed = w.listed
    BY <1>1 DEF Worker
  <2>3. Become(w, v) /\ w.pc = "unregister" /\ UNCHANGED <<registry, orphans>>
    BY <1>8, <2>1 DEF WorkerUnregister, WorkerAt
  <2> HIDE DEF v
  <2>4. registry = {}
    BY <1>3, <2>3 DEF InHandOK
  <2>5. InHandOK(v)'
    BY <1>3, <2>1, <2>2, <2>3, <2>4 DEF InHandOK
  <2> QED
    BY <1>3, <1>4, <2>1, <2>2, <2>3, <2>4, <2>5 DEF OrphansInv
<1>9. CASE WorkerPick(w)
  <2>1. PICK d \in w.left :
          Become(w, [w EXCEPT !.pc = "register", !.left = @ \ {d},
                              !.new = {[gen |-> w.gen, dev |-> d]}])
    BY <1>9 DEF WorkerPick
  <2> DEFINE v == [w EXCEPT !.pc = "register", !.left = @ \ {d},
                            !.new = {[gen |-> w.gen, dev |-> d]}]
  <2>2. v.pc = "register" /\ v.gen = w.gen /\ v.old = w.old /\ v.new = {[gen |-> w.gen, dev |-> d]}
        /\ v.left = w.left \ {d} /\ v.listed = w.listed
    BY <1>1 DEF Worker
  <2>3. Become(w, v) /\ w.pc = "match" /\ UNCHANGED <<registry, hostList, orphans>>
    BY <1>9, <2>1 DEF WorkerPick, WorkerAt, lists
  <2> HIDE DEF v
  <2>4. \A c \in v.new : c.gen = w.gen /\ c.dev = d
    BY <2>2
  <2>5. InHandOK(v)'
    BY <1>3, <2>1, <2>2, <2>3, <2>4 DEF InHandOK
  <2>6. w.new = {} /\ w.old = {}
    BY <1>3, <2>3 DEF InHandOK
  <2>7. v.new \cap hostList = {}
    BY <1>3, <2>1, <2>4 DEF InHandOK
  <2>8. orphans \cap v.new = {}
    BY <1>3, <2>7 DEF OrphansInv
  <2> QED
    BY <1>3, <1>4, <2>2, <2>3, <2>5, <2>6, <2>8 DEF RegistryAndHostAgree, OrphansInv
<1>10. CASE WorkerRegister(w)
  <2> DEFINE v == [w EXCEPT !.pc = "record"]
  <2>1. v.pc = "record" /\ v.gen = w.gen /\ v.old = w.old /\ v.new = w.new /\ v.left = w.left /\ v.listed = w.listed
    BY <1>1 DEF Worker
  <2>2. Become(w, v) /\ w.pc = "register" /\ UNCHANGED <<registry, orphans>> /\ hostList' = hostList \union w.new
    BY <1>10 DEF WorkerRegister, WorkerGoto, WorkerAt
  <2> HIDE DEF v
  <2>3. InHandOK(v)'
    BY <1>3, <2>1, <2>2 DEF InHandOK
  <2> QED
    BY <1>3, <1>4, <2>1, <2>2, <2>3 DEF RegistryAndHostAgree, OrphansInv
<1>11. CASE WorkerFail(w)
  <2> DEFINE v == [w EXCEPT !.pc = "match", !.new = {}]
  <2>1. v.pc = "match" /\ v.gen = w.gen /\ v.old = w.old /\ v.new = {} /\ v.left = w.left /\ v.listed = w.listed
    BY <1>1 DEF Worker
  <2>2. Become(w, v) /\ w.pc = "register" /\ UNCHANGED <<registry, hostList, orphans>>
    BY <1>11 DEF WorkerFail, WorkerAt, lists
  <2> HIDE DEF v
  <2>3. InHandOK(v)'
    BY <1>3, <2>1, <2>2 DEF InHandOK
  <2>4. w.new \cap hostList = {}
    BY <1>3, <2>2 DEF InHandOK
  <2> QED
    BY <1>3, <1>4, <2>1, <2>2, <2>3, <2>4 DEF RegistryAndHostAgree, OrphansInv
<1>12. CASE WorkerRecord(w)
  <2> DEFINE v == [w EXCEPT !.pc = "match", !.new = {}, !.listed = @ \union w.new]
  <2>1. v.pc = "match" /\ v.gen = w.gen /\ v.old = w.old /\ v.new = {} /\ v.left = w.left /\ v.listed = w.listed \union w.new
    BY <1>1 DEF Worker
  <2>2. Become(w, v) /\ w.pc = "record" /\ registry' = registry \union w.new /\ UNCHANGED <<hostList, orphans>>
    BY <1>12 DEF WorkerRecord, WorkerAt
  <2> HIDE DEF v
  <2>3. InHandOK(v)' /\ w.new \subseteq hostList
    BY <1>3, <2>1, <2>2 DEF InHandOK
  <2> QED
    BY <1>3, <1>4, <2>1, <2>2, <2>3 DEF RegistryAndHostAgree, OrphansInv
<1>13. CASE WorkerExit(w)
  <2>1. workers' = {} /\ UNCHANGED <<registry, hostList, orphans>> /\ w.pc = "exit"
    BY <1>1, <1>13 DEF WorkerExit, WorkerAt, lists
  <2>2. InHand' = {} /\ w.old = {} /\ w.new = {}
    BY <1>2, <1>3, <1>a, <2>1 DEF InHand, InHandOK
  <2> QED
    BY <1>2, <1>3, <2>1, <2>2 DEF ListsInv, RegistryAndHostAgree, OrphansInv
<1>14. CASE WorkerUnregisterThrows(w)
  <2> DEFINE v == [w EXCEPT !.pc = "fail", !.old = {}]
  <2>1. v.pc = "fail" /\ v.gen = w.gen /\ v.old = {} /\ v.new = w.new /\ v.left = w.left /\ v.listed = w.listed
    BY <1>1 DEF Worker
  <2>2. Become(w, v) /\ w.pc = "unregister" /\ registry' = registry /\ HostCallThrows(w.old)
    BY <1>14 DEF WorkerUnregisterThrows, WorkerAt
  <2> HIDE DEF v
  <2>3. registry = {} /\ w.new = {}
    BY <1>3, <2>2 DEF InHandOK
  <2>4. /\ hostList' \subseteq hostList /\ hostList' \subseteq (hostList \ w.old) \union orphans'
        /\ orphans' \subseteq hostList' /\ Api = 5 /\ HostThrows
    BY <1>3, <2>2, ThrownLists DEF ListsInv
  <2>5. orphans \subseteq orphans'
    BY <2>2 DEF HostCallThrows
  <2>6. InHandOK(v)'
    BY <1>3, <2>1, <2>2, <2>3, <2>4 DEF InHandOK
  <2> QED
    BY <1>3, <1>4, <2>1, <2>2, <2>3, <2>4, <2>5, <2>6
<1>15. CASE WorkerRegisterThrows(w)
  <2> DEFINE v == [w EXCEPT !.pc = "match", !.new = {}]
  <2>1. v.pc = "match" /\ v.gen = w.gen /\ v.old = w.old /\ v.new = {} /\ v.left = w.left /\ v.listed = w.listed
    BY <1>1 DEF Worker
  <2>2. Become(w, v) /\ w.pc = "register" /\ registry' = registry /\ hostList' = hostList \union w.new
        /\ orphans' = orphans \union w.new /\ Api = 5 /\ HostThrows
    BY <1>15 DEF WorkerRegisterThrows, WorkerAt
  <2> HIDE DEF v
  <2>3. w.new \cap hostList = {} /\ w.old = {} /\ (\A c \in w.new : c.dev \notin w.left)
    BY <1>3, <2>2 DEF InHandOK
  <2>4. InHandOK(v)'
    BY <1>3, <2>1, <2>2, <2>3 DEF InHandOK
  <2> QED
    BY <1>3, <1>4, <2>1, <2>2, <2>3, <2>4 DEF RegistryAndHostAgree, OrphansInv
<1> QED
  BY <1>6, <1>7, <1>8, <1>9, <1>10, <1>11, <1>12, <1>13, <1>14, <1>15

\* Every step.
LEMMA ListsStep ==
  ASSUME IInv, FramesInv, StoppedInv, TakenInv, ScanInv, GenerationInv, ListsInv, [Next]_vars, IInv'
  PROVE  ListsInv'
<1>1. host \in [pc : HostPcs, flag : BOOLEAN]
  BY DEF IInv, TypeOK
<1>2. CASE Environment \/ Deliver
  <2>1. UNCHANGED <<lists, doomed, workers>>
    BY <1>2 DEF Environment, Load, Rescan, Unload, HostStart, DetectionStart, Deliver, DeliverStatus,
      DeliverRediscover, others, lists, locals
  <2>2. host' = host \/ host.pc = "idle"
    BY <1>2 DEF Environment, Load, Rescan, Unload, HostStart, DetectionStart, Deliver, DeliverStatus,
      DeliverRediscover, others, HostAt
  <2> QED
    BY <2>1, <2>2, ListsSame
<1>3. CASE HostDropAll
  <2>1. registry' = {} /\ workers' = {} /\ hostList' = {} /\ orphans' = orphans /\ Api = 4
    BY <1>3 DEF HostDropAll, HostAt, ScanInv
  <2>2. orphans' = {} /\ orphans' \cap InHand' = {}
    BY <2>1 DEF ListsInv, OrphansInv
  <2>3. RegistryAndHostAgree'
    BY <2>1 DEF RegistryAndHostAgree
  <2> QED
    BY <2>1, <2>2, <2>3 DEF ListsInv, OrphansInv
<1>4. CASE HostContinue /\ ~HostDropAll
  <2>1. UNCHANGED <<lists, doomed, workers>> /\ host.pc \notin {"callback", "dropAll"}
    BY <1>4 DEF HostContinue, HostReadUnloading, HostSetPending, HostCancel, HostSupersede,
      HostAnnounce, HostEnd, HostDecide, HostRepost, HostClear, lists, locals, HostAt
  <2> QED
    BY <2>1, ListsSame
<1>5. CASE UNCHANGED vars
  BY <1>5, ListsSame DEF vars, locals, lists
<1> QED
  BY <1>2, <1>3, <1>4, <1>5, ListsHandle, ListsWorker DEF Next

-----------------------------------------------------------------------------
(* What the widget will show when the posted events are delivered.         *)

\* The posted statuses the slot will not drop, as things stand.
Effective == {i \in 1 .. Len(queue) : queue[i].kind = "status" /\ queue[i].gen = core.generation}

\* The device list it will show in the end.
Listing(k) == ~queue[k].keeps /\ \A j \in Effective : j > k => queue[j].keeps
ShownLists ==
  {queue[k].devices : k \in {i \in Effective : Listing(i)}}
    \union {D \in {widget.devices} : \A j \in Effective : queue[j].keeps}

\* The devices of "Registered N devices", when that is what it will show.
Final(k) == queue[k].text = "registered" /\ \A j \in Effective : j <= k
ShownRegistered ==
  {queue[k].devices : k \in {i \in Effective : Final(i)}}
    \union {D \in {widget.devices} : Effective = {} /\ widget.text = "registered"}

\* No posted status is younger than the core's generation, and the final one of a
\* discovery carries its list.
QueueInv ==
  \A i \in 1 .. Len(queue) : queue[i].kind = "status" =>
    /\ queue[i].gen <= core.generation
    /\ queue[i].text = "registered" => ~queue[i].keeps

\* The two sets, element by element.
LEMMA ShownElements ==
  /\ \A D : D \in ShownLists <=>
       \/ \E k \in Effective : D = queue[k].devices /\ Listing(k)
       \/ D = widget.devices /\ \A j \in Effective : queue[j].keeps
  /\ \A D : D \in ShownRegistered <=>
       \/ \E k \in Effective : D = queue[k].devices /\ Final(k)
       \/ D = widget.devices /\ Effective = {} /\ widget.text = "registered"
BY DEF ShownLists, ShownRegistered

\* Steps that touch neither the queue nor the widget.
LEMMA ShownSame ==
  ASSUME UNCHANGED <<queue, widget>>, core'.generation = core.generation
  PROVE  Effective' = Effective /\ ShownLists' = ShownLists /\ ShownRegistered' = ShownRegistered
         /\ (QueueInv => QueueInv')
<1>1. Effective' = Effective
  BY DEF Effective
<1> QED
  BY <1>1 DEF ShownLists, ShownRegistered, Listing, Final, QueueInv

\* A new generation makes every posted status a status of another one.
LEMMA ShownSuperseded ==
  ASSUME IInv, QueueInv, queue' = queue, core'.generation = core.generation + 1
  PROVE  Effective' = {} /\ QueueInv'
<1>1. core.generation \in Nat /\ queue \in Seq(Events)
  BY DEF IInv, TypeOK, Core
<1>2. \A i \in 1 .. Len(queue) : queue[i].kind = "status" => queue[i].gen \in Nat
  BY <1>1 DEF Events, Rediscover
<1> QED
  BY <1>1, <1>2 DEF Effective, QueueInv

\* Posting an event.
LEMMA PostIndices ==
  ASSUME IInv, NEW e, Post(e)
  PROVE  /\ Len(queue) \in Nat /\ Len(queue') = Len(queue) + 1
         /\ queue'[Len(queue) + 1] = e
         /\ \A i \in 1 .. Len(queue) : queue'[i] = queue[i]
BY DEF IInv, TypeOK, Post

\* Which posted statuses count after one more is posted.
LEMMA PostEffective ==
  ASSUME IInv, NEW e, Post(e), core'.generation = core.generation
  PROVE  /\ ~(e.kind = "status" /\ e.gen = core.generation) => Effective' = Effective
         /\ e.kind = "status" /\ e.gen = core.generation => Effective' = Effective \union {Len(queue) + 1}
         /\ \A k \in Effective : k \in 1 .. Len(queue) /\ queue'[k] = queue[k]
<1>1. Len(queue) \in Nat /\ Len(queue') = Len(queue) + 1 /\ queue'[Len(queue) + 1] = e
      /\ \A i \in 1 .. Len(queue) : queue'[i] = queue[i]
  BY PostIndices
<1>2. \A i : i \in 1 .. Len(queue') <=> i \in 1 .. Len(queue) \/ i = Len(queue) + 1
  BY <1>1
<1> QED
  BY <1>1, <1>2 DEF Effective

\* A posted event that does not count.
LEMMA PostOther ==
  ASSUME IInv, NEW e \in Events, Post(e), widget' = widget, core'.generation = core.generation,
         ~(e.kind = "status" /\ e.gen = core.generation)
  PROVE  Effective' = Effective /\ ShownLists' = ShownLists /\ ShownRegistered' = ShownRegistered
<1>1. Effective' = Effective /\ \A k \in Effective : queue'[k] = queue[k]
  BY PostEffective
<1> QED
  BY <1>1 DEF ShownLists, ShownRegistered, Listing, Final

\* A posted status that does: it has the last word.
LEMMA PostStatus ==
  ASSUME IInv, NEW e \in Events, Post(e), widget' = widget, core'.generation = core.generation,
         e.kind = "status", e.gen = core.generation
  PROVE  /\ ShownLists' \subseteq IF e.keeps THEN ShownLists ELSE {e.devices}
         /\ ShownRegistered' \subseteq IF e.text = "registered" THEN {e.devices} ELSE {}
<1> DEFINE n == Len(queue) + 1
<1>1. n \in Nat /\ queue'[n] = e /\ Effective' = Effective \union {n}
      /\ \A k \in Effective : k < n /\ queue'[k] = queue[k]
  <2>1. Len(queue) \in Nat
    BY PostIndices
  <2> QED
    BY <2>1, PostIndices, PostEffective
<1> HIDE DEF n
<1>2. \A D \in ShownLists' : IF e.keeps THEN D \in ShownLists ELSE D = e.devices
  <2> SUFFICES ASSUME NEW D \in ShownLists' PROVE IF e.keeps THEN D \in ShownLists ELSE D = e.devices
    OBVIOUS
  <2>1. \/ \E k \in Effective' : D = queue'[k].devices /\ ~queue'[k].keeps /\ \A j \in Effective' : j > k => queue'[j].keeps
        \/ D = widget.devices /\ \A j \in Effective' : queue'[j].keeps
    BY DEF ShownLists, Listing
  <2>2. CASE e.keeps
    BY <1>1, <2>1, <2>2, ShownElements DEF Listing
  <2>3. CASE ~e.keeps
    <3>1. \A k \in Effective : k \in Nat
      BY DEF Effective
    <3> QED
      BY <1>1, <2>1, <2>3, <3>1
  <2> QED
    BY <2>2, <2>3
<1>3. \A D \in ShownRegistered' : e.text = "registered" /\ D = e.devices
  <2> SUFFICES ASSUME NEW D \in ShownRegistered' PROVE e.text = "registered" /\ D = e.devices
    OBVIOUS
  <2>1. \E k \in Effective' : D = queue'[k].devices /\ queue'[k].text = "registered" /\ \A j \in Effective' : j <= k
    BY <1>1 DEF ShownRegistered, Final
  <2>2. \A k \in Effective : k \in Nat
    BY DEF Effective
  <2> QED
    BY <1>1, <2>1, <2>2
<1> QED
  BY <1>2, <1>3

\* The queue's own invariant is kept when a proper status is posted.
LEMMA PostQueue ==
  ASSUME IInv, QueueInv, NEW e, Post(e), core'.generation = core.generation,
         e.kind = "status" => e.gen <= core.generation /\ (e.text = "registered" => ~e.keeps)
  PROVE  QueueInv'
<1>1. Len(queue) \in Nat /\ Len(queue') = Len(queue) + 1 /\ queue'[Len(queue) + 1] = e
      /\ \A i \in 1 .. Len(queue) : queue'[i] = queue[i]
  BY PostIndices
<1>2. \A i \in 1 .. Len(queue') : i \in 1 .. Len(queue) \/ i = Len(queue) + 1
  BY <1>1
<1> QED
  BY <1>1, <1>2 DEF QueueInv

\* Delivering an event.
LEMMA DeliverIndices ==
  ASSUME IInv, queue # <<>>, queue' = Tail(queue)
  PROVE  /\ Len(queue) \in Nat \ {0} /\ Len(queue') = Len(queue) - 1
         /\ Head(queue) = queue[1] /\ queue[1] \in Events
         /\ \A i \in 1 .. Len(queue') : queue'[i] = queue[i + 1] /\ i + 1 \in 1 .. Len(queue)
<1>1. queue \in Seq(Events) /\ Len(queue) \in Nat \ {0}
  BY DEF IInv, TypeOK
<1>2. Len(queue') = Len(queue) - 1 /\ \A i \in 1 .. Len(queue') : queue'[i] = queue[i + 1]
  BY <1>1
<1> QED
  BY <1>1, <1>2

\* What is shown in the end stays what it was, or becomes less.
LEMMA DeliverShown ==
  ASSUME IInv, QueueInv, Deliver
  PROVE  /\ Effective = {} => Effective' = {}
         /\ ShownLists' \subseteq ShownLists
         /\ ShownRegistered' \subseteq ShownRegistered
         /\ QueueInv'
<1>1. queue # <<>> /\ queue' = Tail(queue) /\ core' = core
  BY DEF Deliver, DeliverStatus, DeliverRediscover
<1>2. /\ Len(queue) \in Nat \ {0} /\ Len(queue') = Len(queue) - 1
      /\ Head(queue) = queue[1] /\ queue[1] \in Events
      /\ \A i \in 1 .. Len(queue') : queue'[i] = queue[i + 1] /\ i + 1 \in 1 .. Len(queue)
  BY <1>1, DeliverIndices
<1>3. \A i : i \in Effective' <=> i \in 1 .. Len(queue') /\ i + 1 \in Effective
  BY <1>1, <1>2 DEF Effective
<1>4. \A j \in Effective : j = 1 \/ (j - 1 \in Effective' /\ queue'[j - 1] = queue[j])
  <2> SUFFICES ASSUME NEW j \in Effective, j # 1
               PROVE  j - 1 \in Effective' /\ queue'[j - 1] = queue[j]
    OBVIOUS
  <2>1. j \in 1 .. Len(queue) /\ j - 1 \in 1 .. Len(queue') /\ (j - 1) + 1 = j
    BY <1>2 DEF Effective
  <2> QED
    BY <1>2, <1>3, <2>1
<1>5. \A i \in Effective' : i \in Nat /\ i >= 1 /\ queue'[i] = queue[i + 1] /\ i + 1 \in Effective
  BY <1>2, <1>3
<1>6. \A j \in Effective : j \in Nat /\ j >= 1
  BY DEF Effective
<1>7. CASE 1 \in Effective
  <2>1. queue[1].kind = "status" /\ queue[1].gen = core.generation
    BY <1>7 DEF Effective
  <2>2. widget' = Shown(queue[1])
    BY <1>2, <2>1 DEF Deliver, DeliverStatus, DeliverRediscover
  <2>3. widget'.text = queue[1].text /\ widget'.devices = IF queue[1].keeps THEN widget.devices ELSE queue[1].devices
    BY <2>2 DEF Shown
  <2>4. ShownLists' \subseteq ShownLists
    <3> SUFFICES ASSUME NEW D \in ShownLists' PROVE D \in ShownLists
      OBVIOUS
    <3>1. \/ \E k \in Effective' : D = queue'[k].devices /\ ~queue'[k].keeps /\ \A j \in Effective' : j > k => queue'[j].keeps
          \/ D = widget'.devices /\ \A j \in Effective' : queue'[j].keeps
      BY DEF ShownLists, Listing
    <3>2. CASE \E k \in Effective' : D = queue'[k].devices /\ ~queue'[k].keeps /\ \A j \in Effective' : j > k => queue'[j].keeps
      <4>1. PICK k \in Effective' : D = queue'[k].devices /\ ~queue'[k].keeps /\ \A j \in Effective' : j > k => queue'[j].keeps
        BY <3>2
      <4>2. k + 1 \in Effective /\ D = queue[k + 1].devices /\ ~queue[k + 1].keeps
        BY <1>5, <4>1
      <4>3. \A j \in Effective : j > k + 1 => queue[j].keeps
        <5> SUFFICES ASSUME NEW j \in Effective, j > k + 1 PROVE queue[j].keeps
          OBVIOUS
        <5>1. k \in Nat /\ j \in Nat
          BY <1>5, <1>6
        <5>2. j # 1 /\ j - 1 > k
          BY <5>1
        <5>3. j - 1 \in Effective' /\ queue'[j - 1] = queue[j]
          BY <1>4, <5>2
        <5> QED
          BY <4>1, <5>2, <5>3
      <4> QED
        BY <4>2, <4>3, ShownElements DEF Listing
    <3>3. CASE D = widget'.devices /\ \A j \in Effective' : queue'[j].keeps
      <4>1. \A j \in Effective : j # 1 => queue[j].keeps
        BY <1>4, <3>3
      <4>2. CASE queue[1].keeps
        BY <2>3, <3>3, <4>1, <4>2, ShownElements
      <4>3. CASE ~queue[1].keeps
        <5>1. D = queue[1].devices /\ \A j \in Effective : j > 1 => queue[j].keeps
          BY <1>6, <2>3, <3>3, <4>1, <4>3
        <5> QED
          BY <1>7, <4>3, <5>1, ShownElements DEF Listing
      <4> QED
        BY <4>2, <4>3
    <3> QED
      BY <3>1, <3>2, <3>3
  <2>5. ShownRegistered' \subseteq ShownRegistered
    <3> SUFFICES ASSUME NEW D \in ShownRegistered' PROVE D \in ShownRegistered
      OBVIOUS
    <3>1. \/ \E k \in Effective' : D = queue'[k].devices /\ queue'[k].text = "registered" /\ \A j \in Effective' : j <= k
          \/ D = widget'.devices /\ Effective' = {} /\ widget'.text = "registered"
      BY DEF ShownRegistered, Final
    <3>2. CASE \E k \in Effective' : D = queue'[k].devices /\ queue'[k].text = "registered" /\ \A j \in Effective' : j <= k
      <4>1. PICK k \in Effective' : D = queue'[k].devices /\ queue'[k].text = "registered" /\ \A j \in Effective' : j <= k
        BY <3>2
      <4>2. k + 1 \in Effective /\ D = queue[k + 1].devices /\ queue[k + 1].text = "registered"
        BY <1>5, <4>1
      <4>3. \A j \in Effective : j <= k + 1
        <5> SUFFICES ASSUME NEW j \in Effective PROVE j <= k + 1
          OBVIOUS
        <5>1. k \in Nat /\ j \in Nat
          BY <1>5, <1>6
        <5>2. j = 1 \/ j - 1 <= k
          BY <1>4, <4>1
        <5> QED
          BY <5>1, <5>2
      <4> QED
        BY <4>2, <4>3, ShownElements DEF Final
    <3>3. CASE D = widget'.devices /\ Effective' = {} /\ widget'.text = "registered"
      <4>1. \A j \in Effective : j = 1
        BY <1>4, <3>3
      <4>2. ~queue[1].keeps
        <5>1. 1 \in 1 .. Len(queue) /\ queue[1].text = "registered"
          BY <1>2, <2>3, <3>3
        <5>2. \A i \in 1 .. Len(queue) : queue[i].kind = "status" /\ queue[i].text = "registered" => ~queue[i].keeps
          BY DEF QueueInv
        <5> QED
          BY <2>1, <5>1, <5>2
      <4>3. D = queue[1].devices /\ queue[1].text = "registered"
        BY <2>3, <3>3, <4>2
      <4> QED
        BY <1>7, <4>1, <4>3, ShownElements DEF Final
    <3> QED
      BY <3>1, <3>2, <3>3
  <2> QED
    BY <1>1, <1>2, <1>7, <2>4, <2>5 DEF QueueInv
<1>8. CASE 1 \notin Effective
  <2>1. widget' = widget
    <3>1. ~(queue[1].kind = "status" /\ queue[1].gen = core.generation)
      BY <1>2, <1>8 DEF Effective
    <3> QED
      BY <1>2, <3>1 DEF Deliver, DeliverStatus, DeliverRediscover
  <2>2. \A j \in Effective : j - 1 \in Effective' /\ queue'[j - 1] = queue[j]
    BY <1>4, <1>8
  <2>3. ShownLists' \subseteq ShownLists
    <3> SUFFICES ASSUME NEW D \in ShownLists' PROVE D \in ShownLists
      OBVIOUS
    <3>1. \/ \E k \in Effective' : D = queue'[k].devices /\ ~queue'[k].keeps /\ \A j \in Effective' : j > k => queue'[j].keeps
          \/ D = widget.devices /\ \A j \in Effective' : queue'[j].keeps
      BY <2>1 DEF ShownLists, Listing
    <3>2. CASE \E k \in Effective' : D = queue'[k].devices /\ ~queue'[k].keeps /\ \A j \in Effective' : j > k => queue'[j].keeps
      <4>1. PICK k \in Effective' : D = queue'[k].devices /\ ~queue'[k].keeps /\ \A j \in Effective' : j > k => queue'[j].keeps
        BY <3>2
      <4>2. k + 1 \in Effective /\ D = queue[k + 1].devices /\ ~queue[k + 1].keeps
        BY <1>5, <4>1
      <4>3. \A j \in Effective : j > k + 1 => queue[j].keeps
        <5> SUFFICES ASSUME NEW j \in Effective, j > k + 1 PROVE queue[j].keeps
          OBVIOUS
        <5>1. k \in Nat /\ j \in Nat
          BY <1>5, <1>6
        <5>2. j - 1 > k
          BY <5>1
        <5> QED
          BY <2>2, <4>1, <5>2
      <4> QED
        BY <4>2, <4>3, ShownElements DEF Listing
    <3>3. CASE D = widget.devices /\ \A j \in Effective' : queue'[j].keeps
      BY <2>2, <3>3, ShownElements
    <3> QED
      BY <3>1, <3>2, <3>3
  <2>4. ShownRegistered' \subseteq ShownRegistered
    <3> SUFFICES ASSUME NEW D \in ShownRegistered' PROVE D \in ShownRegistered
      OBVIOUS
    <3>1. \/ \E k \in Effective' : D = queue'[k].devices /\ queue'[k].text = "registered" /\ \A j \in Effective' : j <= k
          \/ D = widget.devices /\ Effective' = {} /\ widget.text = "registered"
      BY <2>1 DEF ShownRegistered, Final
    <3>2. CASE \E k \in Effective' : D = queue'[k].devices /\ queue'[k].text = "registered" /\ \A j \in Effective' : j <= k
      <4>1. PICK k \in Effective' : D = queue'[k].devices /\ queue'[k].text = "registered" /\ \A j \in Effective' : j <= k
        BY <3>2
      <4>2. k + 1 \in Effective /\ D = queue[k + 1].devices /\ queue[k + 1].text = "registered"
        BY <1>5, <4>1
      <4>3. \A j \in Effective : j <= k + 1
        <5> SUFFICES ASSUME NEW j \in Effective PROVE j <= k + 1
          OBVIOUS
        <5>1. k \in Nat /\ j \in Nat
          BY <1>5, <1>6
        <5>2. j - 1 <= k
          BY <2>2, <4>1
        <5> QED
          BY <5>1, <5>2
      <4> QED
        BY <4>2, <4>3, ShownElements DEF Final
    <3>3. CASE D = widget.devices /\ Effective' = {} /\ widget.text = "registered"
      BY <2>2, <3>3, ShownElements
    <3> QED
      BY <3>1, <3>2, <3>3
  <2> QED
    BY <1>1, <1>2, <1>5, <2>3, <2>4 DEF QueueInv
<1> QED
  BY <1>7, <1>8

\* A handler that writes to the widget itself, past the posted statuses.
LEMMA ShowShown ==
  ASSUME NEW text \in Texts \ {"registered"}, NEW running \in BOOLEAN, NEW keeps \in BOOLEAN,
         Show(text, running, keeps), queue' = queue, core'.generation = core.generation
  PROVE  /\ Effective' = Effective
         /\ ShownLists' \subseteq ShownLists \union (IF keeps THEN {} ELSE {{}})
         /\ Effective = {} /\ ~keeps => ShownLists' \subseteq {{}}
         /\ ShownRegistered' \subseteq ShownRegistered
         /\ Effective = {} => ShownRegistered' = {}
<1>1. Effective' = Effective
  BY DEF Effective
<1>2. widget'.text = text /\ widget'.devices = IF keeps THEN widget.devices ELSE {}
  BY DEF Show, Shown, Status
<1>3. ShownLists' \subseteq ShownLists \union (IF keeps THEN {} ELSE {{}})
  BY <1>1, <1>2 DEF ShownLists, Listing
<1>4. Effective = {} /\ ~keeps => ShownLists' \subseteq {{}}
  BY <1>1, <1>2 DEF ShownLists, Listing
<1>5. ShownRegistered' \subseteq ShownRegistered
  BY <1>1, <1>2 DEF ShownRegistered, Final
<1>6. Effective = {} => ShownRegistered' = {}
  BY <1>1, <1>2 DEF ShownRegistered
<1> QED
  BY <1>1, <1>3, <1>4, <1>5, <1>6

-----------------------------------------------------------------------------
(* The shown devices.                                                      *)

\* What the widget is about to show is empty ...
Cleared == ShownLists \subseteq {{}} /\ ShownRegistered = {}

\* ... or is what a worker that has ended has left registered ...
Settled ==
  /\ \A w \in workers : w.pc = "exit"
  /\ \A D \in ShownLists : D \subseteq registry
  /\ \A D \in ShownRegistered : D = registry

\* ... or is of a generation that was superseded, and whoever superseded it is
\* going to show or post something else.
NotYet == {"pending", "cancel", "supersede"}
Superseding(f) ==
  /\ f.pc \notin NotYet
  /\ f.op \in {"unload", "detection"} \/ (f.op = "rediscover" /\ Api = 5)
Starting == gui # <<>> /\ Top.pc = "start"
Refresh ==
  \/ host.pc = "announce"
  \/ \E f \in Frames : Superseding(f)
  \/ Starting /\ newGeneration = core.generation
Superseded == Effective = {} /\ Refresh /\ \A w \in workers : w.gen # core.generation

\* Unload and the API 4 callback, once they have superseded the discovery.
Ending == gui # <<>> /\ Top.op \in {"unload", "detection"} /\ Top.pc \notin NotYet

\* One of the three holds always.  A handler about to start a worker of a generation
\* that is no longer current relies on the host's thread to announce its scan, and
\* Unload and the API 4 callback leave no worker that could still post.
ShownInv ==
  /\ Cleared \/ Settled \/ Superseded
  /\ Starting /\ newGeneration # core.generation =>
       Cleared \/ (Effective = {} /\ host.pc = "announce")
  /\ Ending => thread < core.generation /\ (Effective = {} \/ Cleared)

\* No more is shown after a step than before it, but perhaps an empty list.
NoMore ==
  /\ Effective = {} => Effective' = {}
  /\ ShownLists' \subseteq ShownLists \union {{}}
  /\ ShownRegistered' \subseteq ShownRegistered

\* ... which keeps the first two of the three.
LEMMA NoMoreCleared ==
  ASSUME NoMore
  PROVE  /\ Cleared => Cleared'
         /\ Settled /\ registry' = registry /\ (\A w \in workers' : w.pc = "exit") => Settled'
BY DEF NoMore, Cleared, Settled

\* Steps that touch neither the queue nor the widget show no more.
LEMMA UnchangedNoMore ==
  ASSUME UNCHANGED <<queue, widget>>, core'.generation = core.generation
  PROVE  NoMore
BY ShownSame DEF NoMore

\* Steps that leave the handlers where they are.
LEMMA ShownCalm ==
  ASSUME IInv, ShownInv, NoMore, UNCHANGED <<gui, newGeneration>>, thread' \in {thread, 0},
         core'.generation = core.generation,
         host.pc = "announce" => host'.pc = "announce",
         \A v \in workers' : \E w \in workers : v.gen = w.gen,
         Settled => registry' = registry /\ \A v \in workers' : v.pc = "exit"
  PROVE  ShownInv'
<1>1. Frames' = Frames /\ Top' = Top
  BY StackSteps
<1>2. Starting' = Starting /\ Ending' = Ending
  BY <1>1 DEF Starting, Ending
<1>3. Cleared => Cleared'
  BY NoMoreCleared
<1>4. Settled => Settled'
  BY NoMoreCleared
<1>5. Superseded => Superseded'
  BY <1>1, <1>2 DEF Superseded, Refresh, NoMore
<1>6. thread \in Nat /\ core.generation \in Nat
  BY DEF IInv, TypeOK, Core
<1> QED
  BY <1>2, <1>3, <1>4, <1>5, <1>6 DEF ShownInv, NoMore

\* A status that clears the list has been posted.
LEMMA ShownCleared ==
  ASSUME IInv, ShownInv, Cleared', UNCHANGED <<gui, thread>>, core'.generation = core.generation
  PROVE  ShownInv'
<1>1. Top' = Top
  BY StackSteps
<1> QED
  BY <1>1 DEF ShownInv, Ending

\* A handler moves on, neither superseding the discovery nor starting one.
LEMMA ShownGoto ==
  ASSUME IInv, ShownInv, IInv', gui # <<>>, NEW pc \in Pcs, Goto(pc), NoMore,
         UNCHANGED <<host, workers>>, thread' \in {thread, 0}, core'.generation = core.generation,
         Top.pc # "start", pc # "start", pc \in NotYet <=> Top.pc \in NotYet,
         registry' = registry \/ (Ending /\ thread = 0)
  PROVE  ShownInv'
<1>1. /\ gui' # <<>> /\ Top'.pc = pc /\ Top'.op = Top.op /\ Below' = Below
      /\ Frames = Below \union {Top} /\ Frames' = Below' \union {Top'}
  BY StackSteps, StackSplit
<1>2. Ending' = Ending /\ ~Starting /\ ~Starting'
  BY <1>1 DEF Starting, Ending
<1>3. Cleared => Cleared'
  BY NoMoreCleared
<1>4. Settled /\ registry' = registry => Settled'
  BY NoMoreCleared DEF Settled
<1>5. (\E f \in Frames : Superseding(f)) => \E f \in Frames' : Superseding(f)
  BY <1>1 DEF Superseding
<1>6. Superseded => Superseded'
  BY <1>2, <1>5 DEF Superseded, Refresh, NoMore
<1>7. Ending /\ thread = 0 /\ Effective = {} => Superseded'
  <2> SUFFICES ASSUME Ending, thread = 0, Effective = {} PROVE Superseded'
    OBVIOUS
  <2>1. workers' = {}
    BY DEF IInv, OneWorker
  <2>2. Superseding(Top')
    BY <1>1, <1>2 DEF Ending, Superseding
  <2> QED
    BY <1>1, <2>1, <2>2 DEF Superseded, Refresh, NoMore
<1>8. thread \in Nat /\ core.generation \in Nat
  BY DEF IInv, TypeOK, Core
<1> QED
  BY <1>2, <1>3, <1>4, <1>6, <1>7, <1>8 DEF ShownInv, NoMore

\* A handler returns to one that was waiting.
LEMMA ShownReturn ==
  ASSUME IInv, FramesInv, gui # <<>>, Return, Cleared' \/ Settled' \/ Superseded'
  PROVE  ShownInv'
<1>1. gui' # <<>> => Top' \in Below /\ Top'.pc \in PumpPcs /\ Top' \in Frames
  BY StackSteps
<1>2. ~Starting'
  BY <1>1 DEF Starting, PumpPcs
<1>3. gui' # <<>> => Top'.op # "unload" /\ Api = 5
  BY <1>1, ApiAssumption DEF FramesInv
<1>4. gui' # <<>> => Top'.op # "detection"
  BY <1>1, <1>3 DEF FramesInv, PlacesOf
<1> QED
  BY <1>2, <1>3, <1>4 DEF ShownInv, Ending

\* A handler is called.
LEMMA ShownCall ==
  ASSUME IInv, ShownInv, IInv', NEW op \in Ops, NEW pc \in {"guard", "cancel", "pending"}, Call(op, pc),
         gui = <<>> \/ Top.pc \in PumpPcs, NoMore, op \in {"unload", "detection"} => pc # "guard",
         UNCHANGED <<thread, workers, registry>>, core'.generation = core.generation,
         host.pc = "announce" => host'.pc = "announce"
  PROVE  ShownInv'
<1>1. pc \in Pcs
  BY DEF Pcs
<1>2. gui' # <<>> /\ Top'.pc = pc /\ Top'.op = op /\ Frames' = Frames \union {Top'}
  BY <1>1, StackSteps, StackSplit
<1>3. ~Starting /\ ~Starting' /\ ~Ending'
  BY <1>2 DEF Starting, Ending, PumpPcs, NotYet
<1>4. Cleared => Cleared'
  BY NoMoreCleared
<1>5. Settled => Settled'
  BY NoMoreCleared DEF Settled
<1>6. Superseded => Superseded'
  BY <1>2, <1>3 DEF Superseded, Refresh, NoMore
<1> QED
  BY <1>3, <1>4, <1>5, <1>6 DEF ShownInv

\* Everything proved so far.
Known == IInv /\ FramesInv /\ StoppedInv /\ TakenInv /\ ForgottenInv /\ ScanInv
         /\ GenerationInv /\ ListsInv /\ QueueInv

\* A posted status of an older generation, or of none, adds nothing.
LEMMA PostNothing ==
  ASSUME IInv, NEW e \in Events, Post(e), widget' = widget, core'.generation = core.generation,
         e.kind = "status" => e.gen # core.generation
  PROVE  NoMore
BY PostOther DEF NoMore

\* The empty list, posted for the current generation.
LEMMA PostCleared ==
  ASSUME IInv, NEW text \in Texts \ {"registered"}, NEW running \in BOOLEAN,
         Post(Status(core.generation, text, running, FALSE, {})),
         widget' = widget, core'.generation = core.generation
  PROVE  Cleared'
<1> DEFINE e == Status(core.generation, text, running, FALSE, {})
<1>1. core.generation \in Nat
  BY DEF IInv, TypeOK, Core
<1>2. e \in Events /\ e.kind = "status" /\ e.gen = core.generation /\ ~e.keeps /\ e.devices = {} /\ e.text # "registered"
  BY <1>1 DEF Status, Events
<1>3. Post(e)
  OBVIOUS
<1>4. \A x \in Events : Post(x) /\ x.kind = "status" /\ x.gen = core.generation =>
        /\ ShownLists' \subseteq IF x.keeps THEN ShownLists ELSE {x.devices}
        /\ ShownRegistered' \subseteq IF x.text = "registered" THEN {x.devices} ELSE {}
  BY PostStatus
<1> HIDE DEF e
<1>5. ShownLists' \subseteq {{}} /\ ShownRegistered' \subseteq {}
  BY <1>2, <1>3, <1>4
<1> QED
  BY <1>5 DEF Cleared

\* The handlers' steps that move on and post nothing.
LEMMA ShownMoves ==
  ASSUME Known, ShownInv, IInv',
         \/ DiscoverGuard \/ DiscoverScanTest \/ (DiscoverBusyTest /\ ~core.running) \/ DiscoverJoin
         \/ DiscoverUncancel \/ StopCancel \/ StopJoin \/ StopDone
         \/ UnloadWaitBefore \/ UnloadTakeRegistry \/ UnloadUnregister \/ UnloadThrows
         \/ UnloadUnregistered \/ UnloadWaitAfter \/ DetectionPending \/ DetectionAbandon
  PROVE  ShownInv'
<1>1. IInv /\ FramesInv /\ StoppedInv
  BY DEF Known
<1>2. core \in Core /\ (gui # <<>> => Top.op \in Ops /\ Top.pc \in PlacesOf(Top.op) /\ core.manager)
  BY <1>1, StackSteps, TopProper DEF IInv, TypeOK, FramesInv, ProperFrame, Frame
<1>3. gui # <<>> /\ UNCHANGED <<queue, widget, host, workers, newGeneration>> /\ thread' \in {thread, 0}
  BY DEF DiscoverGuard, DiscoverScanTest, DiscoverBusyTest, DiscoverJoin, DiscoverUncancel, StopCancel, StopJoin,
     JoinThread, StopDone, UnloadWaitBefore, UnloadWait, UnloadTakeRegistry, UnloadUnregister, UnloadThrows, UnloadUnregistered,
     UnloadWaitAfter, DetectionPending, DetectionAbandon, At, locals, others
<1>4. core'.generation = core.generation
  BY <1>2 DEF DiscoverGuard, DiscoverScanTest, DiscoverBusyTest, DiscoverJoin, DiscoverUncancel, StopCancel, StopJoin,
     JoinThread, StopDone, UnloadWaitBefore, UnloadWait, UnloadTakeRegistry, UnloadUnregister, UnloadThrows, UnloadUnregistered,
     UnloadWaitAfter, DetectionPending, DetectionAbandon, Core
<1>5. NoMore
  BY <1>3, <1>4, UnchangedNoMore
<1>6. CASE UnloadTakeRegistry \/ DetectionAbandon
  <2>1. Top.pc \in {"takeRegistry", "abandon"} /\ thread = 0
    BY <1>1, <1>6 DEF UnloadTakeRegistry, DetectionAbandon, At, StoppedInv, Stopped, UnloadPcs
  <2>2. Top.op \in {"unload", "detection"}
    BY <1>2, <1>3, <2>1 DEF PlacesOf, Ops, DiscoverPcs, JoinPcs
  <2>3. Ending
    BY <1>3, <2>1, <2>2 DEF Ending, NotYet
  <2>4. Goto("unregister") \/ Goto("announce")
    BY <1>6 DEF UnloadTakeRegistry, DetectionAbandon
  <2> QED
    BY <1>1, <1>3, <1>4, <1>5, <2>1, <2>3, <2>4, ShownGoto DEF Pcs, NotYet
<1>7. CASE UnloadUnregister \/ UnloadThrows \/ ((DiscoverJoin \/ StopJoin) /\ thread = 0)
  <2>1. gui' = gui /\ registry' = registry
    BY <1>7 DEF UnloadUnregister, UnloadThrows, DiscoverJoin, StopJoin, JoinThread, lists
  <2> QED
    BY <1>1, <1>3, <1>4, <1>5, <2>1, ShownCalm DEF Settled
<1>8. CASE ~UnloadTakeRegistry /\ ~DetectionAbandon /\ ~UnloadUnregister /\ ~UnloadThrows /\ ~((DiscoverJoin \/ StopJoin) /\ thread = 0)
  <2>1. registry' = registry
    BY <1>8 DEF DiscoverGuard, DiscoverScanTest, DiscoverBusyTest, DiscoverJoin, DiscoverUncancel, StopCancel, StopJoin,
       JoinThread, StopDone, UnloadWaitBefore, UnloadWait, UnloadUnregistered, UnloadWaitAfter, DetectionPending, lists
  <2>2. \E pc \in Pcs : Goto(pc) /\ pc # "start" /\ (pc \in NotYet <=> Top.pc \in NotYet) /\ Top.pc # "start"
    <3> USE DEF At, NotYet, Pcs
    <3>1. CASE DiscoverGuard
      <4>1. Top.pc = "guard" /\ Top.op # "unload"
        BY <1>2, <1>3, <3>1 DEF DiscoverGuard, PlacesOf, JoinPcs, UnloadPcs
      <4>2. ~core.unloading /\ core.manager
        BY <1>1, <1>3, <4>1 DEF FramesInv
      <4> QED
        BY <3>1, <4>2 DEF DiscoverGuard
    <3>2. CASE DiscoverScanTest
      BY <3>2 DEF DiscoverScanTest
    <3>3. CASE DiscoverBusyTest /\ ~core.running
      BY <3>3 DEF DiscoverBusyTest
    <3>4. CASE (DiscoverJoin \/ StopJoin) /\ thread # 0
      BY <3>4 DEF DiscoverJoin, StopJoin, JoinThread
    <3>5. CASE DiscoverUncancel \/ StopCancel \/ UnloadUnregistered \/ DetectionPending
      BY <3>5 DEF DiscoverUncancel, StopCancel, UnloadUnregistered, DetectionPending
    <3>6. CASE StopDone
      <4>1. Top.op \in Stoppers /\ Goto(AfterStop(Top.op)) /\ Top.pc = "stopped"
        BY <1>1, <3>6, TopProper DEF StopDone, ProperFrame, StopPcs
      <4> QED
        BY <4>1 DEF AfterStop, Stoppers
    <3>7. CASE UnloadWaitBefore \/ UnloadWaitAfter
      BY <3>7 DEF UnloadWaitBefore, UnloadWaitAfter, UnloadWait
    <3> QED
      BY <1>8, <3>1, <3>2, <3>3, <3>4, <3>5, <3>6, <3>7
  <2> QED
    BY <1>1, <1>3, <1>4, <1>5, <2>1, <2>2, ShownGoto
<1> QED
  BY <1>6, <1>7, <1>8

\* The steps that make a new generation.
LEMMA ShownSupersede ==
  ASSUME Known, ShownInv, IInv', DiscoverNewGeneration \/ StopSupersede \/ HostSupersede
  PROVE  ShownInv' /\ QueueInv'
<1>1. IInv /\ FramesInv /\ GenerationInv /\ QueueInv
  BY DEF Known
<1>2. core \in Core /\ core.generation \in Nat /\ thread \in Nat
  BY <1>1 DEF IInv, TypeOK, Core
<1>3. core'.generation = core.generation + 1 /\ UNCHANGED <<queue, thread, workers>>
  BY <1>2 DEF DiscoverNewGeneration, StopSupersede, HostSupersede, others, Core
<1>4. Effective' = {} /\ QueueInv'
  BY <1>1, <1>3, ShownSuperseded
<1>5. thread' < core'.generation /\ \A w \in workers' : w.gen # core'.generation
  <2>1. \A w \in workers : w.gen = thread
    BY <1>1 DEF IInv, OneWorker
  <2> QED
    BY <1>1, <1>2, <1>3, <2>1 DEF GenerationInv
<1>6. CASE HostSupersede
  <2>1. host'.pc = "announce"
    BY <1>1, <1>6 DEF HostSupersede, HostGoto, IInv, TypeOK
  <2> QED
    BY <1>4, <1>5, <2>1 DEF ShownInv, Superseded, Refresh
<1>7. CASE StopSupersede
  <2>1. gui # <<>> /\ Top.pc = "supersede" /\ Top.op \in Ops /\ Top.pc \in PlacesOf(Top.op)
    BY <1>1, <1>7, StackSteps, TopProper DEF StopSupersede, At, FramesInv, ProperFrame, Frame
  <2>2. gui' # <<>> /\ Top'.pc \in {"stopJoin", "stopped"} /\ Top'.op = Top.op /\ Top' \in Frames'
    <3>1. \E pc \in {"stopJoin", "stopped"} : Goto(pc)
      BY <1>7 DEF StopSupersede
    <3> QED
      BY <1>1, <2>1, <3>1, StackSteps, StackSplit DEF Pcs
  <2>3. Superseding(Top')
    BY <2>1, <2>2 DEF PlacesOf, Ops, DiscoverPcs, Superseding, NotYet
  <2> QED
    BY <1>4, <1>5, <2>2, <2>3 DEF ShownInv, Superseded, Refresh, Starting, Ending
<1>8. CASE DiscoverNewGeneration
  <2>1. gui # <<>> /\ Top.pc = "newGeneration" /\ Top.op \in Ops /\ Top.pc \in PlacesOf(Top.op)
    BY <1>1, <1>8, StackSteps, TopProper DEF DiscoverNewGeneration, At, FramesInv, ProperFrame, Frame
  <2>2. gui' # <<>> /\ Top'.pc = "start" /\ Top'.op = Top.op /\ newGeneration' = core'.generation
    BY <1>1, <1>3, <1>8, <2>1, StackSteps DEF DiscoverNewGeneration, Pcs
  <2>3. Top.op \notin {"unload", "detection"}
    BY <2>1 DEF PlacesOf, JoinPcs, UnloadPcs, CallbackPcs
  <2> QED
    BY <1>4, <1>5, <2>2, <2>3 DEF ShownInv, Superseded, Refresh, Starting, Ending
<1> QED
  BY <1>6, <1>7, <1>8

\* A handler that ends by showing a status that clears the list.
LEMMA ShownForgotten ==
  ASSUME ShownInv, NEW text \in Texts \ {"registered"}, Show(text, FALSE, FALSE), queue' = queue,
         core'.generation = core.generation, UNCHANGED <<workers, registry>>
  PROVE  Cleared' \/ Settled'
<1>1. /\ Effective' = Effective
      /\ ShownLists' \subseteq ShownLists \union {{}}
      /\ Effective = {} => ShownLists' \subseteq {{}}
      /\ ShownRegistered' \subseteq ShownRegistered
      /\ Effective = {} => ShownRegistered' = {}
  BY ShowShown
<1>2. NoMore
  BY <1>1 DEF NoMore
<1>3. Cleared => Cleared'
  BY <1>2, NoMoreCleared
<1>4. Settled => Settled'
  BY <1>2, NoMoreCleared DEF Settled
<1>5. Superseded => Cleared'
  BY <1>1 DEF Superseded, Cleared
<1> QED
  BY <1>3, <1>4, <1>5 DEF ShownInv

\* The steps by which a handler returns.
LEMMA ShownReturns ==
  ASSUME Known, ShownInv,
         DiscoverDefer \/ (DiscoverBusyTest /\ core.running) \/ DiscoverStart \/ UnloadForget \/ DetectionAnnounce
  PROVE  ShownInv'
<1>1. IInv /\ FramesInv /\ StoppedInv /\ core \in Core /\ core.generation \in Nat
  BY DEF Known, IInv, TypeOK, Core
<1>2. gui # <<>> /\ Return /\ core'.generation = core.generation /\ UNCHANGED registry
  BY <1>1 DEF DiscoverDefer, DiscoverBusyTest, DiscoverStart, UnloadForget, DetectionAnnounce, At, lists, Core
<1>3. Top.op \in Ops /\ Top.pc \in PlacesOf(Top.op) /\ Frames' = Below /\ Frames = Below \union {Top}
  BY <1>1, <1>2, StackSteps, TopProper DEF FramesInv, ProperFrame, Frame
<1>4. CASE DiscoverDefer \/ UnloadForget
  <2>1. \E text \in Texts \ {"registered"} : Show(text, FALSE, FALSE)
    BY <1>4 DEF DiscoverDefer, UnloadForget, Texts
  <2>2. UNCHANGED <<queue, workers>>
    BY <1>4 DEF DiscoverDefer, UnloadForget, others
  <2> QED
    BY <1>1, <1>2, <2>1, <2>2, ShownForgotten, ShownReturn
<1>5. CASE DiscoverBusyTest /\ core.running
  <2>1. Show("already", TRUE, TRUE) /\ UNCHANGED <<queue, workers, host>> /\ Top.pc = "busyTest"
    BY <1>5 DEF DiscoverBusyTest, others, At
  <2>2. NoMore
    <3>1. "already" \in Texts \ {"registered"}
      BY DEF Texts
    <3> QED
      BY <1>2, <2>1, <3>1, ShowShown DEF NoMore
  <2>3. ~Superseding(Top)
    BY <1>1, <1>2, <1>3, <1>5, <2>1 DEF Superseding, StoppedInv, Again, PlacesOf, JoinPcs, UnloadPcs, CallbackPcs
  <2>4. Superseded => Superseded'
    <3>1. ~Starting /\ ((\E f \in Frames : Superseding(f)) => \E f \in Frames' : Superseding(f))
      BY <1>3, <2>1, <2>3 DEF Starting
    <3>2. (\E f \in Frames' : Superseding(f)) => (\E f \in Frames : Superseding(f))'
      BY DEF Superseding
    <3> QED
      BY <1>2, <2>1, <2>2, <3>1, <3>2 DEF Superseded, Refresh, NoMore
  <2>5. (Cleared => Cleared') /\ (Settled => Settled')
    BY <1>2, <2>1, <2>2, NoMoreCleared DEF Settled
  <2> QED
    BY <1>1, <1>2, <2>4, <2>5, ShownReturn DEF ShownInv
<1>6. CASE DiscoverStart
  <2>1. /\ Top.pc = "start" /\ UNCHANGED <<host, widget>>
        /\ Post(Status(newGeneration, "scanning", TRUE, FALSE, {}))
        /\ workers' = workers \union {NewWorker(newGeneration)}
    BY <1>6 DEF DiscoverStart, At
  <2>2. newGeneration \in Nat
    BY <1>1 DEF IInv, TypeOK
  <2>3. CASE newGeneration = core.generation
    <3>1. Cleared'
      BY <1>1, <1>2, <2>1, <2>3, PostCleared DEF Texts
    <3> QED
      BY <1>1, <1>2, <3>1, ShownReturn
  <2>4. CASE newGeneration # core.generation
    <3>1. NoMore
      <4>1. Status(newGeneration, "scanning", TRUE, FALSE, {}) \in Events
        BY <2>2 DEF Status, Events, Texts
      <4>2. Status(newGeneration, "scanning", TRUE, FALSE, {}).gen = newGeneration
        BY DEF Status
      <4> QED
        BY <1>1, <1>2, <2>1, <2>4, <4>1, <4>2, PostNothing
    <3>2. Cleared => Cleared'
      BY <3>1, NoMoreCleared
    <3>3. Effective = {} /\ host.pc = "announce" => Superseded'
      <4>1. workers' = {NewWorker(newGeneration)}
        BY <1>1, <1>2, <2>1 DEF IInv, HandlerInv, StartPcs, OneWorker
      <4>2. NewWorker(newGeneration).gen # core'.generation
        BY <1>2, <2>4 DEF NewWorker
      <4> QED
        BY <2>1, <3>1, <4>1, <4>2 DEF Superseded, Refresh, NoMore
    <3>4. Starting
      BY <1>2, <2>1 DEF Starting
    <3> QED
      BY <1>1, <1>2, <2>4, <3>2, <3>3, <3>4, ShownReturn DEF ShownInv
  <2> QED
    BY <2>3, <2>4
<1>7. CASE DetectionAnnounce
  <2>1. Cleared'
    BY <1>1, <1>2, <1>7, PostCleared DEF DetectionAnnounce, DetectionStatus, Texts
  <2> QED
    BY <1>1, <1>2, <2>1, ShownReturn
<1> QED
  BY <1>4, <1>5, <1>6, <1>7

\* A click, a request or an event calls a handler.
LEMMA ShownRequests ==
  ASSUME Known, ShownInv, IInv', Load \/ Rescan \/ Unload \/ Deliver \/ DetectionStart
  PROVE  ShownInv'
<1>1. IInv /\ QueueInv /\ core \in Core
  BY DEF Known, IInv, TypeOK
<1>2. /\ core'.generation = core.generation
      /\ UNCHANGED <<thread, workers, registry, newGeneration>>
      /\ host.pc = "announce" => host'.pc = "announce"
  BY <1>1 DEF Load, Rescan, Unload, Deliver, DeliverStatus, DeliverRediscover, DetectionStart, HostAt, locals, lists,
     others, Core
<1>3. NoMore
  <2>1. CASE Deliver
    BY <1>1, <2>1, DeliverShown DEF NoMore
  <2>2. CASE Load \/ Rescan \/ Unload \/ DetectionStart
    BY <1>2, <2>2, UnchangedNoMore DEF Load, Rescan, Unload, DetectionStart
  <2> QED
    BY <2>1, <2>2
<1>4. CASE gui' = gui
  BY <1>1, <1>2, <1>3, <1>4, ShownCalm DEF Settled
<1>5. CASE gui' # gui
  <2>1. gui = <<>> \/ Top.pc \in PumpPcs
    BY <1>5 DEF Load, Rescan, Unload, Deliver, DeliverStatus, DeliverRediscover, DetectionStart, Idle, Serves, Pumps, PumpPcs
  <2>2. \E op \in Ops, pc \in {"guard", "cancel", "pending"} :
          Call(op, pc) /\ (op \in {"unload", "detection"} => pc # "guard")
    BY <1>5 DEF Load, Rescan, Unload, Deliver, DeliverStatus, DeliverRediscover, DetectionStart, Ops
  <2> QED
    BY <1>1, <1>2, <1>3, <2>1, <2>2, ShownCall
<1> QED
  BY <1>4, <1>5

\* The host's thread.
LEMMA ShownHost ==
  ASSUME Known, ShownInv, HostStart \/ (HostContinue /\ ~HostSupersede)
  PROVE  ShownInv'
<1>1. IInv /\ core \in Core /\ host \in [pc : HostPcs, flag : BOOLEAN]
  BY DEF Known, IInv, TypeOK
<1>2. core'.generation = core.generation /\ UNCHANGED <<thread, gui, newGeneration, workers, registry, widget>>
  BY <1>1 DEF HostContinue, HostStart, HostReadUnloading, HostSetPending, HostCancel, HostAnnounce,
       HostDropAll, HostEnd, HostDecide, HostRepost, HostClear, locals, lists, Core
<1>3. CASE HostAnnounce
  <2>1. Cleared'
    BY <1>1, <1>2, <1>3, PostCleared DEF HostAnnounce, DetectionStatus, Texts
  <2> QED
    BY <1>1, <1>2, <2>1, ShownCleared
<1>4. CASE ~HostAnnounce
  <2>1. host.pc # "announce"
    BY <1>4 DEF HostContinue, HostStart, HostReadUnloading, HostSetPending, HostCancel, HostSupersede, HostAnnounce,
       HostDropAll, HostEnd, HostDecide, HostRepost, HostClear, HostAt
  <2>2. NoMore
    <3>1. CASE HostRepost
      <4>1. Rediscover \in Events /\ Rediscover.kind # "status"
        BY DEF Events, Rediscover
      <4> QED
        BY <1>1, <1>2, <3>1, <4>1, PostNothing DEF HostRepost
    <3>2. CASE ~HostRepost
      <4>1. queue' = queue
        BY <1>4, <3>2 DEF HostContinue, HostStart, HostReadUnloading, HostSetPending, HostCancel,
          HostSupersede, HostDropAll, HostEnd, HostDecide, HostClear
      <4> QED
        BY <1>2, <4>1, UnchangedNoMore
    <3> QED
      BY <3>1, <3>2
  <2> QED
    BY <1>1, <1>2, <2>1, <2>2, ShownCalm DEF Settled
<1> QED
  BY <1>3, <1>4

\* The worker.  What it posts last is what it has registered.
LEMMA ShownWorker ==
  ASSUME Known, ShownInv, NEW w \in workers, WorkerStep(w), IInv'
  PROVE  ShownInv'
<1>1. /\ IInv /\ ListsInv /\ core \in Core /\ core.generation \in Nat /\ w \in Worker /\ thread # 0
      /\ workers = {w} /\ w.gen = thread
  BY DEF Known, IInv, TypeOK, Core, OneWorker
<1>2. UNCHANGED <<gui, newGeneration, thread, widget, host>> /\ core'.generation = core.generation
  BY <1>1 DEF WorkerStep, WorkerWaitHost, WorkerCheck, WorkerTakeRegistry, WorkerUnregister, WorkerUnregisterThrows,
       WorkerScan, WorkerFails, WorkerPick, WorkerAbort, WorkerRegister, WorkerRegisterThrows, WorkerFail, WorkerRecord,
       WorkerPublish, WorkerExit, workerFrame, locals, Core
<1>3. \A v \in workers' : \E u \in workers : v.gen = u.gen
  BY <1>1, <1>2 DEF IInv, OneWorker
<1>4. ASSUME NoMore, Settled => registry' = registry /\ \A v \in workers' : v.pc = "exit"
      PROVE  ShownInv'
  BY <1>1, <1>2, <1>3, <1>4, ShownCalm
<1>5. Settled => w.pc = "exit"
  BY DEF Settled
<1>6. CASE WorkerExit(w)
  <2>1. workers' = {} /\ registry' = registry /\ queue' = queue
    BY <1>1, <1>6 DEF WorkerExit, lists
  <2> QED
    BY <1>2, <1>4, <2>1, UnchangedNoMore
<1>7. CASE WorkerScan(w) /\ ~IsDiscoveryStale(w.gen)
  <2>1. w.gen = core.generation /\ w.pc = "unregister" /\ Post(Status(w.gen, "matching", TRUE, TRUE, {}))
    BY <1>7 DEF WorkerScan, WorkerAt, IsDiscoveryStale
  <2> DEFINE e == Status(w.gen, "matching", TRUE, TRUE, {})
  <2>2. e \in Events /\ e.kind = "status" /\ e.gen = core.generation /\ e.keeps /\ e.text # "registered"
    BY <1>1, <2>1 DEF Status, Events, Texts
  <2>3. Post(e)
    BY <2>1
  <2> HIDE DEF e
  <2>4. ShownLists' \subseteq ShownLists /\ ShownRegistered' \subseteq {}
    BY <1>1, <1>2, <2>2, <2>3, PostStatus
  <2>5. Cleared
    BY <1>1, <1>5, <2>1 DEF ShownInv, Superseded
  <2>6. Cleared'
    BY <2>4, <2>5 DEF Cleared
  <2> QED
    BY <1>1, <1>2, <2>6, ShownCleared
<1>8. CASE WorkerFails(w) \/ WorkerPublish(w)
  <2>1. PICK text \in {"failed", "registered"}, devices \in SUBSET Controllers :
          /\ Post(Status(w.gen, text, FALSE, FALSE, devices))
          /\ text = "failed" => devices = {}
          /\ text = "registered" => w.pc = "match" /\ devices = w.listed
    BY <1>1, <1>8 DEF WorkerFails, WorkerPublish, WorkerAt, Worker
  <2>2. w.pc # "exit" /\ registry' = registry
    BY <1>8 DEF WorkerFails, WorkerPublish, WorkerAt, lists
  <2> DEFINE e == Status(w.gen, text, FALSE, FALSE, devices)
  <2>3. e \in Events /\ e.kind = "status" /\ e.gen = w.gen /\ ~e.keeps /\ e.text = text /\ e.devices = devices
    <3>1. w.gen \in Nat /\ text \in Texts
      BY <1>1 DEF Worker, Texts
    <3> QED
      BY <3>1 DEF Status, Events
  <2>4. Post(e)
    BY <2>1
  <2> HIDE DEF e
  <2>5. CASE w.gen # core.generation
    <3>1. NoMore
      BY <1>1, <1>2, <2>3, <2>4, <2>5, PostNothing
    <3> QED
      BY <1>4, <1>5, <2>2, <3>1
  <2>6. CASE w.gen = core.generation
    <3>1. ShownLists' \subseteq {devices} /\ ShownRegistered' \subseteq IF text = "registered" THEN {devices} ELSE {}
      BY <1>1, <1>2, <2>3, <2>4, <2>6, PostStatus
    <3>2. CASE text = "failed"
      <4>1. Cleared'
        BY <2>1, <3>1, <3>2 DEF Cleared
      <4> QED
        BY <1>1, <1>2, <4>1, ShownCleared
    <3>3. CASE text = "registered"
      <4>1. devices = registry
        BY <1>1, <2>1, <3>3 DEF ListsInv, InHandOK
      <4>2. \A v \in workers' : v.pc = "exit"
        <5>1. WorkerPublish(w)
          BY <1>8, <2>1, <3>3 DEF WorkerFails, WorkerAt
        <5> QED
          BY <1>1, <5>1 DEF WorkerPublish, WorkerGoto, Become, Worker
      <4>3. Settled'
        BY <2>2, <3>1, <4>1, <4>2 DEF Settled
      <4>4. ~Ending /\ ~Starting
        <5>1. ~Starting
          BY <1>1 DEF IInv, HandlerInv, Starting, StartPcs
        <5>2. ~Ending
          BY <1>1, <2>6 DEF ShownInv
        <5> QED
          BY <5>1, <5>2
      <4>5. Top' = Top
        BY <1>2 DEF Top
      <4> QED
        BY <1>2, <4>3, <4>4, <4>5 DEF ShownInv, Starting, Ending
    <3> QED
      BY <2>1, <3>2, <3>3
  <2> QED
    BY <2>5, <2>6
<1>9. CASE ~WorkerExit(w) /\ ~(WorkerScan(w) /\ ~IsDiscoveryStale(w.gen)) /\ ~WorkerFails(w) /\ ~WorkerPublish(w)
  <2>1. queue' = queue /\ w.pc # "exit"
    BY <1>9 DEF WorkerStep, WorkerWaitHost, WorkerCheck, WorkerTakeRegistry, WorkerUnregister, WorkerUnregisterThrows,
       WorkerScan, WorkerPick, WorkerAbort, WorkerRegister, WorkerRegisterThrows, WorkerFail, WorkerRecord, WorkerAt
  <2> QED
    BY <1>2, <1>4, <1>5, <2>1, UnchangedNoMore
<1> QED
  BY <1>6, <1>7, <1>8, <1>9

\* Every step.
LEMMA ShownStep ==
  ASSUME Known, ShownInv, [Next]_vars, IInv'
  PROVE  ShownInv'
<1>1. IInv /\ core \in Core
  BY DEF Known, IInv, TypeOK
<1>2. CASE UNCHANGED vars
  BY <1>1, <1>2, UnchangedNoMore, ShownCalm DEF vars, Settled
<1>3. CASE Handle
  <2>1. CASE DiscoverNewGeneration \/ StopSupersede
    BY <2>1, ShownSupersede
  <2>2. CASE DiscoverDefer \/ (DiscoverBusyTest /\ core.running) \/ DiscoverStart \/ UnloadForget \/ DetectionAnnounce
    BY <2>2, ShownReturns
  <2>3. CASE ~(DiscoverNewGeneration \/ StopSupersede) /\
             ~(DiscoverDefer \/ (DiscoverBusyTest /\ core.running) \/ DiscoverStart \/ UnloadForget \/ DetectionAnnounce)
    BY <1>3, <2>3, ShownMoves DEF Handle
  <2> QED
    BY <2>1, <2>2, <2>3
<1>4. CASE Environment \/ Deliver
  <2>1. CASE HostStart
    BY <2>1, ShownHost
  <2>2. CASE Load \/ Rescan \/ Unload \/ Deliver \/ DetectionStart
    BY <2>2, ShownRequests
  <2> QED
    BY <1>4, <2>1, <2>2 DEF Environment
<1>5. CASE HostContinue
  <2>1. CASE HostSupersede
    BY <2>1, ShownSupersede
  <2> QED
    BY <1>5, <2>1, ShownHost
<1>6. CASE \E w \in workers : WorkerStep(w)
  BY <1>6, ShownWorker
<1> QED
  BY <1>2, <1>3, <1>4, <1>5, <1>6 DEF Next

\* What is posted is of a generation there has been.
LEMMA QueuePosts ==
  ASSUME IInv, GenerationInv, QueueInv,
         DiscoverStart \/ DetectionAnnounce \/ HostAnnounce \/ HostRepost
           \/ \E w \in workers : WorkerStep(w)
  PROVE  QueueInv'
<1>1. core \in Core /\ core.generation \in Nat
  BY DEF IInv, TypeOK, Core
<1>2. core'.generation = core.generation
  BY <1>1 DEF DiscoverStart, DetectionAnnounce, HostAnnounce, HostRepost, WorkerStep, WorkerWaitHost, WorkerCheck,
       WorkerTakeRegistry, WorkerUnregister, WorkerUnregisterThrows, WorkerScan, WorkerFails, WorkerPick, WorkerAbort, WorkerRegister, WorkerRegisterThrows,
       WorkerFail, WorkerRecord, WorkerPublish, WorkerExit, Core
<1>3. CASE queue' = queue
  BY <1>2, <1>3 DEF QueueInv
<1>4. CASE DetectionAnnounce \/ HostAnnounce
  <2>1. DetectionStatus.gen = core.generation /\ DetectionStatus.text # "registered" /\ Post(DetectionStatus)
    BY <1>4 DEF DetectionStatus, Status, DetectionAnnounce, HostAnnounce
  <2> QED
    BY <1>1, <1>2, <2>1, PostQueue
<1>5. CASE HostRepost
  BY <1>2, <1>5, PostQueue DEF HostRepost, Rediscover
<1>6. ASSUME NEW g, g \in {newGeneration, thread}, NEW text, NEW running \in BOOLEAN, NEW keeps \in BOOLEAN, NEW devices,
             Post(Status(g, text, running, keeps, devices)), text = "registered" => ~keeps
      PROVE  QueueInv'
  <2> DEFINE e == Status(g, text, running, keeps, devices)
  <2>1. e.gen = g /\ e.text = text /\ e.keeps = keeps /\ Post(e)
    BY <1>6 DEF Status
  <2> HIDE DEF e
  <2>2. e.gen <= core.generation
    BY <1>6, <2>1 DEF GenerationInv
  <2> QED
    BY <1>2, <1>6, <2>1, <2>2, PostQueue
<1>7. CASE DiscoverStart
  <2>1. Post(Status(newGeneration, "scanning", TRUE, FALSE, {}))
    BY <1>7 DEF DiscoverStart
  <2> QED
    BY <1>6, <2>1
<1>8. CASE queue' # queue /\ \E w \in workers : WorkerStep(w)
  <2>1. PICK w \in workers : WorkerStep(w)
    BY <1>8
  <2>2. w.gen = thread
    BY DEF IInv, OneWorker
  <2>3. \/ Post(Status(w.gen, "matching", TRUE, TRUE, {}))
        \/ Post(Status(w.gen, "failed", FALSE, FALSE, {}))
        \/ Post(Status(w.gen, "registered", FALSE, FALSE, w.listed))
    BY <1>8, <2>1 DEF WorkerStep, WorkerWaitHost, WorkerCheck, WorkerTakeRegistry, WorkerUnregister, WorkerUnregisterThrows, WorkerScan,
       WorkerFails, WorkerPick, WorkerAbort, WorkerRegister, WorkerRegisterThrows, WorkerFail, WorkerRecord, WorkerPublish, WorkerExit
  <2>4. CASE Post(Status(w.gen, "matching", TRUE, TRUE, {}))
    <3>1. "matching" # "registered"
      OBVIOUS
    <3> QED
      BY <1>6, <2>2, <2>4, <3>1, Zenon
  <2>5. CASE Post(Status(w.gen, "failed", FALSE, FALSE, {}))
    BY <1>6, <2>2, <2>5
  <2>6. CASE Post(Status(w.gen, "registered", FALSE, FALSE, w.listed))
    BY <1>6, <2>2, <2>6
  <2> QED
    BY <2>3, <2>4, <2>5, <2>6
<1> QED
  BY <1>3, <1>4, <1>5, <1>7, <1>8

\* The queue's invariant is kept.
LEMMA QueueStep ==
  ASSUME Known, ShownInv, [Next]_vars, IInv'
  PROVE  QueueInv'
<1>1. IInv /\ GenerationInv /\ QueueInv /\ core \in Core
  BY DEF Known, IInv, TypeOK
<1>2. CASE DiscoverNewGeneration \/ StopSupersede \/ HostSupersede
  BY <1>2, ShownSupersede
<1>3. CASE DiscoverStart \/ DetectionAnnounce \/ HostAnnounce \/ HostRepost \/ \E w \in workers : WorkerStep(w)
  BY <1>1, <1>3, QueuePosts
<1>4. CASE Deliver
  BY <1>1, <1>4, DeliverShown
<1>5. ASSUME queue' = queue, core'.generation = core.generation PROVE QueueInv'
  BY <1>1, <1>5 DEF QueueInv
<1>6. CASE UNCHANGED vars
  BY <1>5, <1>6 DEF vars
<1>7. CASE Environment
  <2>1. queue' = queue /\ core'.generation = core.generation
    BY <1>1, <1>7 DEF Environment, Load, Rescan, Unload, HostStart, DetectionStart, Core
  <2> QED
    BY <1>5, <2>1
<1>8. CASE HostContinue /\ ~HostSupersede /\ ~HostAnnounce /\ ~HostRepost
  <2>1. queue' = queue /\ core'.generation = core.generation
    BY <1>1, <1>8 DEF HostContinue, HostReadUnloading, HostSetPending, HostCancel, HostDropAll, HostEnd, HostDecide,
       HostClear, Core
  <2> QED
    BY <1>5, <2>1
<1>9. CASE Handle /\ ~DiscoverNewGeneration /\ ~StopSupersede /\ ~DiscoverStart /\ ~DetectionAnnounce
  <2>1. queue' = queue /\ core'.generation = core.generation
    BY <1>1, <1>9 DEF Handle, DiscoverGuard, DiscoverScanTest, DiscoverDefer, DiscoverBusyTest, DiscoverJoin,
       DiscoverUncancel, StopCancel, StopJoin, JoinThread, StopDone, UnloadWaitBefore, UnloadWait, UnloadTakeRegistry,
       UnloadUnregister, UnloadThrows, UnloadUnregistered, UnloadWaitAfter, UnloadForget, DetectionPending, DetectionAbandon, others,
       locals, Core
  <2> QED
    BY <1>5, <2>1
<1> QED
  BY <1>2, <1>3, <1>4, <1>6, <1>7, <1>8, <1>9 DEF Next

-----------------------------------------------------------------------------
(* The layers together.                                                    *)

\* The inductive invariant of the theorems below.
FullInv == Known /\ ShownInv

\* It holds before the host has loaded the plugin.
LEMMA FullInit == Init => FullInv
<1> SUFFICES ASSUME Init PROVE FullInv
  OBVIOUS
<1>1. IInv
  BY InitInv
<1>2. gui = <<>> /\ Frames = {} /\ Below = {}
  BY <1>1, StackSteps DEF Init
<1>3. core = InitCore /\ workers = {} /\ queue = <<>> /\ registry = {} /\ hostList = {} /\ orphans = {} /\ doomed = {} /\ thread = 0
      /\ newGeneration = 0 /\ host.pc \in {"idle", "scanning"}
  BY DEF Init
<1>4. FramesInv /\ StoppedInv /\ TakenInv /\ ForgottenInv
  BY <1>2, <1>3 DEF FramesInv, StoppedInv, TakenInv, ForgottenInv, InitCore
<1>5. ScanInv /\ GenerationInv /\ ListsInv
  BY <1>2, <1>3 DEF ScanInv, CancelPcs, GenerationInv, ListsInv, RegistryAndHostAgree, OrphansInv, InHand, InitCore
<1>6. QueueInv /\ ShownInv
  <2>1. Len(queue) = 0
    BY <1>3
  <2>2. Effective = {} /\ QueueInv
    BY <2>1 DEF Effective, QueueInv
  <2>3. widget.devices = {} /\ widget.text = "unloaded"
    BY DEF Init
  <2>4. Cleared
    BY <2>2, <2>3 DEF Cleared, ShownLists, ShownRegistered
  <2> QED
    BY <1>2, <2>2, <2>4 DEF ShownInv, Ending, Starting
<1> QED
  BY <1>1, <1>4, <1>5, <1>6 DEF FullInv, Known

\* Every step keeps it: each layer by the ones below it.
LEMMA FullNext == FullInv /\ [Next]_vars => FullInv'
<1> SUFFICES ASSUME FullInv, [Next]_vars PROVE FullInv'
  OBVIOUS
<1>1. /\ IInv /\ FramesInv /\ StoppedInv /\ TakenInv /\ ForgottenInv /\ ScanInv
      /\ GenerationInv /\ ListsInv /\ QueueInv /\ Known /\ ShownInv
  BY DEF FullInv, Known
<1>2. IInv'
  BY <1>1, NextInv
<1>3. FramesInv'
  BY <1>1, <1>2, FramesStep
<1>4. StoppedInv'
  BY <1>1, <1>2, StoppedStep
<1>5. TakenInv'
  BY <1>1, <1>2, <1>3, <1>4, TakenStep
<1>6. ForgottenInv'
  BY <1>1, <1>2, ForgottenStep
<1>7. ScanInv'
  BY <1>1, ScanStep
<1>8. GenerationInv'
  BY <1>1, GenerationStep
<1>9. ListsInv'
  BY <1>1, <1>2, ListsStep
<1>10. QueueInv'
  BY <1>1, <1>2, QueueStep
<1>11. ShownInv'
  BY <1>1, <1>2, ShownStep
<1> QED
  BY <1>2, <1>3, <1>4, <1>5, <1>6, <1>7, <1>8, <1>9, <1>10, <1>11 DEF FullInv, Known

\* So it holds throughout.
LEMMA FullInvariance == Spec => []FullInv
BY FullInit, FullNext, PTL DEF Spec

\* ControllerRegistry lists no controller the host has dropped or the plugin has
\* destroyed, and the host none the plugin has forgotten, whichever of Unload, the API
\* 4 callback, the worker and the host's scan take entries out in whatever order; what
\* the host lists beyond that, an exception of one of its calls has left there.
THEOREM ListsAgree == Spec => []RegistryAndHostAgree
<1>1. FullInv => RegistryAndHostAgree
  BY DEF FullInv, Known, ListsInv
<1> QED
  BY <1>1, FullInvariance, PTL

\* When Unload has returned, no worker is left to outlive the plugin and the registry is
\* empty, also when a call of the host has thrown, an exception Unload swallows with
\* entries still in hand; the host lists exactly the controllers destroyed so, and none
\* if its calls do not throw.
THEOREM UnloadCleans == Spec => []UnloadedIsClean
<1>1. FullInv => UnloadedIsClean
  <2> SUFFICES ASSUME FullInv, gui = <<>>, ~core.manager
               PROVE  /\ thread = 0 /\ workers = {} /\ registry = {} /\ ~core.running
                      /\ hostList = orphans
                      /\ HostThrows \/ hostList = {}
    BY DEF UnloadedIsClean
  <2>1. thread = 0 /\ registry = {} /\ doomed = {} /\ ~core.running
    BY DEF FullInv, Known, ForgottenInv
  <2>2. workers = {}
    BY <2>1 DEF FullInv, Known, IInv, OneWorker
  <2>3. host.pc \notin {"callback", "dropAll"}
    BY DEF FullInv, Known, ScanInv
  <2>4. InHand = {}
    BY <2>1, <2>2, InHandOf
  <2>5. hostList = orphans
    BY <2>1, <2>3, <2>4 DEF FullInv, Known, ListsInv, RegistryAndHostAgree, OrphansInv
  <2>6. HostThrows \/ hostList = {}
    BY <2>5 DEF FullInv, Known, ListsInv, OrphansInv
  <2> QED
    BY <2>1, <2>2, <2>5, <2>6
<1> QED
  BY <1>1, FullInvariance, PTL

\* API 4: no controller is handed to the host from the moment it drops its list
\* until its scan has ended, because the callback has joined the worker and the
\* next one waits.
THEOREM NothingRegisteredDuringScan == Spec => NoRegistrationDuringScan
<1>1. FullInv /\ [Next]_vars =>
        [Api = 4 /\ host.pc \in {"dropAll", "scanning"} => hostList' \subseteq hostList]_vars
  <2> SUFFICES ASSUME FullInv, Next, Api = 4, host.pc \in {"dropAll", "scanning"}
               PROVE  hostList' \subseteq hostList
    BY DEF vars
  <2>1. \A w \in workers : w.pc = "waitHost"
    BY DEF FullInv, Known, ScanInv
  <2>2. CASE \E w \in workers : WorkerStep(w)
    BY <2>1, <2>2 DEF WorkerStep, WorkerWaitHost, WorkerCheck, WorkerTakeRegistry, WorkerUnregister, WorkerUnregisterThrows, WorkerScan,
       WorkerFails, WorkerPick, WorkerAbort, WorkerRegister, WorkerRegisterThrows, WorkerFail, WorkerRecord, WorkerPublish, WorkerExit,
       WorkerAt, lists
  <2>3. CASE Handle
    BY <2>3 DEF Handle, DiscoverGuard, DiscoverScanTest, DiscoverDefer, DiscoverBusyTest, DiscoverJoin,
       DiscoverUncancel, DiscoverNewGeneration, DiscoverStart, StopCancel, StopSupersede, StopJoin, JoinThread, StopDone,
       UnloadWaitBefore, UnloadWait, UnloadTakeRegistry, UnloadUnregister, UnloadThrows, UnloadUnregistered, UnloadWaitAfter,
       UnloadForget, DetectionPending, DetectionAbandon, DetectionAnnounce, HostCallThrows, lists
  <2>4. CASE HostContinue
    BY <2>4 DEF HostContinue, HostReadUnloading, HostSetPending, HostCancel, HostSupersede, HostAnnounce, HostDropAll,
       HostEnd, HostDecide, HostRepost, HostClear, lists
  <2>5. CASE Environment \/ Deliver
    BY <2>5 DEF Environment, Deliver, Load, Rescan, Unload, HostStart, DetectionStart, DeliverStatus,
       DeliverRediscover, lists
  <2> QED
    BY <2>2, <2>3, <2>4, <2>5 DEF Next
<1> QED
  BY <1>1, FullInvariance, PTL DEF Spec, NoRegistrationDuringScan

\* When nothing runs any more, the widget's device pages are those of registered
\* controllers, and after "Registered N devices" of all of them: what a superseded
\* discovery has posted never has the last word.
THEOREM ShownIsRegistered == Spec => []ShownDevicesAreRegistered
<1>1. FullInv => ShownDevicesAreRegistered
  <2> SUFFICES ASSUME FullInv, Quiet
               PROVE  widget.devices \subseteq registry /\ (widget.text = "registered" => widget.devices = registry)
    BY DEF ShownDevicesAreRegistered
  <2>1. gui = <<>> /\ queue = <<>> /\ host.pc \in {"idle", "scanning"} /\ IInv /\ ShownInv
    BY DEF Quiet, Idle, FullInv, Known
  <2>2. Len(queue) = 0 /\ Frames = {}
    BY <2>1, StackSteps
  <2>3. Effective = {}
    BY <2>2 DEF Effective
  <2>4. widget.devices \in ShownLists /\ (widget.text = "registered" => widget.devices \in ShownRegistered)
    BY <2>3 DEF ShownLists, ShownRegistered
  <2>5. ~Superseded
    BY <2>1, <2>2 DEF Superseded, Refresh, Starting
  <2>6. Cleared \/ Settled
    BY <2>1, <2>5 DEF ShownInv
  <2> QED
    BY <2>4, <2>6 DEF Cleared, Settled
<1> QED
  BY <1>1, FullInvariance, PTL

=============================================================================
