---------------------------- MODULE DeviceTopology ----------------------------
(***************************************************************************)
(* The device a running script describes (RuntimeDeviceState), the zones   *)
(* the controller has built from it, and the frames that go the other way. *)
(*                                                                         *)
(* The script changes its device through the calls of the host module, and *)
(* makes them from three places: Initialize, a configuration callback, and *)
(* Render.  The controller takes the topology after the first two only,    *)
(* and after a callback only if topology_dirty says that it has changed.   *)
(* All of it runs under the controller's mutex, so that the steps of one   *)
(* update never mix with those of another.                                 *)
(***************************************************************************)
EXTENDS TopologyMapping

CONSTANTS
  Apis,      \* the OpenRGB plugin APIs the plugin is built for
  Scripts    \* what scripts do: the sizes they set, the lists of LEDs
             \* [names, positions], the channels and limits, the subdevices, and,
             \* as a bound, how many calls of the host module one callback makes

ASSUME ApisAssumption == Apis \subseteq {4, 5}
ASSUME ScriptsAssumption ==
  \A s \in Scripts :
    /\ s.sizes \subseteq Int \X Int /\ s.limits \subseteq Int /\ s.calls \in Nat
    /\ s.leds \subseteq [names : Nat, positions : Seq(Int \X Int)]

VARIABLES
  api,      \* the API of this plugin
  script,   \* the script that runs
  phase,    \* where the controller is: Initialize, idle, or in DeviceUpdateLEDs
  calls,    \* how many calls the running callback has made
  dev,      \* RuntimeDeviceState
  zones,    \* the controller's zones and their targets
  colors    \* openrgb_colors of the last DeviceUpdateLEDs

vars == <<api, script, phase, calls, dev, zones, colors>>

setting == <<api, script>>

-----------------------------------------------------------------------------
(* RuntimeDeviceState and its parts.                                       *)

\* The colours of a list that is given a new length.
ResizeFrameColors(list, count) ==
  [i \in 1..count |-> IF i =< Len(list) THEN list[i] ELSE Black]

NewChannel(name, limit) ==
  [name |-> name, limit |-> limit, count |-> 0, colors |-> <<>>, pulse |-> TRUE]

NewSubdevice(name) ==
  [name |-> name, width |-> 1, height |-> 1, names |-> 0, positions |-> <<>>,
   index |-> <<>>, colors |-> <<>>]

\* RebuildSubdevicePositionIndex: the last LED of each cell.
PositionIndex(positions) ==
  [cell \in {positions[i] : i \in 1..Len(positions)} |-> Max(Holders(positions, cell)) - 1]

SubdeviceLedCount(sub) == Larger(sub.names, Len(sub.positions))
CurrentMainLedCount == IF dev.positions # <<>> THEN Len(dev.positions) ELSE dev.count

HasChannel(name) == \E i \in 1..Len(dev.channels) : dev.channels[i].name = name
HasSubdevice(name) == \E i \in 1..Len(dev.subdevices) : dev.subdevices[i].name = name

\* The list with f of each of its elements of that name.
Replace(list, name, f(_)) ==
  [i \in 1..Len(list) |-> IF list[i].name = name THEN f(list[i]) ELSE list[i]]

Without(list, name) ==
  Kept(list, {i \in 1..Len(list) : list[i].name # name})

\* RuntimeTakeTopologyUpdate's object.
Topology ==
  [main |-> [width |-> dev.width, height |-> dev.height, count |-> CurrentMainLedCount,
             canvas |-> dev.width * dev.height, positions |-> dev.positions],
   channels |-> [i \in 1..Len(dev.channels) |->
                   [name |-> dev.channels[i].name, count |-> dev.channels[i].count,
                    limit |-> dev.channels[i].limit]],
   subdevices |-> [i \in 1..Len(dev.subdevices) |->
                     LET sub == dev.subdevices[i]
                     IN [name |-> sub.name, width |-> sub.width, height |-> sub.height,
                         count |-> SubdeviceLedCount(sub), positions |-> sub.positions]]]

-----------------------------------------------------------------------------
(* The calls of the host module.                                           *)

\* A call that changes nothing leaves topology_dirty alone.
Dirtied(new) == IF new = dev THEN dev ELSE [new EXCEPT !.dirty = TRUE]

Call(new) ==
  /\ phase \in {"initialize", "callback", "render"} /\ calls < script.calls
  /\ calls' = calls + 1
  /\ dev' = Dirtied(new)
  /\ UNCHANGED <<setting, phase, zones, colors>>

SetSize ==
  \E size \in script.sizes :
    Call([dev EXCEPT !.width = Larger(1, size[1]), !.height = Larger(1, size[2])])

SetControllableLeds ==
  \E list \in script.leds :
    Call([dev EXCEPT !.names = list.names, !.positions = list.positions,
                     !.count = IF list.positions # <<>> THEN Len(list.positions) ELSE list.names])

\* Mutant of LimitChannel: the frame is kept as it is.
LimitChannelOnly(channel, limit) == [channel EXCEPT !.limit = limit]

\* A limit below the LEDs the channel has cuts its frame; 0 is no limit.
LimitChannel(channel, limit) ==
  IF limit > 0 /\ channel.count > limit
    THEN [channel EXCEPT !.limit = limit, !.count = limit,
                         !.colors = ResizeFrameColors(channel.colors, limit)]
    ELSE [channel EXCEPT !.limit = limit]

\* addChannel on a channel that exists only changes its limit.
AddChannel ==
  \E name \in script.channels, raw \in script.limits :
    LET limit == Larger(0, raw)
        Limited(channel) == LimitChannel(channel, limit)
    IN Call([dev EXCEPT !.channels =
               IF HasChannel(name) THEN Replace(dev.channels, name, Limited)
               ELSE Append(dev.channels, NewChannel(name, limit))])

ChannelSetLedLimit ==
  \E name \in script.channels, raw \in script.limits :
    LET Limited(channel) == LimitChannel(channel, Larger(0, raw))
    IN /\ HasChannel(name)
       /\ Call([dev EXCEPT !.channels = Replace(dev.channels, name, Limited)])

RemoveChannel ==
  \E name \in script.channels :
    Call([dev EXCEPT !.channels = Without(dev.channels, name)])

CreateSubdevice ==
  \E name \in script.subdevices :
    Call([dev EXCEPT !.subdevices =
            IF HasSubdevice(name) THEN dev.subdevices
            ELSE Append(dev.subdevices, NewSubdevice(name))])

SetSubdeviceSize ==
  \E name \in script.subdevices, size \in script.sizes :
    LET Sized(sub) == [sub EXCEPT !.width = Larger(1, size[1]), !.height = Larger(1, size[2])]
    IN Call([dev EXCEPT !.subdevices = Replace(dev.subdevices, name, Sized)])

\* Mutant of WithLeds: the colours keep their length.
WithLedsOnly(sub, list) ==
  [sub EXCEPT !.names = list.names, !.positions = list.positions,
              !.index = PositionIndex(list.positions)]

WithLeds(sub, list) ==
  [sub EXCEPT !.names = list.names, !.positions = list.positions,
              !.index = PositionIndex(list.positions),
              !.colors = ResizeFrameColors(sub.colors, Larger(list.names, Len(list.positions)))]

SetSubdeviceLeds ==
  \E name \in script.subdevices, list \in script.leds :
    LET Listed(sub) == WithLeds(sub, list)
    IN Call([dev EXCEPT !.subdevices = Replace(dev.subdevices, name, Listed)])

RemoveSubdevice ==
  \E name \in script.subdevices :
    Call([dev EXCEPT !.subdevices = Without(dev.subdevices, name)])

HostCall ==
  \/ SetSize \/ SetControllableLeds
  \/ AddChannel \/ ChannelSetLedLimit \/ RemoveChannel
  \/ CreateSubdevice \/ SetSubdeviceSize \/ SetSubdeviceLeds \/ RemoveSubdevice

-----------------------------------------------------------------------------
(* The controller.                                                         *)

\* RuntimeTakeTopologyUpdate, and BuildZonesFromTopology of what it returned.
TakeTopology ==
  /\ zones' = BuildOpenRgbTopology(Topology)
  /\ dev' = [dev EXCEPT !.dirty = FALSE]

\* The end of InitializeScript takes the topology in any case.
EndInitialize ==
  /\ phase = "initialize"
  /\ TakeTopology
  /\ phase' = "idle" /\ calls' = 0
  /\ UNCHANGED <<setting, colors>>

\* DeviceUpdateLEDs, with configuration changes to apply or without.
BeginUpdate ==
  /\ phase = "idle"
  /\ phase' \in {"callback", "frame"}
  /\ UNCHANGED <<setting, calls, dev, zones, colors>>

\* Mutant of EndCallbacks: the controller goes on with the zones it has.
EndCallbacksQuietly ==
  /\ phase = "callback"
  /\ dev' = [dev EXCEPT !.dirty = FALSE]
  /\ phase' = "frame" /\ calls' = 0
  /\ UNCHANGED <<setting, zones, colors>>

\* DrainPendingConfigurationChanges, after the callbacks.
EndCallbacks ==
  /\ phase = "callback"
  /\ IF dev.dirty THEN TakeTopology ELSE UNCHANGED <<dev, zones>>
  /\ phase' = "frame" /\ calls' = 0
  /\ UNCHANGED <<setting, colors>>

HasZone(kind, key) == \E i \in 1..Len(zones) : zones[i].kind = kind /\ zones[i].key = key
ZoneOf(kind, key) == CHOOSE i \in 1..Len(zones) : zones[i].kind = kind /\ zones[i].key = key

\* No more colours than the limit, the count and needs_pulse to match.
FinalizeChannelFrame(channel, frame) ==
  LET count == IF channel.limit > 0 THEN Smaller(Len(frame), channel.limit) ELSE Len(frame)
  IN [channel EXCEPT !.colors = SubSeq(frame, 1, count), !.count = count,
                     !.pulse = (count = 0)]

\* Each output is cleared first, and stays so if no zone is its own.
FrameChannel(channel, list) ==
  FinalizeChannelFrame(channel,
    IF HasZone("channel", channel.name)
      THEN BuildFrameColors(zones, list, ZoneOf("channel", channel.name)) ELSE <<>>)

FrameSubdevice(sub, list) ==
  [sub EXCEPT !.colors =
     ResizeFrameColors(IF HasZone("subdevice", sub.name)
                         THEN BuildFrameColors(zones, list, ZoneOf("subdevice", sub.name))
                         ELSE <<>>,
                       SubdeviceLedCount(sub))]

FrameMain(list) ==
  IF HasZone("main", "main")
    THEN [width |-> zones[ZoneOf("main", "main")].width,
          colors |-> BuildFrameColors(zones, list, ZoneOf("main", "main"))]
    ELSE [width |-> dev.width, colors |-> <<>>]

\* SnapshotOpenRgbState: API 4 has the colours in the controller; API 5 copies
\* what the host's buffer has of them, and the rest are black.
Snapshot(copied) ==
  [i \in 1..TotalLeds(zones) |-> IF i =< copied THEN i - 1 ELSE Black]

BuildFrames ==
  /\ phase = "frame"
  /\ \E copied \in IF api = 4 THEN {TotalLeds(zones)} ELSE 0..TotalLeds(zones) :
       LET list == Snapshot(copied)
       IN /\ colors' = list
          /\ dev' = [dev EXCEPT
               !.frame = FrameMain(list),
               !.channels = [i \in 1..Len(dev.channels) |-> FrameChannel(dev.channels[i], list)],
               !.subdevices = [i \in 1..Len(dev.subdevices) |->
                                 FrameSubdevice(dev.subdevices[i], list)]]
  /\ phase' = "render" /\ calls' = 0
  /\ UNCHANGED <<setting, zones>>

\* Whatever Render has changed waits in the device for a later callback.
EndRender ==
  /\ phase = "render"
  /\ phase' = "idle" /\ calls' = 0
  /\ UNCHANGED <<setting, dev, zones, colors>>

\* API 4's ResizeZone: OpenRGB sets the size of a zone within its bounds.
ResizeZone ==
  /\ api = 4 /\ phase = "idle"
  /\ \E i \in 1..Len(zones) : \E size \in zones[i].min..zones[i].max :
       /\ size # zones[i].count
       /\ zones' = [zones EXCEPT ![i].count = size]
  /\ UNCHANGED <<setting, phase, calls, dev, colors>>

-----------------------------------------------------------------------------
\* RuntimeApplyStaticMetadata: the device starts as the metadata describes it.
Init ==
  /\ api \in Apis /\ script \in Scripts
  /\ phase = "initialize" /\ calls = 0
  /\ dev = [width |-> Larger(1, Meta.width), height |-> Larger(1, Meta.height),
            names |-> Meta.names, positions |-> Meta.positions,
            count |-> Larger(Meta.names, Len(Meta.positions)),
            frame |-> [width |-> 1, colors |-> <<>>],
            channels |-> <<>>, subdevices |-> <<>>, dirty |-> TRUE]
  /\ zones = <<>> /\ colors = <<>>

Next ==
  \/ HostCall
  \/ EndInitialize \/ BeginUpdate \/ EndCallbacks \/ BuildFrames \/ EndRender
  \/ ResizeZone

Spec == Init /\ [][Next]_vars

-----------------------------------------------------------------------------
(* Properties.                                                             *)

ColorList == Seq(Nat \cup {Black})
Positions == Seq(Int \X Int)

IsSubdevice(sub) ==
  /\ sub.name \in script.subdevices /\ sub.names \in Nat
  /\ sub.width \in Nat \ {0} /\ sub.height \in Nat \ {0}
  /\ sub.positions \in Positions /\ sub.index \in [Range(sub.positions) -> Nat]
  /\ sub.colors \in ColorList

\* The variables keep their types, and the lists of a device name each output
\* once, which is what makes FindChannel and FindSubdevice unambiguous.
TypeOK ==
  /\ api \in Apis /\ script \in Scripts
  /\ phase \in {"initialize", "idle", "callback", "frame", "render"}
  /\ calls \in 0..script.calls
  /\ dev.width \in Nat \ {0} /\ dev.height \in Nat \ {0} /\ dev.names \in Nat
  /\ dev.positions \in Positions /\ dev.count \in Nat /\ dev.dirty \in BOOLEAN
  /\ dev.frame \in [width : Nat \ {0}, colors : ColorList] /\ colors \in ColorList
  /\ dev.channels \in Seq([name : script.channels, limit : Nat, count : Nat,
                           colors : ColorList, pulse : BOOLEAN])
  /\ \A i \in 1..Len(dev.subdevices) : IsSubdevice(dev.subdevices[i])
  /\ \A i, j \in 1..Len(dev.channels) :
       dev.channels[i].name = dev.channels[j].name => i = j
  /\ \A i, j \in 1..Len(dev.subdevices) :
       dev.subdevices[i].name = dev.subdevices[j].name => i = j

\* What OpenRGB shows is what the mapper makes of the device as it is, unless
\* topology_dirty says that it is not: no call of the host module changes a
\* device behind the flag, and no frame changes what a rebuild would give.  An
\* API 4 user may shrink a zone below what the mapper gave it, and a channel
\* without a limit then keeps the smaller size, so there its size is left out.
LayoutIsCurrent ==
  LET Shape(list) ==
        [i \in 1..Len(list) |->
           [kind |-> list[i].kind, key |-> list[i].key, map |-> list[i].map,
            max |-> IF api = 4 /\ list[i].kind = "channel" THEN 0 ELSE list[i].max]]
  IN phase # "initialize" /\ ~dev.dirty
       => Shape(zones) = Shape(BuildOpenRgbTopology(Topology))

\* The frame of a channel holds as many colours as the channel says it has
\* LEDs, never more than a limit the script set, and needs_pulse is set exactly
\* when it has none: a script that sends LedCount() colours never runs past
\* getColors().
ChannelFramesFit ==
  \A i \in 1..Len(dev.channels) :
    LET channel == dev.channels[i]
    IN /\ Len(channel.colors) = channel.count
       /\ channel.limit > 0 => channel.count =< channel.limit
       /\ channel.pulse = (channel.count = 0)

\* The position index of a subdevice leads to the last LED put on the cell, and
\* to a colour the frame has.
SubdeviceIndexFits ==
  \A i \in 1..Len(dev.subdevices) :
    LET sub == dev.subdevices[i]
    IN /\ DOMAIN sub.index = {sub.positions[n] : n \in 1..Len(sub.positions)}
       /\ \A cell \in DOMAIN sub.index :
            /\ sub.index[cell] + 1 = Max(Holders(sub.positions, cell))
            /\ sub.index[cell] < Len(sub.colors)

\* A frame just built, for the layout the device has.
FreshFrame == phase = "render" /\ calls = 0 /\ ~dev.dirty

\* device.color(x, y) of the main frame.
DeviceColor(x, y) ==
  LET at == y * dev.frame.width + x
  IN IF at >= 0 /\ at < Len(dev.frame.colors) THEN dev.frame.colors[at + 1] ELSE Black

SubdeviceColor(sub, cell) ==
  IF cell \in DOMAIN sub.index /\ sub.index[cell] < Len(sub.colors)
    THEN sub.colors[sub.index[cell] + 1] ELSE Black

\* On a main canvas with rows and columns the script reads at each cell the
\* colour OpenRGB has for the last LED its device puts there, and black where
\* it puts none.
MainMatrixShowsLeds ==
  FreshFrame /\ dev.positions # <<>> /\ dev.width > 1 /\ dev.height > 1 =>
    \A x \in 0..dev.width - 1, y \in 0..dev.height - 1 :
      LET held == Holders(dev.positions, <<x, y>>)
          start == StartIndex(zones, ZoneOf("main", "main"))
      IN DeviceColor(x, y) = IF held = {} THEN Black ELSE ColorAt(colors, start + Max(held) - 1)

\* What a script reads at the position of a LED of a subdevice is the colour
\* OpenRGB has for that LED.
ShowsLeds(sub) ==
  \A cell \in DOMAIN sub.index :
    SubdeviceColor(sub, cell) =
      ColorAt(colors, StartIndex(zones, ZoneOf("subdevice", sub.name)) + sub.index[cell])

\* This holds on a subdevice of one row or one column.
SubdeviceRowsShowLeds ==
  FreshFrame =>
    \A i \in 1..Len(dev.subdevices) :
      LET sub == dev.subdevices[i]
      IN sub.width = 1 \/ sub.height = 1 => ShowsLeds(sub)

\* README.md has OpenRGB's colours go through the FrameBuilder to Render; so
\* every subdevice should show the colours of its LEDs.
SubdevicesShowLeds ==
  FreshFrame => \A i \in 1..Len(dev.subdevices) : ShowsLeds(dev.subdevices[i])

\* The tests say of a matrix map that it stores LED indices: an enabled cell of
\* a zone is one of the LEDs of that zone.
MapsHoldZoneLeds ==
  \A i \in 1..Len(zones) : \A c \in 1..Len(zones[i].map) : zones[i].map[c] < zones[i].max

=============================================================================
