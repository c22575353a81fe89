--------------------------- MODULE TopologyMapping ---------------------------
(***************************************************************************)
(* The two translations between the device a script describes and what     *)
(* OpenRGB shows of it: a topology becomes zones (TopologyMapper), the     *)
(* colours of the LEDs of a zone become a frame for the script             *)
(* (FrameBuilder).                                                         *)
(*                                                                         *)
(* LEDs are numbered from 0, as in the code.  A list of LED names is its   *)
(* length, the text is left out.  A colour is the number of the LED in     *)
(* OpenRGB's list that it was set on, so that a frame tells which LED each *)
(* of its colours comes from; Black is the colour of none.                 *)
(***************************************************************************)
EXTENDS Integers, Sequences, SequencesExt

CONSTANT Meta   \* the script's metadata: its size and its LEDs

ASSUME MetaAssumption ==
  /\ Meta.width \in Nat /\ Meta.height \in Nat /\ Meta.names \in Nat
  /\ Meta.positions \in Seq(Int \X Int)

Black == -1
NoLed == -1

Larger(a, b) == IF a >= b THEN a ELSE b
Smaller(a, b) == IF a =< b THEN a ELSE b

\* The LEDs, counted from 1, that a list of positions puts on a cell.
Holders(positions, cell) == {i \in 1..Len(positions) : positions[i] = cell}

\* What a list has at these places, in its order.
Kept(list, places) ==
  LET Place(n) == CHOOSE i \in places : Cardinality({j \in places : j =< i}) = n
  IN [n \in 1..Cardinality(places) |-> list[Place(n)]]

-----------------------------------------------------------------------------
(* TopologyMapper.                                                         *)

\* Mutant of BuildMatrixMap: rows and columns swapped.
BuildMatrixMapByColumns(width, height, count, positions) ==
  IF width =< 1 \/ height =< 1 THEN <<>>
  ELSE [c \in 1..width * height |->
          LET held == Holders(positions, <<(c - 1) \div width, (c - 1) % width>>)
          IN IF positions = <<>> THEN IF c =< count THEN c - 1 ELSE NoLed
             ELSE IF held = {} THEN NoLed ELSE Max(held) - 1]

\* Row by row, the LED of each cell of a canvas; a later LED takes the cell of
\* an earlier one, a LED off the canvas is on no cell, and LEDs without
\* positions fill the canvas from its start.  A canvas of one row or column has
\* no map.
BuildMatrixMap(width, height, count, positions) ==
  IF width =< 1 \/ height =< 1 THEN <<>>
  ELSE [c \in 1..width * height |->
          LET held == Holders(positions, <<(c - 1) % width, (c - 1) \div width>>)
          IN IF positions = <<>> THEN IF c =< count THEN c - 1 ELSE NoLed
             ELSE IF held = {} THEN NoLed ELSE Max(held) - 1]

Zone(kind, key, width, height, count, min, map) ==
  [kind |-> kind, key |-> key, width |-> width, height |-> height,
   count |-> count, min |-> min, max |-> count, map |-> map]

HasDynamicOutputs(topology) == topology.channels # <<>> \/ topology.subdevices # <<>>

\* Where the topology gives no positions the metadata's are taken.
MainZone(main) ==
  LET count == Larger(1, IF main.count > 0 THEN main.count ELSE main.canvas)
      positions == IF main.positions = <<>> THEN Meta.positions ELSE main.positions
  IN Zone("main", "main", main.width, main.height, count, count,
          BuildMatrixMap(main.width, main.height, count, positions))

MainZones(topology) ==
  IF topology.main.count > 0 \/ ~HasDynamicOutputs(topology)
    THEN <<MainZone(topology.main)>> ELSE <<>>

ChannelZone(channel) ==
  LET most == Larger(1, Larger(channel.count, channel.limit))
  IN Zone("channel", channel.name, most, 1, most, 0, <<>>)

ChannelZones(topology) ==
  [i \in 1..Len(topology.channels) |-> ChannelZone(topology.channels[i])]

SubdeviceZone(sub) ==
  Zone("subdevice", sub.name, sub.width, sub.height, sub.count, sub.count,
       BuildMatrixMap(sub.width, sub.height, sub.count, sub.positions))

\* A subdevice without LEDs has no zone.
SubdeviceZones(topology) ==
  LET HasLeds == {i \in 1..Len(topology.subdevices) : topology.subdevices[i].count > 0}
      shown == Kept(topology.subdevices, HasLeds)
  IN [i \in 1..Len(shown) |-> SubdeviceZone(shown[i])]

FallbackZone == Zone("main", "main", 1, 1, 1, 1, <<>>)

BuildOpenRgbTopology(topology) ==
  LET zones == MainZones(topology) \o ChannelZones(topology) \o SubdeviceZones(topology)
  IN IF zones = <<>> THEN <<FallbackZone>> ELSE zones

\* The LEDs of the first zones, each the number of its zone and its own.
Leds(zones, most) == UNION {{j} \X (1..zones[j].count) : j \in 1..most}

\* Where a zone starts in the list of LEDs, and how long the list is.
StartIndex(zones, i) == Cardinality(Leds(zones, i - 1))
TotalLeds(zones) == Cardinality(Leds(zones, Len(zones)))

-----------------------------------------------------------------------------
(* FrameBuilder.  colors is OpenRGB's list of colours, one for each LED.   *)

ColorAt(colors, led) == IF led \in 0..Len(colors) - 1 THEN colors[led + 1] ELSE Black

\* Mutant of BuildFrameColors: a zone without a map is read from the first LED on.
BuildFrameColorsFromFirst(zones, colors, i) ==
  LET start == StartIndex(zones, i)
      map == zones[i].map
  IN IF map = <<>>
       THEN [n \in 1..zones[i].count |-> ColorAt(colors, n - 1)]
       ELSE [c \in 1..Len(map) |->
               IF map[c] = NoLed THEN Black ELSE ColorAt(colors, start + map[c])]

\* The colours of zone i: one for each LED, or one for each cell of its canvas
\* when it has a map.
BuildFrameColors(zones, colors, i) ==
  LET start == StartIndex(zones, i)
      map == zones[i].map
  IN IF map = <<>>
       THEN [n \in 1..zones[i].count |-> ColorAt(colors, start + n - 1)]
       ELSE [c \in 1..Len(map) |->
               IF map[c] = NoLed THEN Black ELSE ColorAt(colors, start + map[c])]

=============================================================================
