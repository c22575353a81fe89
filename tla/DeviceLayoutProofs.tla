--------------------------- MODULE DeviceLayoutProofs ---------------------------
(***************************************************************************)
(* What is proved of DeviceTopology: the zones built from a device, the    *)
(* frames built from the zones, and the theorems.                          *)
(***************************************************************************)
EXTENDS DeviceTopologyProofs

-----------------------------------------------------------------------------
(* The zones of a device.                                                  *)

\* What the mapper makes of the device as it is.
Built == BuildOpenRgbTopology(Topology)

\* The zone of a subdevice.
ShowsSubdevice(z, sub) ==
  /\ z.kind = "subdevice" /\ z.key = sub.name /\ z.width = sub.width
  /\ z.count = SubdeviceLedCount(sub) /\ z.max = SubdeviceLedCount(sub)
  /\ z.map = BuildMatrixMap(sub.width, sub.height, SubdeviceLedCount(sub), sub.positions)

\* The zone that is built for a subdevice is its zone, and agrees with itself.
LEMMA SubdeviceBuilt ==
  ASSUME NEW sub \in Subdevices
  PROVE  LET z == SubdeviceZone([name |-> sub.name, width |-> sub.width, height |-> sub.height,
                                 count |-> SubdeviceLedCount(sub), positions |-> sub.positions])
         IN z \in Zones /\ BuiltOK(z) /\ ShowsSubdevice(z, sub)
<1> DEFINE count == SubdeviceLedCount(sub)
           map == BuildMatrixMap(sub.width, sub.height, count, sub.positions)
           z == SubdeviceZone([name |-> sub.name, width |-> sub.width, height |-> sub.height,
                               count |-> count, positions |-> sub.positions])
<1>1. /\ sub.name \in script.subdevices /\ sub.width \in Nat \ {0} /\ sub.height \in Nat \ {0}
      /\ sub.names \in Nat /\ sub.positions \in Positions
  BY DEF Subdevices
<1>2. count \in Nat
  <2>1. Len(sub.positions) \in Nat
    BY <1>1, LenProperties DEF Positions
  <2> QED
    BY <1>1, <2>1 DEF SubdeviceLedCount, Larger
<1>3. z = [kind |-> "subdevice", key |-> sub.name, width |-> sub.width, height |-> sub.height,
           count |-> count, min |-> count, max |-> count, map |-> map]
  BY DEF SubdeviceZone, Zone
<1> HIDE DEF count, z
<1>4. map \in Seq(Int)
  BY <1>1, <1>2, MapTyped
<1> HIDE DEF map
<1>5. z \in Zones
  BY <1>1, <1>2, <1>3, <1>4 DEF Zones
<1>6. /\ z.kind = "subdevice" /\ z.key = sub.name /\ z.width = sub.width
      /\ z.count = count /\ z.max = count /\ z.min = count /\ z.map = map
  BY <1>3
<1> QED
  BY <1>5, <1>6 DEF BuiltOK, ShowsSubdevice, z, count, map

\* The zones of the subdevices: each shows a subdevice with LEDs, and each of those has
\* one.
LEMMA SubdevicesBuilt ==
  ASSUME DeviceOK(dev)
  PROVE  LET list == SubdeviceZones(Topology)
         IN /\ list \in Seq(Zones)
            /\ \A n \in 1..Len(list) :
                 BuiltOK(list[n]) /\ list[n].kind = "subdevice"
                 /\ \E i \in 1..Len(dev.subdevices) : ShowsSubdevice(list[n], dev.subdevices[i])
            /\ \A i \in 1..Len(dev.subdevices) : SubdeviceLedCount(dev.subdevices[i]) > 0 =>
                 \E n \in 1..Len(list) : ShowsSubdevice(list[n], dev.subdevices[i])
<1> DEFINE list == SubdeviceZones(Topology)
           Shown(sub) == [name |-> sub.name, width |-> sub.width, height |-> sub.height,
                          count |-> SubdeviceLedCount(sub), positions |-> sub.positions]
<1>1. /\ Len(dev.subdevices) \in Nat
      /\ \A i \in 1..Len(dev.subdevices) : dev.subdevices[i] \in Subdevices
  BY LenProperties DEF DeviceOK, Devices
<1>2. PICK subs : subs = Topology.subdevices
  OBVIOUS
<1>3. PICK HasLeds : HasLeds = {i \in 1..Len(subs) : subs[i].count > 0}
  OBVIOUS
<1>4. Len(subs) = Len(dev.subdevices) /\ \A i \in 1..Len(subs) : subs[i] = Shown(dev.subdevices[i])
  <2>1. subs = [i \in 1..Len(dev.subdevices) |-> Shown(dev.subdevices[i])]
    BY <1>2, TopologyFields
  <2> QED
    BY <1>1, <2>1
<1>5. HasLeds \in SUBSET (1..Len(subs)) /\ Len(subs) \in Nat
  BY <1>1, <1>3, <1>4
<1>6. \A i \in HasLeds : i \in 1..Len(dev.subdevices) /\ subs[i] = Shown(dev.subdevices[i])
  BY <1>4, <1>5
<1>7. \A i \in 1..Len(dev.subdevices) : SubdeviceLedCount(dev.subdevices[i]) > 0 => i \in HasLeds
  <2>1. ASSUME NEW i \in 1..Len(subs) PROVE subs[i].count = SubdeviceLedCount(dev.subdevices[i])
    <3>1. Shown(dev.subdevices[i]).count = SubdeviceLedCount(dev.subdevices[i])
      OBVIOUS
    <3> HIDE DEF Shown
    <3> QED
      BY <1>4, <3>1
  <2> QED
    BY <1>3, <1>4, <2>1
<1>8. PICK n, shown : shown = Kept(subs, HasLeds) /\ n = Cardinality(HasLeds)
  OBVIOUS
<1>9. /\ n \in Nat /\ shown = [m \in 1..n |-> subs[PlaceOf(HasLeds, m)]]
      /\ \A m \in 1..n : PlaceOf(HasLeds, m) \in HasLeds
      /\ \A i \in HasLeds : \E m \in 1..n : PlaceOf(HasLeds, m) = i
  BY <1>5, <1>8, KeptItems
<1>10. PICK place : place = [m \in 1..n |-> PlaceOf(HasLeds, m)]
  OBVIOUS
<1>11. Len(shown) = n
  <2> DEFINE S == {subs[PlaceOf(HasLeds, m)] : m \in 1..n}
  <2>1. \A m \in 1..n : shown[m] \in S
    BY <1>9
  <2> HIDE DEF S
  <2>2. shown = [m \in 1..n |-> shown[m]]
    BY <1>9
  <2> QED
    BY <1>9, <2>1, <2>2, ListByPlaces
<1>12. list = [m \in 1..Len(shown) |-> SubdeviceZone(shown[m])]
  BY <1>2, <1>3, <1>8 DEF SubdeviceZones
<1> HIDE DEF list, Shown
<1>13. \A m \in 1..n : /\ place[m] \in HasLeds
                       /\ list[m] = SubdeviceZone(Shown(dev.subdevices[place[m]]))
  BY <1>6, <1>9, <1>10, <1>11, <1>12
<1>14. \A m \in 1..n :
         /\ list[m] \in Zones /\ BuiltOK(list[m]) /\ place[m] \in 1..Len(dev.subdevices)
         /\ ShowsSubdevice(list[m], dev.subdevices[place[m]])
  BY <1>1, <1>6, <1>13, SubdeviceBuilt DEF Shown
<1>15. list \in Seq(Zones) /\ Len(list) = n
  <2>1. list = [m \in 1..n |-> list[m]]
    BY <1>11, <1>12
  <2> QED
    BY <1>9, <1>14, <2>1, ListByPlaces
<1>16. \A i \in 1..Len(dev.subdevices) : SubdeviceLedCount(dev.subdevices[i]) > 0 =>
         \E m \in 1..Len(list) : ShowsSubdevice(list[m], dev.subdevices[i])
  BY <1>7, <1>9, <1>10, <1>14, <1>15
<1>17. \A m \in 1..Len(list) : list[m].kind = "subdevice"
  BY <1>14, <1>15 DEF ShowsSubdevice
<1> QED
  BY <1>14, <1>15, <1>16, <1>17 DEF list

\* Three lists after each other.
IsJoined(all, a, b, c) ==
  /\ Len(a) \in Nat /\ Len(b) \in Nat /\ Len(c) \in Nat
  /\ Len(all) = Len(a) + Len(b) + Len(c)
  /\ \A k \in 1..Len(all) :
       all[k] = IF k <= Len(a) THEN a[k]
                ELSE IF k <= Len(a) + Len(b) THEN b[k - Len(a)]
                ELSE c[k - (Len(a) + Len(b))]

\* That is what joining them makes.
LEMMA JoinedLists ==
  ASSUME NEW S, NEW a \in Seq(S), NEW b \in Seq(S), NEW c \in Seq(S)
  PROVE  a \o b \o c \in Seq(S) /\ IsJoined(a \o b \o c, a, b, c)
<1>1. Len(a) \in Nat /\ Len(b) \in Nat /\ Len(c) \in Nat
  BY LenProperties
<1>2. PICK two : two = a \o b
  OBVIOUS
<1>3. /\ two \in Seq(S) /\ Len(two) = Len(a) + Len(b)
      /\ \A i \in 1..Len(a) + Len(b) : two[i] = IF i <= Len(a) THEN a[i] ELSE b[i - Len(a)]
  BY <1>2, ConcatProperties
<1>4. two \in Seq(S)
  BY <1>3
<1>5. /\ two \o c \in Seq(S) /\ Len(two \o c) = Len(two) + Len(c)
      /\ \A i \in 1..Len(two) + Len(c) :
           (two \o c)[i] = IF i <= Len(two) THEN two[i] ELSE c[i - Len(two)]
  BY <1>4, ConcatProperties
<1>6. PICK all : all = two \o c
  OBVIOUS
<1>7. ASSUME NEW k \in 1..Len(a) + Len(b) + Len(c)
      PROVE  all[k] = IF k <= Len(a) THEN a[k]
                      ELSE IF k <= Len(a) + Len(b) THEN b[k - Len(a)]
                      ELSE c[k - (Len(a) + Len(b))]
  <2>1. k \in 1..Len(two) + Len(c)
    BY <1>3
  <2>2. all[k] = IF k <= Len(two) THEN two[k] ELSE c[k - Len(two)]
    BY <1>5, <1>6, <2>1
  <2>3. k <= Len(two) => k \in 1..Len(a) + Len(b)
    BY <1>1, <1>3
  <2> QED
    BY <1>1, <1>3, <2>2, <2>3
<1>8. a \o b \o c = all
  BY <1>2, <1>6
<1> QED
  BY <1>1, <1>3, <1>5, <1>6, <1>7, <1>8 DEF IsJoined

\* The zone of a channel.
ShowsChannel(z, channel) ==
  /\ z.kind = "channel" /\ z.key = channel.name
  /\ z.max = Larger(1, Larger(channel.count, channel.limit))

\* What is built: a zone is the main zone, or a channel's, or a subdevice's, and each
\* channel, each subdevice with LEDs, and a main canvas with positions has one.
LEMMA ZonesBuilt ==
  ASSUME DeviceOK(dev)
  PROVE  /\ Built \in Seq(Zones)
         /\ \A i \in 1..Len(Built) :
              /\ BuiltOK(Built[i])
              /\ (Built[i].kind = "main" /\ dev.positions # <<>>) => Built[i] = MainZone(Topology.main)
              /\ Built[i].kind = "channel" =>
                   \E c \in 1..Len(dev.channels) : ShowsChannel(Built[i], dev.channels[c])
              /\ Built[i].kind = "subdevice" =>
                   \E s \in 1..Len(dev.subdevices) : ShowsSubdevice(Built[i], dev.subdevices[s])
         /\ dev.positions # <<>> =>
              \E i \in 1..Len(Built) : Built[i].kind = "main" /\ Built[i].key = "main"
         /\ \A c \in 1..Len(dev.channels) : \E i \in 1..Len(Built) :
              Built[i].kind = "channel" /\ Built[i].key = dev.channels[c].name
         /\ \A s \in 1..Len(dev.subdevices) : SubdeviceLedCount(dev.subdevices[s]) > 0 =>
              \E i \in 1..Len(Built) :
                Built[i].kind = "subdevice" /\ Built[i].key = dev.subdevices[s].name
<1>1. PICK main, first, channels, subs :
        /\ main = MainZone(Topology.main) /\ first = MainZones(Topology)
        /\ channels = ChannelZones(Topology) /\ subs = SubdeviceZones(Topology)
  OBVIOUS
<1>2. /\ main \in Zones /\ BuiltOK(main) /\ main.kind = "main" /\ main.key = "main"
      /\ dev.positions # <<>> => Topology.main.count > 0
  BY <1>1, MainBuilt
<1>3. /\ first \in Seq(Zones) /\ (first = <<>> \/ (Len(first) = 1 /\ first[1] = main))
      /\ dev.positions # <<>> => Len(first) = 1 /\ first[1] = main
  <2>1. first = <<main>> \/ first = <<>>
    BY <1>1 DEF MainZones
  <2>2. dev.positions # <<>> => first = <<main>>
    BY <1>1, <1>2 DEF MainZones
  <2>3. <<main>> \in Seq(Zones) /\ Len(<<main>>) = 1 /\ <<main>>[1] = main
    BY <1>2
  <2>4. <<>> \in Seq(Zones)
    BY EmptySeq
  <2> DEFINE none == <<>>
             one == <<main>>
  <2> HIDE DEF one
  <2>5. one \in Seq(Zones) /\ Len(one) = 1 /\ one[1] = main
    BY <2>3 DEF one
  <2>6. (first = one \/ first = none) /\ (dev.positions # <<>> => first = one)
    BY <2>1, <2>2 DEF one
  <2> QED
    BY <2>4, <2>5, <2>6
<1>4. /\ channels \in Seq(Zones) /\ Len(channels) = Len(dev.channels)
      /\ \A i \in 1..Len(dev.channels) :
           BuiltOK(channels[i]) /\ ShowsChannel(channels[i], dev.channels[i])
  BY <1>1, ChannelsBuilt DEF ShowsChannel
<1>5. /\ subs \in Seq(Zones)
      /\ \A n \in 1..Len(subs) :
           /\ BuiltOK(subs[n]) /\ subs[n].kind = "subdevice"
           /\ \E i \in 1..Len(dev.subdevices) : ShowsSubdevice(subs[n], dev.subdevices[i])
      /\ \A i \in 1..Len(dev.subdevices) : SubdeviceLedCount(dev.subdevices[i]) > 0 =>
           \E n \in 1..Len(subs) : ShowsSubdevice(subs[n], dev.subdevices[i])
  BY <1>1, SubdevicesBuilt
<1>6. PICK all : all = first \o channels \o subs
  OBVIOUS
<1>7. /\ all \in Seq(Zones) /\ Len(all) = Len(first) + Len(channels) + Len(subs)
      /\ Len(first) \in Nat /\ Len(channels) \in Nat /\ Len(subs) \in Nat
      /\ \A k \in 1..Len(first) + Len(channels) + Len(subs) :
           all[k] = IF k <= Len(first) THEN first[k]
                    ELSE IF k <= Len(first) + Len(channels) THEN channels[k - Len(first)]
                    ELSE subs[k - (Len(first) + Len(channels))]
  <2>1. first \in Seq(Zones) /\ channels \in Seq(Zones) /\ subs \in Seq(Zones)
    BY <1>3, <1>4, <1>5
  <2>2. all \in Seq(Zones) /\ IsJoined(all, first, channels, subs)
    BY <1>6, <2>1, JoinedLists
  <2> QED
    BY <2>2 DEF IsJoined
<1>8. Built = IF all = <<>> THEN <<FallbackZone>> ELSE all
  BY <1>1, <1>6 DEF Built, BuildOpenRgbTopology
<1>9. CASE all = <<>>
  <2>1. /\ Len(all) = 0 /\ Len(first) = 0 /\ Len(channels) = 0 /\ Len(subs) = 0
    BY <1>7, <1>9, EmptySeq
  <2>2. /\ FallbackZone.kind = "main" /\ FallbackZone.key = "main" /\ BuiltOK(FallbackZone)
        /\ FallbackZone \in Zones
    <3> DEFINE none == <<>>
    <3>1. FallbackZone = [kind |-> "main", key |-> "main", width |-> 1, height |-> 1,
                          count |-> 1, min |-> 1, max |-> 1, map |-> none]
      BY DEF FallbackZone, Zone
    <3>2. none \in Seq(Int)
      BY EmptySeq
    <3> HIDE DEF none
    <3>3. FallbackZone \in Zones
      BY <3>1, <3>2 DEF Zones
    <3> QED
      BY <3>1, <3>3 DEF BuiltOK
  <2>3. dev.positions = <<>> /\ Len(dev.channels) = 0
    BY <1>3, <1>4, <2>1
  <2>4. \A s \in 1..Len(dev.subdevices) : ~(SubdeviceLedCount(dev.subdevices[s]) > 0)
    BY <1>5, <2>1
  <2>5. Built = <<FallbackZone>>
    BY <1>8, <1>9
  <2>6. Built \in Seq(Zones) /\ Len(Built) = 1 /\ Built[1] = FallbackZone
    BY <2>2, <2>5
  <2>7. \A i \in 1..Len(Built) : BuiltOK(Built[i]) /\ Built[i].kind = "main"
    BY <2>2, <2>6
  <2> QED
    BY <2>3, <2>4, <2>6, <2>7
<1>10. CASE all # <<>>
  <2>1. Built = all
    BY <1>8, <1>10
  <2>2. ASSUME NEW k \in 1..Len(all)
        PROVE  /\ BuiltOK(all[k])
               /\ all[k].kind = "main" => all[k] = main
               /\ all[k].kind = "channel" =>
                    \E c \in 1..Len(dev.channels) : ShowsChannel(all[k], dev.channels[c])
               /\ all[k].kind = "subdevice" =>
                    \E s \in 1..Len(dev.subdevices) : ShowsSubdevice(all[k], dev.subdevices[s])
    <3>1. CASE k <= Len(first)
      <4>1. k \in 1..Len(first) /\ all[k] = first[k]
        BY <1>7, <3>1
      <4>2. all[k] = main
        BY <1>3, <1>7, <4>1, EmptySeq
      <4> QED
        BY <1>2, <4>2
    <3>2. CASE ~(k <= Len(first)) /\ k <= Len(first) + Len(channels)
      <4>1. k - Len(first) \in 1..Len(channels) /\ all[k] = channels[k - Len(first)]
        BY <1>7, <3>2
      <4> QED
        BY <1>4, <4>1 DEF ShowsChannel
    <3>3. CASE ~(k <= Len(first)) /\ ~(k <= Len(first) + Len(channels))
      <4>1. PICK i \in 1..Len(subs) : all[k] = subs[i]
        <5>1. /\ k - (Len(first) + Len(channels)) \in 1..Len(subs)
              /\ all[k] = subs[k - (Len(first) + Len(channels))]
          BY <1>7, <3>3
        <5> QED
          BY <5>1
      <4> QED
        BY <1>5, <4>1
    <3> QED
      BY <3>1, <3>2, <3>3
  <2>3. dev.positions # <<>> => \E i \in 1..Len(all) : all[i].kind = "main" /\ all[i].key = "main"
    <3> HAVE dev.positions # <<>>
    <3>1. Len(first) = 1 /\ first[1] = main
      BY <1>3
    <3>2. 1 \in 1..Len(first) /\ 1 \in 1..Len(all)
      BY <1>7, <3>1
    <3>3. all[1] = main
      BY <1>7, <3>1, <3>2
    <3> QED
      BY <1>2, <3>2, <3>3
  <2>4. ASSUME NEW c \in 1..Len(dev.channels)
        PROVE  \E i \in 1..Len(all) : all[i].kind = "channel" /\ all[i].key = dev.channels[c].name
    <3>1. Len(first) + c \in 1..Len(all) /\ all[Len(first) + c] = channels[c]
      <4>1. /\ Len(first) + c \in 1..Len(first) + Len(channels) + Len(subs)
            /\ ~(Len(first) + c <= Len(first)) /\ Len(first) + c <= Len(first) + Len(channels)
            /\ (Len(first) + c) - Len(first) = c
        BY <1>4, <1>7
      <4> QED
        BY <1>7, <4>1
    <3>2. channels[c].kind = "channel" /\ channels[c].key = dev.channels[c].name
      BY <1>4 DEF ShowsChannel
    <3> QED
      BY <3>1, <3>2
  <2>5. ASSUME NEW s \in 1..Len(dev.subdevices), SubdeviceLedCount(dev.subdevices[s]) > 0
        PROVE  \E i \in 1..Len(all) : all[i].kind = "subdevice" /\ all[i].key = dev.subdevices[s].name
    <3>1. PICK n \in 1..Len(subs) : ShowsSubdevice(subs[n], dev.subdevices[s])
      BY <1>5, <2>5
    <3>2. /\ Len(first) + Len(channels) + n \in 1..Len(all)
          /\ all[Len(first) + Len(channels) + n] = subs[n]
      <4> DEFINE k == Len(first) + Len(channels) + n
      <4>1. /\ k \in 1..Len(first) + Len(channels) + Len(subs)
            /\ ~(k <= Len(first)) /\ ~(k <= Len(first) + Len(channels))
            /\ k - (Len(first) + Len(channels)) = n
        BY <1>7
      <4> QED
        BY <1>7, <4>1
    <3> QED
      BY <3>1, <3>2 DEF ShowsSubdevice
  <2> QED
    BY <1>1, <1>7, <2>1, <2>2, <2>3, <2>4, <2>5
<1> QED
  BY <1>9, <1>10

-----------------------------------------------------------------------------
(* The invariant.  What is known of the zones besides their types is that  *)
(* only a channel's can be given another size, and that they follow what   *)
(* would be built now, unless the device is marked.                        *)

TypesOK ==
  /\ api \in Apis /\ script \in Scripts
  /\ phase \in {"initialize", "idle", "callback", "frame", "render"}
  /\ calls \in 0..script.calls /\ colors \in ColorList

ZoneOK(z) ==
  /\ IF z.kind = "channel" THEN z.map = <<>> ELSE z.min = z.max /\ z.count = z.max
  /\ api = 5 => z.count = z.max

ZonesOK == zones \in Seq(Zones) /\ \A i \in 1..Len(zones) : ZoneOK(zones[i])

Follows(z, b) ==
  /\ z.kind = b.kind /\ z.key = b.key /\ z.map = b.map
  /\ (api = 4 /\ z.kind = "channel") \/ (z.width = b.width /\ z.max = b.max)

LayoutOK ==
  phase # "initialize" /\ ~dev.dirty =>
    Len(zones) = Len(Built) /\ \A i \in 1..Len(zones) : Follows(zones[i], Built[i])

FramesOK == MainMatrixShowsLeds /\ SubdeviceRowsShowLeds

IInv == TypesOK /\ DeviceOK(dev) /\ ZonesOK /\ LayoutOK /\ FramesOK

\* What scripts give.
LEMMA ScriptGiven == ASSUME script \in Scripts PROVE ScriptOK
BY ScriptsAssumption DEF ScriptOK, Cells, Positions

\* Frames are fresh only in the states that BuildFrames leads to.
LEMMA NotFresh ==
  ASSUME ~FreshFrame PROVE FramesOK
BY DEF FramesOK, MainMatrixShowsLeds, SubdeviceRowsShowLeds

\* What is built is a list of zones.
LEMMA BuiltIsZones ==
  ASSUME DeviceOK(dev), zones' = Built, UNCHANGED setting
  PROVE  ZonesOK'
<1>1. Built \in Seq(Zones) /\ \A i \in 1..Len(Built) : BuiltOK(Built[i])
  BY ZonesBuilt
<1>2. Zones' = Zones
  BY DEF Zones, setting
<1>3. \A i \in 1..Len(Built) : ZoneOK(Built[i])
  BY <1>1 DEF BuiltOK, ZoneOK
<1>4. (\A i \in 1..Len(zones) : ZoneOK(zones[i]))'
  BY <1>3 DEF ZoneOK, setting
<1> QED
  BY <1>1, <1>2, <1>4 DEF ZonesOK

\* The device without its mark is the same device, of the same topology.
LEMMA Taken ==
  ASSUME DeviceOK(dev), TakeTopology, UNCHANGED setting
  PROVE  DeviceOK(dev)' /\ ZonesOK' /\ LayoutOK'
<1>1. PICK new : new = [dev EXCEPT !.dirty = FALSE]
  OBVIOUS
<1>2. /\ new \in Devices /\ new.channels = dev.channels /\ new.subdevices = dev.subdevices
      /\ new.width = dev.width /\ new.height = dev.height /\ new.positions = dev.positions
      /\ new.count = dev.count /\ ~new.dirty
  BY <1>1 DEF DeviceOK, Devices
<1>3. DeviceOK(new)
  BY <1>2 DEF DeviceOK
<1>4. dev' = new /\ zones' = Built
  BY <1>1 DEF TakeTopology, Built
<1>5. DeviceOK(dev)'
  BY <1>3, <1>4 DEF DeviceOK, Devices, Channels, Subdevices, setting
<1>6. Built' = Built
  <2>1. Topology' = Topology
    BY <1>2, <1>4 DEF Topology, CurrentMainLedCount
  <2> QED
    BY <2>1 DEF Built
<1>7. LayoutOK'
  BY <1>4, <1>6 DEF LayoutOK, Follows
<1> QED
  BY <1>4, <1>5, <1>7, BuiltIsZones

\* Steps that leave the device and the zones alone.
LEMMA Untouched ==
  ASSUME DeviceOK(dev), ZonesOK, LayoutOK, UNCHANGED <<setting, dev, zones>>,
         phase = "initialize" => phase' = "initialize"
  PROVE  DeviceOK(dev)' /\ ZonesOK' /\ LayoutOK'
<1>1. DeviceOK(dev)'
  BY DEF DeviceOK, Devices, Channels, Subdevices, setting
<1>2. ZonesOK'
  BY DEF ZonesOK, Zones, ZoneOK, setting
<1>3. Built' = Built
  BY DEF Built, Topology, CurrentMainLedCount
<1>4. LayoutOK'
  BY <1>3 DEF LayoutOK, Follows, setting
<1> QED
  BY <1>1, <1>2, <1>4

-----------------------------------------------------------------------------
(* Frames.                                                                 *)

\* The zone that is chosen for an output.
LEMMA ZoneChosen ==
  ASSUME NEW kind, NEW key, HasZone(kind, key)
  PROVE  /\ ZoneOf(kind, key) \in 1..Len(zones)
         /\ zones[ZoneOf(kind, key)].kind = kind /\ zones[ZoneOf(kind, key)].key = key
BY DEF HasZone, ZoneOf

\* The zones' LED counts, starts and total are numbers.
LEMMA ZoneCounts ==
  ASSUME ZonesOK
  PROVE  /\ Len(zones) \in Nat /\ TotalLeds(zones) \in Nat
         /\ \A i \in 1..Len(zones) : zones[i] \in Zones /\ StartIndex(zones, i) \in Nat
<1>1. Len(zones) \in Nat /\ \A i \in 1..Len(zones) : zones[i] \in Zones
  BY LenProperties DEF ZonesOK
<1>2. \A i \in 1..Len(zones) : zones[i].count \in Nat
  BY <1>1 DEF Zones
<1>3. TotalLeds(zones) \in Nat
  BY <1>1, <1>2, LedsAreFinite DEF TotalLeds
<1>4. ASSUME NEW i \in 1..Len(zones) PROVE StartIndex(zones, i) \in Nat
  <2>1. i - 1 \in Nat /\ \A j \in 1..(i - 1) : zones[j].count \in Nat
    BY <1>1, <1>2
  <2> QED
    BY <2>1, LedsAreFinite DEF StartIndex
<1> QED
  BY <1>1, <1>3, <1>4

\* The colours that are copied are a list of colours, whatever part was copied.
LEMMA SnapshotTyped ==
  ASSUME ZonesOK, NEW copied \in Int
  PROVE  Snapshot(copied) \in ColorList
<1>1. TotalLeds(zones) \in Nat
  BY ZoneCounts
<1> DEFINE n == TotalLeds(zones)
           list == Snapshot(copied)
<1>2. list = [i \in 1..n |-> IF i =< copied THEN i - 1 ELSE Black]
  BY DEF Snapshot
<1> HIDE DEF n, list
<1>3. list = [i \in 1..n |-> list[i]] /\ \A i \in 1..n : list[i] \in Colors
  BY <1>2 DEF Colors
<1>4. n \in Nat
  BY <1>1 DEF n
<1>5. list \in Seq(Colors)
  BY <1>3, <1>4, ListByPlaces
<1> QED
  BY <1>5 DEF list, ColorList, Colors

\* The colour of a LED, or black.
LEMMA ColorTyped ==
  ASSUME NEW list \in ColorList, NEW led
  PROVE  ColorAt(list, led) \in Colors
<1>1. Len(list) \in Nat /\ \A i \in 1..Len(list) : list[i] \in Colors
  BY LenProperties DEF ColorList, Colors
<1>2. led \in 0..Len(list) - 1 => led + 1 \in 1..Len(list)
  BY <1>1
<1> QED
  BY <1>1, <1>2 DEF ColorAt, Colors

\* The frame of a zone: its LEDs, or the cells of its map.
LEMMA FrameOfZone ==
  ASSUME ZonesOK, NEW list \in ColorList, NEW i \in 1..Len(zones)
  PROVE  LET frame == BuildFrameColors(zones, list, i)
             start == StartIndex(zones, i)
             map == zones[i].map
         IN /\ frame \in ColorList
            /\ map = <<>> => /\ Len(frame) = zones[i].count
                             /\ \A n \in 1..zones[i].count : frame[n] = ColorAt(list, start + n - 1)
            /\ map # <<>> => /\ Len(frame) = Len(map)
                             /\ \A c \in 1..Len(map) :
                                  frame[c] = IF map[c] = NoLed THEN Black
                                             ELSE ColorAt(list, start + map[c])
<1>1. PICK frame, start, map, count :
        /\ frame = BuildFrameColors(zones, list, i) /\ start = StartIndex(zones, i)
        /\ map = zones[i].map /\ count = zones[i].count
  OBVIOUS
<1>2. count \in Nat /\ map \in Seq(Int) /\ Len(map) \in Nat
  BY <1>1, ZoneCounts, LenProperties DEF Zones
<1>3. \A led : ColorAt(list, led) \in Colors
  BY ColorTyped
<1>4. CASE map = <<>>
  <2>1. frame = [n \in 1..count |-> ColorAt(list, start + n - 1)]
    BY <1>1, <1>4 DEF BuildFrameColors
  <2>2. frame = [n \in 1..count |-> frame[n]] /\ \A n \in 1..count : frame[n] \in Colors
    BY <1>3, <2>1
  <2>3. frame \in Seq(Colors) /\ Len(frame) = count
    BY <1>2, <2>2, ListByPlaces
  <2>4. \A n \in 1..count : frame[n] = ColorAt(list, start + n - 1)
    BY <2>1
  <2> QED
    BY <1>1, <1>4, <2>3, <2>4 DEF ColorList, Colors
<1>5. CASE map # <<>>
  <2>1. frame = [c \in 1..Len(map) |-> IF map[c] = NoLed THEN Black
                                       ELSE ColorAt(list, start + map[c])]
    BY <1>1, <1>5 DEF BuildFrameColors
  <2>2. /\ frame = [n \in 1..Len(map) |-> frame[n]]
        /\ \A n \in 1..Len(map) : frame[n] \in Colors
    BY <1>3, <2>1 DEF Colors
  <2>3. frame \in Seq(Colors) /\ Len(frame) = Len(map)
    BY <1>2, <2>2, ListByPlaces
  <2>4. \A c \in 1..Len(map) : frame[c] = IF map[c] = NoLed THEN Black
                                          ELSE ColorAt(list, start + map[c])
    BY <2>1
  <2> QED
    BY <1>1, <1>5, <2>3, <2>4 DEF ColorList, Colors
<1> QED
  BY <1>4, <1>5

\* The main frame.
LEMMA MainFramed ==
  ASSUME DeviceOK(dev), ZonesOK, NEW list \in ColorList
  PROVE  FrameMain(list) \in [width : Nat \ {0}, colors : ColorList]
<1>1. CASE HasZone("main", "main")
  <2>1. ZoneOf("main", "main") \in 1..Len(zones)
    BY <1>1, ZoneChosen
  <2>2. zones[ZoneOf("main", "main")].width \in Nat \ {0}
    BY <2>1, ZoneCounts DEF Zones
  <2>3. BuildFrameColors(zones, list, ZoneOf("main", "main")) \in ColorList
    BY <2>1, FrameOfZone
  <2> QED
    BY <1>1, <2>2, <2>3 DEF FrameMain
<1>2. CASE ~HasZone("main", "main")
  <2>1. dev.width \in Nat \ {0} /\ <<>> \in ColorList
    BY EmptySeq DEF DeviceOK, Devices, ColorList
  <2> QED
    BY <1>2, <2>1 DEF FrameMain
<1> QED
  BY <1>1, <1>2

\* The frame of a channel keeps its name and its limit, and is as long as the zone and
\* the limit allow.
LEMMA ChannelFramed ==
  ASSUME ZonesOK, NEW list \in ColorList, NEW channel \in Channels
  PROVE  LET new == FrameChannel(channel, list)
             zone == zones[ZoneOf("channel", channel.name)]
             length == IF HasZone("channel", channel.name) THEN zone.count ELSE 0
         IN /\ new \in Channels /\ ChannelOK(new)
            /\ new.name = channel.name /\ new.limit = channel.limit
            /\ new.count = IF channel.limit > 0 THEN Smaller(length, channel.limit) ELSE length
<1>1. PICK frame : frame = IF HasZone("channel", channel.name)
                     THEN BuildFrameColors(zones, list, ZoneOf("channel", channel.name)) ELSE <<>>
  OBVIOUS
<1>2. PICK length : length = IF HasZone("channel", channel.name)
                             THEN zones[ZoneOf("channel", channel.name)].count ELSE 0
  OBVIOUS
<1>3. frame \in ColorList /\ Len(frame) = length /\ length \in Nat
  <2>1. CASE HasZone("channel", channel.name)
    <3>1. PICK i \in 1..Len(zones) : i = ZoneOf("channel", channel.name)
      BY <2>1, ZoneChosen
    <3>2. zones[i].map = <<>>
      BY <2>1, <3>1, ZoneChosen DEF ZonesOK, ZoneOK
    <3>3. zones[i].count \in Nat
      BY ZoneCounts DEF Zones
    <3>4. /\ BuildFrameColors(zones, list, i) \in ColorList
          /\ Len(BuildFrameColors(zones, list, i)) = zones[i].count
      BY <3>2, FrameOfZone
    <3> QED
      BY <1>1, <1>2, <2>1, <3>1, <3>3, <3>4
  <2>2. CASE ~HasZone("channel", channel.name)
    BY <1>1, <1>2, <2>2, EmptySeq DEF ColorList
  <2> QED
    BY <2>1, <2>2
<1>4. PICK count : count = IF channel.limit > 0 THEN Smaller(Len(frame), channel.limit)
                           ELSE Len(frame)
  OBVIOUS
<1>5. channel.limit \in Nat
  BY DEF Channels
<1>6. /\ count \in Nat /\ count =< Len(frame) /\ (channel.limit > 0 => count =< channel.limit)
  BY <1>3, <1>4, <1>5 DEF Smaller
<1>7. PICK cut : cut = SubSeq(frame, 1, count)
  OBVIOUS
<1>8. cut \in ColorList /\ Len(cut) = count
  <2>1. \A i \in 1..count : frame[i] \in Colors
    BY <1>3, <1>6, LenProperties DEF ColorList, Colors
  <2>2. cut \in Seq(Colors) /\ Len(cut) = IF 1 <= count THEN count - 1 + 1 ELSE 0
    BY <1>6, <1>7, <2>1, SubSeqProperties
  <2> QED
    BY <1>6, <2>2 DEF ColorList, Colors
<1>9. PICK none \in BOOLEAN : none = (count = 0)
  OBVIOUS
<1>10. PICK one : one = [channel EXCEPT !.colors = cut]
  OBVIOUS
<1>11. PICK two : two = [one EXCEPT !.count = count]
  OBVIOUS
<1>12. PICK new : new = [two EXCEPT !.pulse = none]
  OBVIOUS
<1>13. FrameChannel(channel, list) = new
  BY <1>1, <1>4, <1>7, <1>9, <1>10, <1>11, <1>12 DEF FrameChannel, FinalizeChannelFrame
<1>14. /\ one \in Channels /\ one.name = channel.name /\ one.limit = channel.limit
       /\ one.colors = cut
  BY <1>8, <1>10 DEF Channels
<1>15. /\ two \in Channels /\ two.name = channel.name /\ two.limit = channel.limit
       /\ two.colors = cut /\ two.count = count
  BY <1>6, <1>11, <1>14 DEF Channels
<1>16. /\ new \in Channels /\ new.name = channel.name /\ new.limit = channel.limit
       /\ new.colors = cut /\ new.count = count
  BY <1>9, <1>12, <1>15 DEF Channels
<1>17. new.pulse = (new.count = 0)
  <2>1. new.pulse = none
    BY <1>12, <1>15 DEF Channels
  <2> QED
    BY <1>9, <1>16, <2>1
<1>18. ChannelOK(new)
  BY <1>6, <1>8, <1>16, <1>17 DEF ChannelOK
<1> QED
  BY <1>2, <1>3, <1>4, <1>13, <1>16, <1>18

\* The frame of a subdevice keeps everything but its colours.
LEMMA SubdeviceFramed ==
  ASSUME ZonesOK, NEW list \in ColorList, NEW sub \in Subdevices, SubdeviceOK(sub)
  PROVE  LET new == FrameSubdevice(sub, list)
             i == ZoneOf("subdevice", sub.name)
         IN /\ new \in Subdevices /\ SubdeviceOK(new)
            /\ new.name = sub.name /\ new.width = sub.width /\ new.height = sub.height
            /\ new.names = sub.names /\ new.positions = sub.positions /\ new.index = sub.index
            /\ HasZone("subdevice", sub.name) =>
                 new.colors = ResizeFrameColors(BuildFrameColors(zones, list, i),
                                                SubdeviceLedCount(sub))
<1>1. PICK frame : frame = IF HasZone("subdevice", sub.name)
                     THEN BuildFrameColors(zones, list, ZoneOf("subdevice", sub.name)) ELSE <<>>
  OBVIOUS
<1>2. frame \in ColorList
  <2>1. CASE HasZone("subdevice", sub.name)
    BY <1>1, <2>1, ZoneChosen, FrameOfZone
  <2>2. CASE ~HasZone("subdevice", sub.name)
    BY <1>1, <2>2, EmptySeq DEF ColorList
  <2> QED
    BY <2>1, <2>2
<1>3. SubdeviceLedCount(sub) \in Nat
  <2>1. sub.names \in Nat /\ Len(sub.positions) \in Nat
    BY LenProperties DEF Subdevices, Positions
  <2> QED
    BY <2>1 DEF SubdeviceLedCount, Larger
<1>4. PICK cut : cut = ResizeFrameColors(frame, SubdeviceLedCount(sub))
  OBVIOUS
<1>5. cut \in ColorList /\ Len(cut) = SubdeviceLedCount(sub)
  BY <1>2, <1>3, <1>4, ResizedColors
<1>6. PICK new : new = [sub EXCEPT !.colors = cut]
  OBVIOUS
<1>7. FrameSubdevice(sub, list) = new
  BY <1>1, <1>4, <1>6 DEF FrameSubdevice
<1>8. /\ new \in Subdevices /\ new.name = sub.name /\ new.width = sub.width
      /\ new.height = sub.height /\ new.names = sub.names /\ new.positions = sub.positions
      /\ new.index = sub.index /\ new.colors = cut
  BY <1>5, <1>6 DEF Subdevices
<1>9. SubdeviceOK(new)
  BY <1>5, <1>8 DEF SubdeviceOK, SubdeviceLedCount
<1> QED
  BY <1>1, <1>4, <1>7, <1>8, <1>9

\* The cells of a canvas in their order.
IsCell(at, w, x, y) == at % w = x /\ at \div w = y

\* The one of column x and row y is on the canvas.
LEMMA CellsInOrder ==
  ASSUME NEW w \in Nat \ {0}, NEW h \in Nat, NEW x \in 0..w - 1, NEW y \in 0..h - 1
  PROVE  LET at == y * w + x
         IN at \in 0..w * h - 1 /\ IsCell(at, w, x, y)
<1>1. PICK at : at = y * w + x
  OBVIOUS
<1>2. y \in Nat /\ x \in Nat /\ y * w \in Nat /\ w * h \in Nat
  OBVIOUS
<1>3. at \in Nat
  BY <1>1, <1>2
<1>4. at < w * h
  <2>1. y + 1 =< h
    OBVIOUS
  <2>2. (y + 1) * w =< h * w
    BY <1>2, <2>1
  <2>3. (y + 1) * w = y * w + w /\ h * w = w * h
    BY <1>2
  <2> QED
    BY <1>1, <1>2, <2>2, <2>3
<1>5. at % w = x /\ at \div w = y
  <2>1. PICK q, r : q = at \div w /\ r = at % w
    OBVIOUS
  <2>2. q \in Int /\ r \in 0..w - 1 /\ at = w * q + r
    BY <1>3, <2>1
  <2>3. q = y
    <3>1. w * q + r = y * w + x
      BY <1>1, <2>2
    <3>2. ~(q > y)
      <4> SUFFICES ASSUME q > y PROVE FALSE
        OBVIOUS
      <4>1. w * q >= w * (y + 1)
        BY <1>2, <2>2
      <4>2. w * (y + 1) = y * w + w
        BY <1>2
      <4> QED
        BY <1>2, <2>2, <3>1, <4>1, <4>2
    <3>3. ~(q < y)
      <4> SUFFICES ASSUME q < y PROVE FALSE
        OBVIOUS
      <4>1. w * y >= w * (q + 1)
        BY <1>2, <2>2
      <4>2. w * (q + 1) = w * q + w /\ w * y = y * w
        BY <1>2, <2>2
      <4> QED
        BY <1>2, <2>2, <3>1, <4>1, <4>2
    <3> QED
      BY <1>2, <2>2, <3>2, <3>3
  <2>4. r = x
    BY <1>1, <1>2, <2>2, <2>3
  <2> QED
    BY <2>1, <2>3, <2>4
<1> QED
  BY <1>1, <1>3, <1>4, <1>5 DEF IsCell

\* On a main canvas with rows and columns each cell shows its last LED.
LEMMA MainFrameShows ==
  ASSUME DeviceOK(dev), ZonesOK, NEW list \in ColorList, dev.positions # <<>>,
         dev.width > 1, dev.height > 1,
         Len(zones) = Len(Built), \A i \in 1..Len(zones) : Follows(zones[i], Built[i]),
         NEW x \in 0..dev.width - 1, NEW y \in 0..dev.height - 1
  PROVE  LET frame == FrameMain(list)
             at == y * frame.width + x
             held == Holders(dev.positions, <<x, y>>)
             start == StartIndex(zones, ZoneOf("main", "main"))
         IN /\ at >= 0 /\ at < Len(frame.colors)
            /\ frame.colors[at + 1] =
                 IF held = {} THEN Black ELSE ColorAt(list, start + Max(held) - 1)
<1>1. PICK w, h, m : w = dev.width /\ h = dev.height /\ m = ZoneOf("main", "main")
  OBVIOUS
<1>2. w \in Nat \ {0} /\ h \in Nat \ {0} /\ w > 1 /\ h > 1 /\ dev.positions \in Positions
  BY <1>1 DEF DeviceOK, Devices
<1>3. /\ HasZone("main", "main") /\ m \in 1..Len(zones)
      /\ zones[m].map = Built[m].map /\ zones[m].width = Built[m].width
      /\ Built[m] = MainZone(Topology.main)
  <2>1. HasZone("main", "main")
    BY ZonesBuilt DEF HasZone, Follows
  <2>2. m \in 1..Len(zones) /\ zones[m].kind = "main"
    BY <1>1, <2>1, ZoneChosen
  <2>3. Built[m].kind = "main" /\ zones[m].map = Built[m].map /\ zones[m].width = Built[m].width
    BY <2>2 DEF Follows
  <2>4. Built[m] = MainZone(Topology.main)
    BY <2>2, <2>3, ZonesBuilt
  <2> QED
    BY <2>1, <2>2, <2>3, <2>4
<1>4. PICK count \in Nat : zones[m].map = BuildMatrixMap(w, h, count, dev.positions)
                           /\ zones[m].width = w
  <2>1. PICK z : z = MainZone(Topology.main)
    OBVIOUS
  <2>2. /\ z \in Zones /\ z.width = dev.width
        /\ z.map = BuildMatrixMap(dev.width, dev.height, z.count, dev.positions)
    BY <2>1, MainBuilt
  <2>3. z.count \in Nat
    BY <2>2 DEF Zones
  <2> QED
    BY <1>1, <1>3, <2>1, <2>2, <2>3
<1>5. PICK map : map = zones[m].map
  OBVIOUS
<1>6. /\ Len(map) = w * h /\ map # <<>>
      /\ HoldsLeds(map, w, h, dev.positions)
  <2>1. /\ Len(map) = w * h /\ Len(map) # 0 /\ map \in Seq(Int)
        /\ HoldsLeds(map, w, h, dev.positions)
    <3>1. w \in Nat /\ h \in Nat /\ dev.positions # <<>> /\ map = BuildMatrixMap(w, h, count, dev.positions)
      BY <1>2, <1>4, <1>5
    <3> QED
      BY <1>2, <3>1, MapTyped
  <2>2. map # <<>>
    BY <2>1, EmptySeq
  <2> QED
    BY <2>1, <2>2
<1>7. PICK at, start, held :
        /\ at = y * w + x /\ start = StartIndex(zones, m)
        /\ held = Holders(dev.positions, <<x, y>>)
  OBVIOUS
<1>8. at \in 0..w * h - 1 /\ at % w = x /\ at \div w = y
  <2>1. x \in 0..w - 1 /\ y \in 0..h - 1 /\ h \in Nat /\ w \in Nat \ {0}
    BY <1>1, <1>2
  <2>2. y * w + x \in 0..w * h - 1 /\ IsCell(y * w + x, w, x, y)
    BY <2>1, CellsInOrder
  <2> QED
    BY <1>7, <2>2 DEF IsCell
<1>9. w * h \in Nat /\ at + 1 \in 1..w * h /\ (at + 1) - 1 = at
  BY <1>2, <1>8
<1>10. map[at + 1] = IF held = {} THEN NoLed ELSE Max(held) - 1
  BY <1>6, <1>7, <1>8, <1>9 DEF HoldsLeds
<1>11. held # {} => Max(held) \in Nat \ {0}
  <2>1. Len(dev.positions) \in Nat
    BY <1>2, LenProperties DEF Positions
  <2>2. held \in SUBSET (1..Len(dev.positions))
    BY <1>7 DEF Holders
  <2>3. held # {} => Max(held) \in 1..Len(dev.positions)
    BY <2>1, <2>2, MaxOfPlaces
  <2> QED
    BY <2>1, <2>3
<1>12. start \in Nat
  BY <1>3, <1>7, ZoneCounts
<1>13. PICK frame : frame = BuildFrameColors(zones, list, m)
  OBVIOUS
<1>14. /\ Len(frame) = w * h
       /\ frame[at + 1] = IF map[at + 1] = NoLed THEN Black ELSE ColorAt(list, start + map[at + 1])
  BY <1>3, <1>5, <1>6, <1>7, <1>9, <1>13, FrameOfZone
<1>15. frame[at + 1] = IF held = {} THEN Black ELSE ColorAt(list, start + Max(held) - 1)
  <2>1. CASE held = {}
    BY <1>10, <1>14, <2>1
  <2>2. CASE held # {}
    <3>1. map[at + 1] = Max(held) - 1 /\ map[at + 1] # NoLed
      BY <1>10, <1>11, <2>2 DEF NoLed
    <3>2. start + map[at + 1] = start + Max(held) - 1
      BY <1>11, <1>12, <2>2, <3>1
    <3> QED
      BY <1>14, <2>2, <3>1, <3>2
  <2> QED
    BY <2>1, <2>2
<1>16. FrameMain(list).width = w /\ FrameMain(list).colors = frame
  BY <1>1, <1>3, <1>4, <1>13 DEF FrameMain
<1>17. at >= 0 /\ at < Len(frame)
  BY <1>8, <1>9, <1>14
<1> QED
  BY <1>1, <1>7, <1>15, <1>16, <1>17

\* The LEDs of a subdevice without a map come in their order.
LEMMA SubdeviceFrameShows ==
  ASSUME DeviceOK(dev), ZonesOK, NEW list \in ColorList,
         Len(zones) = Len(Built), \A i \in 1..Len(zones) : Follows(zones[i], Built[i]),
         NEW s \in 1..Len(dev.subdevices),
         dev.subdevices[s].width = 1 \/ dev.subdevices[s].height = 1
  PROVE  LET sub == dev.subdevices[s]
             new == FrameSubdevice(sub, list)
         IN \A cell \in DOMAIN new.index :
              SubdeviceColor(new, cell) =
                ColorAt(list, StartIndex(zones, ZoneOf("subdevice", sub.name)) + new.index[cell])
<1>1. PICK sub, new : sub = dev.subdevices[s] /\ new = FrameSubdevice(sub, list)
  OBVIOUS
<1>2. sub \in Subdevices /\ SubdeviceOK(sub)
  BY <1>1, LenProperties DEF DeviceOK, Devices
<1>3. PICK count : count = SubdeviceLedCount(sub)
  OBVIOUS
<1>4. /\ count \in Nat /\ Len(sub.positions) \in Nat /\ Len(sub.positions) =< count
      /\ sub.width \in Nat /\ sub.height \in Nat /\ sub.name \in script.subdevices
  <2>1. /\ sub.names \in Nat /\ Len(sub.positions) \in Nat
        /\ sub.width \in Nat /\ sub.height \in Nat /\ sub.name \in script.subdevices
    BY <1>2, LenProperties DEF Subdevices, Positions
  <2> QED
    BY <1>3, <2>1 DEF SubdeviceLedCount, Larger
<1> SUFFICES ASSUME NEW cell \in DOMAIN new.index
             PROVE  SubdeviceColor(new, cell) =
                      ColorAt(list, StartIndex(zones, ZoneOf("subdevice", sub.name)) + new.index[cell])
  BY <1>1
<1>5. new.index = sub.index
  BY <1>1, <1>2, SubdeviceFramed
<1>6. PICK led : led = sub.index[cell]
  OBVIOUS
<1>7. led \in Nat /\ led < count
  <2>1. PICK held : held = Holders(sub.positions, cell)
    OBVIOUS
  <2>2. held \in SUBSET (1..Len(sub.positions))
    BY <2>1 DEF Holders
  <2>3. PICK n \in 1..Len(sub.positions) : cell = sub.positions[n]
    BY <1>2, <1>5 DEF SubdeviceOK
  <2>4. held # {}
    BY <2>1, <2>3 DEF Holders
  <2>5. Max(held) \in 1..Len(sub.positions)
    BY <1>4, <2>2, <2>4, MaxOfPlaces
  <2>6. led + 1 = Max(held)
    BY <1>2, <1>5, <1>6, <2>1 DEF SubdeviceOK
  <2>7. led \in Nat
    <3>1. sub.index \in Indexes
      BY <1>2 DEF Subdevices
    <3> QED
      BY <1>5, <1>6, <3>1 DEF Indexes
  <2> QED
    BY <1>4, <2>5, <2>6, <2>7
<1>8. PICK m : m = ZoneOf("subdevice", sub.name)
  OBVIOUS
<1>9. /\ HasZone("subdevice", sub.name) /\ m \in 1..Len(zones)
      /\ zones[m].kind = "subdevice" /\ zones[m].key = sub.name
  <2>1. \E i \in 1..Len(Built) : Built[i].kind = "subdevice" /\ Built[i].key = sub.name
    BY <1>1, <1>3, <1>4, <1>7, ZonesBuilt
  <2>2. HasZone("subdevice", sub.name)
    BY <2>1 DEF HasZone, Follows
  <2> QED
    BY <1>8, <2>2, ZoneChosen
<1>10. zones[m].map = <<>> /\ zones[m].count = count
  <2>1. /\ Built[m].kind = "subdevice" /\ Built[m].key = sub.name
        /\ zones[m].map = Built[m].map /\ zones[m].max = Built[m].max
    BY <1>9 DEF Follows
  <2>2. PICK t \in 1..Len(dev.subdevices) : ShowsSubdevice(Built[m], dev.subdevices[t])
    BY <1>9, <2>1, ZonesBuilt
  <2>3. t = s
    BY <1>1, <2>1, <2>2 DEF DeviceOK, NamesDiffer, ShowsSubdevice
  <2>4. /\ Built[m].max = count
        /\ Built[m].map = BuildMatrixMap(sub.width, sub.height, count, sub.positions)
    BY <1>1, <1>3, <2>2, <2>3 DEF ShowsSubdevice
  <2>5. BuildMatrixMap(sub.width, sub.height, count, sub.positions) = <<>>
    BY <1>1, <1>4 DEF BuildMatrixMap
  <2>6. zones[m].count = zones[m].max
    BY <1>9 DEF ZonesOK, ZoneOK
  <2> QED
    BY <2>1, <2>4, <2>5, <2>6
<1>11. PICK frame, start : frame = BuildFrameColors(zones, list, m) /\ start = StartIndex(zones, m)
  OBVIOUS
<1>12. /\ frame \in ColorList /\ Len(frame) = count /\ start \in Nat
       /\ \A n \in 1..count : frame[n] = ColorAt(list, start + n - 1)
  BY <1>9, <1>10, <1>11, FrameOfZone, ZoneCounts
<1>13. led + 1 \in 1..count /\ start + (led + 1) - 1 = start + led
  BY <1>4, <1>7, <1>12
<1>14. frame[led + 1] = ColorAt(list, start + led)
  BY <1>12, <1>13
<1>15. new.colors = ResizeFrameColors(frame, count)
  BY <1>1, <1>2, <1>3, <1>8, <1>9, <1>11, SubdeviceFramed
<1>16. Len(new.colors) = count /\ new.colors[led + 1] = frame[led + 1]
  <2>1. frame \in ColorList /\ count \in Nat
    BY <1>4, <1>12
  <2>2. /\ Len(ResizeFrameColors(frame, count)) = count
        /\ \A i \in 1..count : i =< Len(frame) => ResizeFrameColors(frame, count)[i] = frame[i]
    BY <2>1, ResizedColors
  <2>3. led + 1 \in 1..count /\ led + 1 =< Len(frame)
    BY <1>4, <1>7, <1>12
  <2> QED
    BY <1>15, <2>2, <2>3
<1>17. SubdeviceColor(new, cell) = new.colors[led + 1]
  BY <1>5, <1>6, <1>7, <1>16 DEF SubdeviceColor
<1> QED
  BY <1>5, <1>6, <1>8, <1>11, <1>14, <1>16, <1>17

\* Zones that follow others still follow them with the zones of other channels in the
\* place of theirs.
LEMMA ZonesFollow ==
  ASSUME NEW a \in Seq(Zones), NEW one \in Seq(Zones), NEW two \in Seq(Zones), NEW c \in Seq(Zones),
         Len(one) = Len(two), \A i \in 1..Len(one) : Follows(one[i], two[i])
  PROVE  /\ a \o one \o c \in Seq(Zones) /\ a \o two \o c \in Seq(Zones)
         /\ Len(a \o one \o c) = Len(a \o two \o c)
         /\ \A k \in 1..Len(a \o one \o c) : Follows((a \o one \o c)[k], (a \o two \o c)[k])
<1>1. PICK this, that : this = a \o one \o c /\ that = a \o two \o c
  OBVIOUS
<1>2. this \in Seq(Zones) /\ IsJoined(this, a, one, c)
  BY <1>1, JoinedLists
<1>3. that \in Seq(Zones) /\ IsJoined(that, a, two, c)
  BY <1>1, JoinedLists
<1>4. ASSUME NEW k \in 1..Len(this) PROVE Follows(this[k], that[k])
  <2>1. CASE ~(k <= Len(a)) /\ k <= Len(a) + Len(one)
    <3>1. k - Len(a) \in 1..Len(one)
      BY <1>2, <2>1 DEF IsJoined
    <3>2. this[k] = one[k - Len(a)] /\ that[k] = two[k - Len(a)]
      BY <1>2, <1>3, <2>1 DEF IsJoined
    <3> QED
      BY <3>1, <3>2
  <2>2. CASE k <= Len(a) \/ ~(k <= Len(a) + Len(one))
    <3>1. this[k] = that[k]
      BY <1>2, <1>3, <2>2 DEF IsJoined
    <3> QED
      BY <3>1 DEF Follows
  <2> QED
    BY <2>1, <2>2
<1> QED
  BY <1>1, <1>2, <1>3, <1>4 DEF IsJoined

\* What is built of another topology that differs from this only in the LEDs of its
\* channels.
LEMMA SameLayout ==
  ASSUME DeviceOK(dev), NEW topology, topology.main = Topology.main,
         topology.subdevices = Topology.subdevices,
         NEW shown \in [1..Len(dev.channels) -> [name : script.channels, count : Nat, limit : Nat]],
         topology.channels = shown,
         \A i \in 1..Len(dev.channels) :
           /\ shown[i].name = dev.channels[i].name
           /\ api = 4 \/ Larger(1, Larger(shown[i].count, shown[i].limit))
                           = Larger(1, Larger(dev.channels[i].count, dev.channels[i].limit))
  PROVE  LET new == BuildOpenRgbTopology(topology)
         IN Len(new) = Len(Built) /\ \A k \in 1..Len(Built) : Follows(Built[k], new[k])
<1>1. PICK first, one, two, subs :
        /\ first = MainZones(Topology) /\ subs = SubdeviceZones(Topology)
        /\ one = ChannelZones(Topology) /\ two = ChannelZones(topology)
  OBVIOUS
<1>2. PICK n : n = Len(dev.channels)
  OBVIOUS
<1>3. n \in Nat
  BY <1>2, LenProperties DEF DeviceOK, Devices
<1>4. Len(topology.channels) = n /\ (topology.channels = <<>> <=> n = 0)
  <2> DEFINE S == [name : script.channels, count : Nat, limit : Nat]
  <2>1. shown \in [1..n -> S]
    BY <1>2
  <2> HIDE DEF S
  <2>2. shown \in Seq(S) /\ Len(shown) = n
    BY <1>3, <2>1, SeqDef, LenProperties
  <2>3. shown # <<>> => n # 0
    BY <2>2, EmptySeq
  <2>4. shown = <<>> => n = 0
    BY <2>2, EmptySeq
  <2> QED
    BY <2>2, <2>3, <2>4
<1>5. Len(Topology.channels) = n /\ (Topology.channels = <<>> <=> n = 0)
  <2>1. PICK list : list = Topology.channels
    OBVIOUS
  <2>2. list = [i \in 1..n |-> [name |-> dev.channels[i].name, count |-> dev.channels[i].count,
                                limit |-> dev.channels[i].limit]]
    BY <1>2, <2>1, TopologyFields
  <2>3. PICK S : S = {list[i] : i \in 1..n}
    OBVIOUS
  <2>4. list = [i \in 1..n |-> list[i]] /\ \A i \in 1..n : list[i] \in S
    BY <2>2, <2>3
  <2>5. list \in Seq(S) /\ Len(list) = n
    BY <1>3, <2>4, ListByPlaces
  <2>6. list # <<>> => n # 0
    BY <2>5, EmptySeq
  <2>7. list = <<>> => n = 0
    BY <2>5, EmptySeq
  <2> QED
    BY <2>1, <2>5, <2>6, <2>7
<1>6. MainZones(topology) = first /\ SubdeviceZones(topology) = subs
  BY <1>1, <1>4, <1>5 DEF MainZones, HasDynamicOutputs, SubdeviceZones
<1>7. /\ first \in Seq(Zones) /\ subs \in Seq(Zones)
  <2>1. subs \in Seq(Zones)
    BY <1>1, SubdevicesBuilt
  <2>2. PICK main : main = MainZone(Topology.main)
    OBVIOUS
  <2>3. main \in Zones
    BY <2>2, MainBuilt
  <2>4. first = <<main>> \/ first = <<>>
    BY <1>1, <2>2 DEF MainZones
  <2>5. <<main>> \in Seq(Zones) /\ <<>> \in Seq(Zones)
    BY <2>3, EmptySeq
  <2> QED
    BY <2>1, <2>4, <2>5
<1>8. /\ one \in Seq(Zones) /\ Len(one) = n
      /\ \A i \in 1..n : one[i] = ChannelZone([name |-> dev.channels[i].name,
                                               count |-> dev.channels[i].count,
                                               limit |-> dev.channels[i].limit])
  BY <1>1, <1>2, ChannelsBuilt
<1>9. two = [i \in 1..n |-> ChannelZone(shown[i])]
  BY <1>1, <1>4 DEF ChannelZones
<1>10. ASSUME NEW i \in 1..n PROVE two[i] \in Zones /\ Follows(one[i], two[i])
  <2>1. PICK most, other, none :
          /\ most = Larger(1, Larger(shown[i].count, shown[i].limit)) /\ none = <<>>
          /\ other = Larger(1, Larger(dev.channels[i].count, dev.channels[i].limit))
    OBVIOUS
  <2>2. shown[i] \in [name : script.channels, count : Nat, limit : Nat]
    BY <1>2
  <2>3. /\ two[i] = [kind |-> "channel", key |-> shown[i].name, width |-> most, height |-> 1,
                     count |-> most, min |-> 0, max |-> most, map |-> none]
    BY <1>9, <2>1 DEF ChannelZone, Zone
  <2>4. /\ one[i] = [kind |-> "channel", key |-> dev.channels[i].name, width |-> other,
                     height |-> 1, count |-> other, min |-> 0, max |-> other, map |-> none]
    BY <1>8, <2>1 DEF ChannelZone, Zone
  <2>5. most \in Nat \ {0} /\ none \in Seq(Int) /\ shown[i].name \in script.channels
    BY <2>1, <2>2, EmptySeq DEF Larger
  <2>6. two[i] \in Zones
    BY <2>3, <2>5 DEF Zones
  <2>7. /\ two[i].kind = "channel" /\ two[i].key = shown[i].name /\ two[i].map = none
        /\ two[i].width = most /\ two[i].max = most
    BY <2>3
  <2>8. /\ one[i].kind = "channel" /\ one[i].key = dev.channels[i].name /\ one[i].map = none
        /\ one[i].width = other /\ one[i].max = other
    BY <2>4
  <2>9. shown[i].name = dev.channels[i].name /\ (api = 4 \/ most = other)
    BY <1>2, <2>1
  <2> QED
    BY <2>6, <2>7, <2>8, <2>9 DEF Follows
<1>11. two \in Seq(Zones) /\ Len(two) = n
  <2>1. two = [i \in 1..n |-> two[i]]
    BY <1>9
  <2> QED
    BY <1>3, <1>10, <2>1, ListByPlaces
<1>12. PICK this, that : this = first \o one \o subs /\ that = first \o two \o subs
  OBVIOUS
<1>13. /\ this \in Seq(Zones) /\ that \in Seq(Zones) /\ Len(this) = Len(that)
       /\ \A k \in 1..Len(this) : Follows(this[k], that[k])
  <2>1. Len(one) = Len(two) /\ \A i \in 1..Len(one) : Follows(one[i], two[i])
    BY <1>8, <1>10, <1>11
  <2>2. one \in Seq(Zones) /\ two \in Seq(Zones)
    BY <1>8, <1>11
  <2> QED
    <3>1. /\ first \o one \o subs \in Seq(Zones) /\ first \o two \o subs \in Seq(Zones)
          /\ Len(first \o one \o subs) = Len(first \o two \o subs)
          /\ \A k \in 1..Len(first \o one \o subs) :
               Follows((first \o one \o subs)[k], (first \o two \o subs)[k])
      BY <1>7, <2>1, <2>2, ZonesFollow
    <3> QED
      BY <1>12, <3>1
<1>14. PICK new : new = BuildOpenRgbTopology(topology)
  OBVIOUS
<1>15. /\ Built = IF this = <<>> THEN <<FallbackZone>> ELSE this
       /\ new = IF that = <<>> THEN <<FallbackZone>> ELSE that
  BY <1>1, <1>6, <1>12, <1>14 DEF Built, BuildOpenRgbTopology
<1>16. this = <<>> <=> that = <<>>
  <2>1. (this = <<>> <=> Len(this) = 0) /\ (that = <<>> <=> Len(that) = 0)
    BY <1>13, EmptySeq
  <2> QED
    BY <1>13, <2>1
<1>17. CASE this = <<>>
  <2>1. Built = new
    BY <1>15, <1>16, <1>17
  <2> QED
    BY <1>14, <2>1 DEF Follows
<1>18. CASE this # <<>>
  <2>1. Built = this /\ new = that
    BY <1>15, <1>16, <1>18
  <2> QED
    BY <1>13, <1>14, <2>1
<1> QED
  BY <1>17, <1>18

\* The device with new frames is the same device but for the LEDs of its channels.
LEMMA DeviceFramed ==
  ASSUME DeviceOK(dev), ZonesOK, NEW list \in ColorList, UNCHANGED setting,
         dev' = [dev EXCEPT
           !.frame = FrameMain(list),
           !.channels = [i \in 1..Len(dev.channels) |-> FrameChannel(dev.channels[i], list)],
           !.subdevices = [i \in 1..Len(dev.subdevices) |->
                             FrameSubdevice(dev.subdevices[i], list)]]
  PROVE  /\ DeviceOK(dev)'
         /\ dev'.width = dev.width /\ dev'.height = dev.height /\ dev'.dirty = dev.dirty
         /\ dev'.positions = dev.positions /\ dev'.count = dev.count
         /\ dev'.frame = FrameMain(list)
         /\ dev'.channels = [i \in 1..Len(dev.channels) |-> FrameChannel(dev.channels[i], list)]
         /\ dev'.subdevices = [i \in 1..Len(dev.subdevices) |->
                                 FrameSubdevice(dev.subdevices[i], list)]
<1>1. PICK frame, channels, subs :
        /\ frame = FrameMain(list)
        /\ channels = [i \in 1..Len(dev.channels) |-> FrameChannel(dev.channels[i], list)]
        /\ subs = [i \in 1..Len(dev.subdevices) |-> FrameSubdevice(dev.subdevices[i], list)]
  OBVIOUS
<1>2. /\ dev \in Devices /\ dev.channels \in Seq(Channels) /\ dev.subdevices \in Seq(Subdevices)
      /\ NamesDiffer(dev.channels) /\ NamesDiffer(dev.subdevices)
  BY DEF DeviceOK, Devices
<1>3. /\ \A i \in 1..Len(dev.channels) : dev.channels[i] \in Channels
      /\ \A i \in 1..Len(dev.subdevices) :
           dev.subdevices[i] \in Subdevices /\ SubdeviceOK(dev.subdevices[i])
  BY <1>2, LenProperties DEF DeviceOK
<1>4. frame \in [width : Nat \ {0}, colors : ColorList]
  BY <1>1, MainFramed
<1>5. channels \in Seq(Channels) /\ NamesDiffer(channels)
      /\ \A i \in 1..Len(channels) : ChannelOK(channels[i])
  <2>1. \A i \in 1..Len(dev.channels) :
          /\ channels[i] \in Channels /\ ChannelOK(channels[i])
          /\ channels[i].name = dev.channels[i].name
    BY <1>1, <1>3, ChannelFramed
  <2>2. channels \in [1..Len(dev.channels) -> Channels]
    BY <1>1, <2>1
  <2>3. channels \in Seq(Channels) /\ Len(channels) = Len(dev.channels) /\ NamesDiffer(channels)
    BY <1>2, <2>1, <2>2, ItemsReplaced
  <2> QED
    BY <2>1, <2>3
<1>6. subs \in Seq(Subdevices) /\ NamesDiffer(subs)
      /\ \A i \in 1..Len(subs) : SubdeviceOK(subs[i])
  <2>1. \A i \in 1..Len(dev.subdevices) :
          /\ subs[i] \in Subdevices /\ SubdeviceOK(subs[i])
          /\ subs[i].name = dev.subdevices[i].name
    BY <1>1, <1>3, SubdeviceFramed
  <2>2. subs \in [1..Len(dev.subdevices) -> Subdevices]
    BY <1>1, <2>1
  <2>3. subs \in Seq(Subdevices) /\ Len(subs) = Len(dev.subdevices) /\ NamesDiffer(subs)
    BY <1>2, <2>1, <2>2, ItemsReplaced
  <2> QED
    BY <2>1, <2>3
<1>7. PICK one : one = [dev EXCEPT !.frame = frame]
  OBVIOUS
<1>8. PICK two : two = [one EXCEPT !.channels = channels]
  OBVIOUS
<1>9. PICK new : new = [two EXCEPT !.subdevices = subs]
  OBVIOUS
<1>10. dev' = new
  BY <1>1, <1>7, <1>8, <1>9
<1>11. /\ one \in Devices /\ one.frame = frame /\ one.width = dev.width
       /\ one.height = dev.height /\ one.dirty = dev.dirty /\ one.positions = dev.positions
       /\ one.count = dev.count
  BY <1>2, <1>4, <1>7 DEF Devices
<1>12. /\ two \in Devices /\ two.frame = frame /\ two.width = dev.width
       /\ two.height = dev.height /\ two.dirty = dev.dirty /\ two.positions = dev.positions
       /\ two.count = dev.count /\ two.channels = channels
  BY <1>5, <1>8, <1>11 DEF Devices
<1>13. /\ new \in Devices /\ new.frame = frame /\ new.width = dev.width
       /\ new.height = dev.height /\ new.dirty = dev.dirty /\ new.positions = dev.positions
       /\ new.count = dev.count /\ new.channels = channels /\ new.subdevices = subs
  BY <1>6, <1>9, <1>12 DEF Devices
<1>14. DeviceOK(new)
  BY <1>5, <1>6, <1>13 DEF DeviceOK
<1>15. DeviceOK(dev)'
  BY <1>10, <1>14 DEF DeviceOK, Devices, Channels, Subdevices, setting
<1> QED
  BY <1>1, <1>10, <1>13, <1>15

\* No frame changes what a rebuild would give.
LEMMA FramesKeepLayout ==
  ASSUME IInv, BuildFrames
  PROVE  DeviceOK(dev)' /\ ZonesOK' /\ LayoutOK' /\ FramesOK' /\ colors' \in ColorList
<1>1. PICK copied \in IF api = 4 THEN {TotalLeds(zones)} ELSE 0..TotalLeds(zones) :
        /\ colors' = Snapshot(copied)
        /\ dev' = [dev EXCEPT
             !.frame = FrameMain(Snapshot(copied)),
             !.channels = [i \in 1..Len(dev.channels) |->
                             FrameChannel(dev.channels[i], Snapshot(copied))],
             !.subdevices = [i \in 1..Len(dev.subdevices) |->
                               FrameSubdevice(dev.subdevices[i], Snapshot(copied))]]
  BY DEF BuildFrames
<1>2. /\ DeviceOK(dev) /\ ZonesOK /\ LayoutOK /\ api \in {4, 5} /\ phase = "frame"
      /\ phase' = "render" /\ zones' = zones /\ UNCHANGED setting
  BY ApisAssumption DEF IInv, TypesOK, BuildFrames
<1>3. PICK list : list = Snapshot(copied)
  OBVIOUS
<1>4. list \in ColorList
  <2>1. copied \in Int
    BY <1>2, ZoneCounts
  <2> QED
    BY <1>2, <1>3, <2>1, SnapshotTyped
<1>5. dev' = [dev EXCEPT
        !.frame = FrameMain(list),
        !.channels = [i \in 1..Len(dev.channels) |-> FrameChannel(dev.channels[i], list)],
        !.subdevices = [i \in 1..Len(dev.subdevices) |-> FrameSubdevice(dev.subdevices[i], list)]]
  BY <1>1, <1>3
<1>6. /\ DeviceOK(dev)'
      /\ dev'.width = dev.width /\ dev'.height = dev.height /\ dev'.dirty = dev.dirty
      /\ dev'.positions = dev.positions /\ dev'.count = dev.count
      /\ dev'.frame = FrameMain(list)
      /\ dev'.channels = [i \in 1..Len(dev.channels) |-> FrameChannel(dev.channels[i], list)]
      /\ dev'.subdevices = [i \in 1..Len(dev.subdevices) |->
                              FrameSubdevice(dev.subdevices[i], list)]
  BY <1>2, <1>4, <1>5, DeviceFramed
<1>7. ZonesOK'
  BY <1>2 DEF ZonesOK, Zones, ZoneOK, setting
<1>8. Len(dev.channels) \in Nat /\ Len(dev.subdevices) \in Nat
  BY <1>2, LenProperties DEF DeviceOK, Devices
<1>9. \A i \in 1..Len(dev.channels) : dev.channels[i] \in Channels /\ ChannelOK(dev.channels[i])
  BY <1>2, LenProperties DEF DeviceOK, Devices
<1>10. \A i \in 1..Len(dev.subdevices) :
         dev.subdevices[i] \in Subdevices /\ SubdeviceOK(dev.subdevices[i])
  BY <1>2, LenProperties DEF DeviceOK, Devices
<1>11. ASSUME ~dev.dirty
       PROVE  Len(zones) = Len(Built) /\ \A i \in 1..Len(zones) : Follows(zones[i], Built[i])
  BY <1>2, <1>11 DEF LayoutOK
<1>12. ASSUME ~dev.dirty
       PROVE  Len(Built') = Len(Built) /\ \A k \in 1..Len(Built) : Follows(Built[k], Built'[k])
  <2>1. PICK shown : shown = [i \in 1..Len(dev.channels) |->
                                [name |-> dev'.channels[i].name, count |-> dev'.channels[i].count,
                                 limit |-> dev'.channels[i].limit]]
    OBVIOUS
  <2>2. ASSUME NEW i \in 1..Len(dev.channels)
        PROVE  /\ shown[i] \in [name : script.channels, count : Nat, limit : Nat]
               /\ shown[i].name = dev.channels[i].name
               /\ api = 4 \/ Larger(1, Larger(shown[i].count, shown[i].limit))
                               = Larger(1, Larger(dev.channels[i].count, dev.channels[i].limit))
    <3>1. PICK channel, new : channel = dev.channels[i] /\ new = FrameChannel(channel, list)
      OBVIOUS
    <3>2. channel \in Channels /\ ChannelOK(channel)
      BY <1>9, <3>1
    <3>3. PICK m, length : /\ m = ZoneOf("channel", channel.name)
                           /\ length = IF HasZone("channel", channel.name) THEN zones[m].count ELSE 0
      OBVIOUS
    <3>4. /\ new \in Channels /\ new.name = channel.name /\ new.limit = channel.limit
          /\ new.count = IF channel.limit > 0 THEN Smaller(length, channel.limit) ELSE length
      BY <1>2, <1>4, <3>1, <3>2, <3>3, ChannelFramed
    <3>5. shown[i] = [name |-> new.name, count |-> new.count, limit |-> new.limit]
      BY <1>6, <2>1, <3>1
    <3>6. shown[i] \in [name : script.channels, count : Nat, limit : Nat]
      BY <3>4, <3>5 DEF Channels
    <3>7. CASE api = 5
      <4>1. HasZone("channel", channel.name) /\ m \in 1..Len(zones)
            /\ zones[m].kind = "channel" /\ zones[m].key = channel.name
        <5>1. \E k \in 1..Len(Built) : Built[k].kind = "channel" /\ Built[k].key = channel.name
          BY <1>2, <3>1, ZonesBuilt
        <5>2. HasZone("channel", channel.name)
          BY <1>11, <1>12, <5>1 DEF HasZone, Follows
        <5> QED
          BY <3>3, <5>2, ZoneChosen
      <4>2. /\ Built[m].kind = "channel" /\ Built[m].key = channel.name
            /\ zones[m].max = Built[m].max /\ m \in 1..Len(Built)
        BY <1>11, <1>12, <3>7, <4>1 DEF Follows
      <4>3. PICK c \in 1..Len(dev.channels) : ShowsChannel(Built[m], dev.channels[c])
        BY <1>2, <4>2, ZonesBuilt
      <4>4. c = i
        BY <1>2, <3>1, <4>2, <4>3 DEF DeviceOK, NamesDiffer, ShowsChannel
      <4>5. length = Larger(1, Larger(channel.count, channel.limit))
        BY <1>2, <3>1, <3>3, <3>7, <4>1, <4>2, <4>3, <4>4 DEF ShowsChannel, ZonesOK, ZoneOK
      <4>6. channel.count \in Nat /\ channel.limit \in Nat
            /\ (channel.limit > 0 => channel.count =< channel.limit)
        BY <3>2 DEF Channels, ChannelOK
      <4>7. Larger(1, Larger(new.count, new.limit)) = Larger(1, Larger(channel.count, channel.limit))
        BY <3>4, <4>5, <4>6 DEF Larger, Smaller
      <4>8. shown[i].count = new.count /\ shown[i].limit = new.limit /\ shown[i].name = new.name
        BY <3>5
      <4> QED
        BY <3>1, <3>4, <3>6, <4>7, <4>8
    <3>8. CASE api = 4
      <4>1. shown[i].name = new.name
        BY <3>5
      <4> QED
        BY <3>1, <3>4, <3>6, <3>8, <4>1
    <3> QED
      BY <1>2, <3>7, <3>8
  <2>3. shown \in [1..Len(dev.channels) -> [name : script.channels, count : Nat, limit : Nat]]
    BY <2>1, <2>2
  <2>4. PICK topology : topology = Topology'
    OBVIOUS
  <2>5. /\ topology.main = [width |-> dev'.width, height |-> dev'.height,
                            count |-> CurrentMainLedCount', canvas |-> dev'.width * dev'.height,
                            positions |-> dev'.positions]
        /\ topology.channels = [i \in 1..Len(dev'.channels) |->
             [name |-> dev'.channels[i].name, count |-> dev'.channels[i].count,
              limit |-> dev'.channels[i].limit]]
        /\ topology.subdevices = [i \in 1..Len(dev'.subdevices) |->
             LET sub == dev'.subdevices[i]
             IN [name |-> sub.name, width |-> sub.width, height |-> sub.height,
                 count |-> SubdeviceLedCount(sub), positions |-> sub.positions]]
    BY <2>4 DEF Topology
  <2>6. topology.main = Topology.main
    <3>1. CurrentMainLedCount' = CurrentMainLedCount
      BY <1>6 DEF CurrentMainLedCount
    <3> QED
      BY <1>6, <2>5, <3>1, TopologyFields
  <2>7. topology.channels = shown
    <3>1. Len(dev'.channels) = Len(dev.channels)
      BY <1>6, <1>8
    <3> QED
      BY <2>1, <2>5, <3>1
  <2>8. topology.subdevices = Topology.subdevices
    <3>1. Len(dev'.subdevices) = Len(dev.subdevices)
      BY <1>6, <1>8
    <3>2. ASSUME NEW i \in 1..Len(dev.subdevices)
          PROVE  LET new == dev'.subdevices[i]
                     sub == dev.subdevices[i]
                 IN /\ new.name = sub.name /\ new.width = sub.width /\ new.height = sub.height
                    /\ SubdeviceLedCount(new) = SubdeviceLedCount(sub)
                    /\ new.positions = sub.positions
      <4>1. dev'.subdevices[i] = FrameSubdevice(dev.subdevices[i], list)
        BY <1>6
      <4>2. LET new == dev'.subdevices[i]
                sub == dev.subdevices[i]
            IN /\ new.name = sub.name /\ new.width = sub.width /\ new.height = sub.height
               /\ new.names = sub.names /\ new.positions = sub.positions
        BY <1>2, <1>4, <1>10, <4>1, SubdeviceFramed
      <4> QED
        BY <4>2 DEF SubdeviceLedCount
    <3> QED
      BY <2>5, <3>1, <3>2, TopologyFields
  <2>9. PICK new : new = BuildOpenRgbTopology(topology)
    OBVIOUS
  <2>10. Len(new) = Len(Built) /\ \A k \in 1..Len(Built) : Follows(Built[k], new[k])
    BY <1>2, <2>2, <2>3, <2>6, <2>7, <2>8, <2>9, SameLayout
  <2>11. Built' = new
    BY <2>4, <2>9 DEF Built
  <2> QED
    BY <2>10, <2>11
<1>13. LayoutOK'
  <2>1. ASSUME ~dev.dirty
        PROVE  Len(zones) = Len(Built') /\ \A i \in 1..Len(zones) : Follows(zones[i], Built'[i])
    <3>1. Len(zones) = Len(Built) /\ \A i \in 1..Len(zones) : Follows(zones[i], Built[i])
      BY <1>11, <2>1
    <3>2. Len(Built') = Len(Built) /\ \A k \in 1..Len(Built) : Follows(Built[k], Built'[k])
      BY <1>12, <2>1
    <3> QED
      BY <3>1, <3>2 DEF Follows
  <2>2. PICK new : new = Built'
    OBVIOUS
  <2>3. ~dev.dirty => Len(zones) = Len(new) /\ \A i \in 1..Len(zones) : Follows(zones[i], new[i])
    BY <2>1, <2>2
  <2> QED
    BY <1>2, <1>6, <2>2, <2>3 DEF LayoutOK, Follows, setting
<1>14. MainMatrixShowsLeds'
  <2>1. ASSUME ~dev.dirty, dev.positions # <<>>, dev.width > 1, dev.height > 1,
               NEW x \in 0..dev.width - 1, NEW y \in 0..dev.height - 1
        PROVE  LET frame == FrameMain(list)
                   at == y * frame.width + x
                   held == Holders(dev.positions, <<x, y>>)
                   start == StartIndex(zones, ZoneOf("main", "main"))
               IN (IF at >= 0 /\ at < Len(frame.colors) THEN frame.colors[at + 1] ELSE Black)
                    = IF held = {} THEN Black ELSE ColorAt(list, start + Max(held) - 1)
    BY <1>2, <1>4, <1>11, <2>1, MainFrameShows
  <2>2. ZoneOf("main", "main")' = ZoneOf("main", "main")
    BY <1>2 DEF ZoneOf
  <2>3. StartIndex(zones, ZoneOf("main", "main"))' = StartIndex(zones, ZoneOf("main", "main"))
    BY <1>2, <2>2
  <2>4. colors' = list
    BY <1>1, <1>3
  <2>5. ASSUME FreshFrame', dev'.positions # <<>>, dev'.width > 1, dev'.height > 1,
               NEW x \in 0..dev'.width - 1, NEW y \in 0..dev'.height - 1
        PROVE  LET held == Holders(dev'.positions, <<x, y>>)
                   start == StartIndex(zones, ZoneOf("main", "main"))'
               IN DeviceColor(x, y)' =
                    IF held = {} THEN Black ELSE ColorAt(colors', start + Max(held) - 1)
    <3>1. ~dev.dirty /\ dev.positions # <<>> /\ dev.width > 1 /\ dev.height > 1
      BY <1>6, <2>5 DEF FreshFrame
    <3>2. x \in 0..dev.width - 1 /\ y \in 0..dev.height - 1
      BY <1>6, <2>5
    <3>3. PICK frame, at, held, start :
            /\ frame = FrameMain(list) /\ at = y * frame.width + x
            /\ held = Holders(dev.positions, <<x, y>>)
            /\ start = StartIndex(zones, ZoneOf("main", "main"))
      OBVIOUS
    <3>4. (IF at >= 0 /\ at < Len(frame.colors) THEN frame.colors[at + 1] ELSE Black)
            = IF held = {} THEN Black ELSE ColorAt(list, start + Max(held) - 1)
      BY <2>1, <3>1, <3>2, <3>3
    <3>5. DeviceColor(x, y)' =
            IF at >= 0 /\ at < Len(frame.colors) THEN frame.colors[at + 1] ELSE Black
      BY <1>6, <3>3 DEF DeviceColor
    <3> QED
      BY <1>6, <2>3, <2>4, <3>3, <3>4, <3>5
  <2> QED
    BY <2>5 DEF MainMatrixShowsLeds
<1>15. SubdeviceRowsShowLeds'
  <2>1. ASSUME ~dev.dirty, NEW i \in 1..Len(dev.subdevices),
               dev'.subdevices[i].width = 1 \/ dev'.subdevices[i].height = 1
        PROVE  LET new == dev'.subdevices[i]
               IN \A cell \in DOMAIN new.index :
                    SubdeviceColor(new, cell) =
                      ColorAt(list, StartIndex(zones, ZoneOf("subdevice", new.name)) + new.index[cell])
    <3>1. PICK sub, new : sub = dev.subdevices[i] /\ new = dev'.subdevices[i]
      OBVIOUS
    <3>2. new = FrameSubdevice(sub, list)
      BY <1>6, <3>1
    <3>3. new.name = sub.name /\ new.width = sub.width /\ new.height = sub.height
      BY <1>2, <1>4, <1>10, <3>1, <3>2, SubdeviceFramed
    <3>4. sub.width = 1 \/ sub.height = 1
      BY <2>1, <3>1, <3>3
    <3>5. \A cell \in DOMAIN new.index :
            SubdeviceColor(new, cell) =
              ColorAt(list, StartIndex(zones, ZoneOf("subdevice", sub.name)) + new.index[cell])
      BY <1>2, <1>4, <1>11, <2>1, <3>1, <3>2, <3>4, SubdeviceFrameShows
    <3> QED
      BY <3>1, <3>3, <3>5
  <2>2. Len(dev'.subdevices) = Len(dev.subdevices)
    BY <1>6, <1>8
  <2>3. \A key : ZoneOf("subdevice", key)' = ZoneOf("subdevice", key)
    BY <1>2 DEF ZoneOf
  <2>4. colors' = list
    BY <1>1, <1>3
  <2>5. ASSUME FreshFrame', NEW i \in 1..Len(dev'.subdevices),
               dev'.subdevices[i].width = 1 \/ dev'.subdevices[i].height = 1
        PROVE  ShowsLeds(dev.subdevices[i])'
    <3>1. ~dev.dirty /\ i \in 1..Len(dev.subdevices)
      BY <1>6, <2>2, <2>5 DEF FreshFrame
    <3>2. PICK new : new = dev'.subdevices[i]
      OBVIOUS
    <3>3. PICK start : start = StartIndex(zones, ZoneOf("subdevice", new.name))
      OBVIOUS
    <3>4. \A cell \in DOMAIN new.index :
            SubdeviceColor(new, cell) = ColorAt(list, start + new.index[cell])
      BY <2>1, <2>5, <3>1, <3>2, <3>3
    <3>5. StartIndex(zones', ZoneOf("subdevice", new.name)') = start
      BY <1>2, <2>3, <3>3
    <3> QED
      BY <2>4, <3>2, <3>4, <3>5 DEF ShowsLeds
  <2> QED
    BY <2>5 DEF SubdeviceRowsShowLeds
<1> QED
  BY <1>1, <1>3, <1>4, <1>6, <1>7, <1>13, <1>14, <1>15 DEF FramesOK

\* OpenRGB can only give a channel's zone another size.
LEMMA ResizeKeeps ==
  ASSUME IInv, ResizeZone
  PROVE  DeviceOK(dev)' /\ ZonesOK' /\ LayoutOK'
<1>1. /\ DeviceOK(dev) /\ ZonesOK /\ LayoutOK /\ api = 4 /\ UNCHANGED <<setting, phase, dev>>
  BY DEF IInv, ResizeZone
<1>2. PICK i \in 1..Len(zones) : \E size \in zones[i].min..zones[i].max :
        size # zones[i].count /\ zones' = [zones EXCEPT ![i].count = size]
  BY DEF ResizeZone
<1>3. PICK size \in zones[i].min..zones[i].max :
        size # zones[i].count /\ zones' = [zones EXCEPT ![i].count = size]
  BY <1>2
<1>4. PICK old, new : old = zones[i] /\ new = [old EXCEPT !.count = size]
  OBVIOUS
<1>5. old \in Zones /\ ZoneOK(old) /\ zones \in Seq(Zones) /\ Len(zones) \in Nat
  BY <1>1, <1>4, LenProperties DEF ZonesOK
<1>6. size \in Nat
  <2>1. old.min \in Nat /\ old.max \in Nat
    BY <1>5 DEF Zones
  <2>2. size \in old.min..old.max
    BY <1>3, <1>4
  <2> QED
    BY <2>1, <2>2
<1>7. /\ new \in Zones /\ new.kind = old.kind /\ new.key = old.key /\ new.map = old.map
      /\ new.width = old.width /\ new.max = old.max
  BY <1>4, <1>5, <1>6 DEF Zones
<1>8. old.kind = "channel" /\ old.map = <<>>
  <2>1. old.min \in Nat /\ old.max \in Nat
    BY <1>5 DEF Zones
  <2> QED
    BY <1>3, <1>4, <1>5, <2>1 DEF ZoneOK
<1>9. ZoneOK(new)
  BY <1>1, <1>7, <1>8 DEF ZoneOK
<1>10. zones' = [zones EXCEPT ![i] = new]
  BY <1>3, <1>4, <1>5
<1>11. /\ zones' \in Seq(Zones) /\ Len(zones') = Len(zones)
       /\ \A j \in 1..Len(zones) : zones'[j] = IF j = i THEN new ELSE zones[j]
  <2>1. PICK now : now = [zones EXCEPT ![i] = new]
    OBVIOUS
  <2>2. zones \in Seq(Zones) /\ new \in Zones
    BY <1>5, <1>7
  <2>3. now \in Seq(Zones) /\ Len(now) = Len(zones)
    BY <2>1, <2>2, ExceptSeq
  <2>4. \A j \in 1..Len(zones) : now[j] = IF j = i THEN new ELSE zones[j]
    BY <2>1, <2>2, LenProperties
  <2> QED
    BY <1>10, <2>1, <2>3, <2>4
<1>12. DeviceOK(dev)'
  BY <1>1 DEF DeviceOK, Devices, Channels, Subdevices, setting
<1>13. ZonesOK'
  <2>1. Zones' = Zones
    BY <1>1 DEF Zones, setting
  <2>2. \A j \in 1..Len(zones') : ZoneOK(zones'[j])
    BY <1>1, <1>9, <1>11 DEF ZonesOK
  <2>3. (\A j \in 1..Len(zones) : ZoneOK(zones[j]))'
    BY <1>1, <2>2 DEF ZoneOK, setting
  <2> QED
    BY <1>11, <2>1, <2>3 DEF ZonesOK
<1>14. LayoutOK'
  <2>1. Built' = Built
    BY <1>1 DEF Built, Topology, CurrentMainLedCount
  <2>2. ASSUME phase # "initialize", ~dev.dirty
        PROVE  /\ Len(zones') = Len(Built)
               /\ \A j \in 1..Len(zones') : Follows(zones'[j], Built[j])
    <3>1. Len(zones) = Len(Built) /\ \A j \in 1..Len(zones) : Follows(zones[j], Built[j])
      BY <1>1, <2>2 DEF LayoutOK
    <3>2. Follows(new, Built[i])
      BY <1>1, <1>4, <1>7, <1>8, <3>1 DEF Follows
    <3> QED
      BY <1>11, <3>1, <3>2
  <2>3. PICK now, built : now = zones' /\ built = Built
    OBVIOUS
  <2>4. phase # "initialize" /\ ~dev.dirty =>
          Len(now) = Len(built) /\ \A j \in 1..Len(now) : Follows(now[j], built[j])
    BY <2>2, <2>3
  <2> QED
    BY <1>1, <2>1, <2>3, <2>4 DEF LayoutOK, Follows, setting
<1> QED
  BY <1>12, <1>13, <1>14

\* The device that the metadata describes is a device.
LEMMA DeviceStarts ==
  ASSUME Init PROVE IInv
<1>1. PICK w, h, count, none, frame :
        /\ w = Larger(1, Meta.width) /\ h = Larger(1, Meta.height) /\ none = <<>>
        /\ count = Larger(Meta.names, Len(Meta.positions))
        /\ frame = [width |-> 1, colors |-> none]
  OBVIOUS
<1>2. /\ w \in Nat \ {0} /\ h \in Nat \ {0} /\ count \in Nat
      /\ Meta.names \in Nat /\ Meta.positions \in Positions
  <2>1. /\ Meta.width \in Nat /\ Meta.height \in Nat /\ Meta.names \in Nat
        /\ Meta.positions \in Seq(Int \X Int)
    BY MetaAssumption
  <2>2. Len(Meta.positions) \in Nat
    BY <2>1, LenProperties
  <2> QED
    BY <1>1, <2>1, <2>2 DEF Larger, Positions
<1>3. /\ none \in ColorList /\ none \in Seq(Channels) /\ none \in Seq(Subdevices)
      /\ none \in Seq(Zones) /\ Len(none) = 0
  BY <1>1, EmptySeq DEF ColorList
<1>4. frame \in [width : Nat \ {0}, colors : ColorList]
  BY <1>1, <1>3
<1>5. dev = [width |-> w, height |-> h, names |-> Meta.names, positions |-> Meta.positions,
             count |-> count, frame |-> frame, channels |-> none, subdevices |-> none,
             dirty |-> TRUE]
  BY <1>1 DEF Init
<1>6. dev \in Devices /\ dev.channels = none /\ dev.subdevices = none /\ dev.dirty
  BY <1>2, <1>3, <1>4, <1>5 DEF Devices
<1>7. DeviceOK(dev)
  BY <1>3, <1>6 DEF DeviceOK, NamesDiffer
<1>8. /\ api \in Apis /\ script \in Scripts /\ phase = "initialize" /\ calls = 0
      /\ zones = none /\ colors = none
  BY <1>1 DEF Init
<1>9. 0 \in 0..script.calls
  BY <1>8, ScriptsAssumption
<1>10. TypesOK /\ ZonesOK /\ LayoutOK
  BY <1>3, <1>6, <1>8, <1>9 DEF TypesOK, ZonesOK, LayoutOK
<1>11. FramesOK
  BY <1>8, NotFresh DEF FreshFrame
<1> QED
  BY <1>7, <1>10, <1>11 DEF IInv

\* Every step keeps what is known.
LEMMA StepKeeps ==
  ASSUME IInv, [Next]_vars
  PROVE  IInv'
<1>1. TypesOK /\ DeviceOK(dev) /\ ZonesOK /\ LayoutOK /\ FramesOK /\ ScriptOK
  BY ScriptGiven DEF IInv, TypesOK
<1>2. script.calls \in Nat /\ 0 \in 0..script.calls
  BY <1>1 DEF ScriptOK
<1>3. CASE HostCall
  <2>1. /\ DeviceOK(dev)' /\ (dev'.dirty \/ dev' = dev)
        /\ UNCHANGED <<setting, phase, zones, colors>>
    BY <1>1, <1>3, HostCallKeeps
  <2>2. phase \in {"initialize", "callback", "render"} /\ calls < script.calls /\ calls' = calls + 1
    BY <1>3 DEF HostCall, SetSize, SetControllableLeds, AddChannel, ChannelSetLedLimit,
                RemoveChannel, CreateSubdevice, SetSubdeviceSize, SetSubdeviceLeds,
                RemoveSubdevice, Call
  <2>3. TypesOK'
    BY <1>1, <1>2, <2>1, <2>2 DEF TypesOK, setting
  <2>4. FramesOK'
    <3>1. calls' # 0
      BY <1>1, <1>2, <2>2 DEF TypesOK
    <3>2. ~FreshFrame'
      BY <3>1 DEF FreshFrame
    <3> QED
      BY <3>2 DEF FramesOK, MainMatrixShowsLeds, SubdeviceRowsShowLeds
  <2>5. ZonesOK'
    BY <1>1, <2>1 DEF ZonesOK, Zones, ZoneOK, setting
  <2>6. LayoutOK'
    <3>1. CASE dev'.dirty
      BY <3>1 DEF LayoutOK
    <3>2. CASE dev' = dev
      BY <1>1, <2>1, <3>2, Untouched
    <3> QED
      BY <2>1, <3>1, <3>2
  <2> QED
    BY <2>1, <2>3, <2>4, <2>5, <2>6 DEF IInv
<1>4. CASE EndInitialize
  <2>1. /\ TakeTopology /\ UNCHANGED <<setting, colors>> /\ phase' = "idle" /\ calls' = 0
    BY <1>4 DEF EndInitialize
  <2>2. DeviceOK(dev)' /\ ZonesOK' /\ LayoutOK'
    BY <1>1, <2>1, Taken
  <2>3. TypesOK'
    BY <1>1, <1>2, <2>1 DEF TypesOK, setting
  <2>4. FramesOK'
    BY <2>1 DEF FramesOK, MainMatrixShowsLeds, SubdeviceRowsShowLeds, FreshFrame
  <2> QED
    BY <2>2, <2>3, <2>4 DEF IInv
<1>5. CASE BeginUpdate
  <2>1. /\ UNCHANGED <<setting, calls, dev, zones, colors>> /\ phase' \in {"callback", "frame"}
        /\ phase = "idle"
    BY <1>5 DEF BeginUpdate
  <2>2. DeviceOK(dev)' /\ ZonesOK' /\ LayoutOK'
    BY <1>1, <2>1, Untouched
  <2>3. TypesOK'
    BY <1>1, <2>1 DEF TypesOK, setting
  <2>4. FramesOK'
    BY <2>1 DEF FramesOK, MainMatrixShowsLeds, SubdeviceRowsShowLeds, FreshFrame
  <2> QED
    BY <2>2, <2>3, <2>4 DEF IInv
<1>6. CASE EndCallbacks
  <2>1. /\ phase = "callback" /\ phase' = "frame" /\ calls' = 0 /\ UNCHANGED <<setting, colors>>
        /\ IF dev.dirty THEN TakeTopology ELSE UNCHANGED <<dev, zones>>
    BY <1>6 DEF EndCallbacks
  <2>2. DeviceOK(dev)' /\ ZonesOK' /\ LayoutOK'
    <3>1. CASE dev.dirty
      BY <1>1, <2>1, <3>1, Taken
    <3>2. CASE ~dev.dirty
      BY <1>1, <2>1, <3>2, Untouched
    <3> QED
      BY <3>1, <3>2
  <2>3. TypesOK'
    BY <1>1, <1>2, <2>1 DEF TypesOK, setting
  <2>4. FramesOK'
    BY <2>1 DEF FramesOK, MainMatrixShowsLeds, SubdeviceRowsShowLeds, FreshFrame
  <2> QED
    BY <2>2, <2>3, <2>4 DEF IInv
<1>7. CASE BuildFrames
  <2>1. DeviceOK(dev)' /\ ZonesOK' /\ LayoutOK' /\ FramesOK' /\ colors' \in ColorList
    BY <1>7, FramesKeepLayout
  <2>2. TypesOK'
    BY <1>1, <1>2, <1>7, <2>1 DEF TypesOK, BuildFrames, setting, ColorList
  <2> QED
    BY <2>1, <2>2 DEF IInv
<1>8. CASE EndRender
  <2>1. /\ phase = "render" /\ phase' = "idle" /\ calls' = 0
        /\ UNCHANGED <<setting, dev, zones, colors>>
    BY <1>8 DEF EndRender
  <2>2. DeviceOK(dev)' /\ ZonesOK' /\ LayoutOK'
    BY <1>1, <2>1, Untouched
  <2>3. TypesOK'
    BY <1>1, <1>2, <2>1 DEF TypesOK, setting
  <2>4. FramesOK'
    BY <2>1 DEF FramesOK, MainMatrixShowsLeds, SubdeviceRowsShowLeds, FreshFrame
  <2> QED
    BY <2>2, <2>3, <2>4 DEF IInv
<1>9. CASE ResizeZone
  <2>1. DeviceOK(dev)' /\ ZonesOK' /\ LayoutOK'
    BY <1>9, ResizeKeeps
  <2>2. TypesOK' /\ phase' = "idle"
    BY <1>1, <1>9 DEF TypesOK, ResizeZone, setting
  <2>3. FramesOK'
    BY <2>2 DEF FramesOK, MainMatrixShowsLeds, SubdeviceRowsShowLeds, FreshFrame
  <2> QED
    BY <2>1, <2>2, <2>3 DEF IInv
<1>10. CASE UNCHANGED vars
  <2>1. UNCHANGED <<setting, phase, calls, dev, zones, colors>>
    BY <1>10 DEF vars, setting
  <2>2. DeviceOK(dev)' /\ ZonesOK' /\ LayoutOK'
    BY <1>1, <2>1, Untouched
  <2>3. TypesOK'
    BY <1>1, <2>1 DEF TypesOK, setting
  <2>4. FramesOK'
    <3>1. MainMatrixShowsLeds'
      BY <1>1, <2>1 DEF FramesOK, MainMatrixShowsLeds, FreshFrame, DeviceColor, ZoneOf
    <3>2. SubdeviceRowsShowLeds'
      BY <1>1, <2>1 DEF FramesOK, SubdeviceRowsShowLeds, FreshFrame, ShowsLeds, ZoneOf
    <3> QED
      BY <3>1, <3>2 DEF FramesOK
  <2> QED
    BY <2>2, <2>3, <2>4 DEF IInv
<1> QED
  BY <1>3, <1>4, <1>5, <1>6, <1>7, <1>8, <1>9, <1>10 DEF Next

-----------------------------------------------------------------------------
(* The theorems.                                                           *)

\* What is known holds in every state.
THEOREM Invariant == Spec => []IInv
<1>1. Init => IInv
  BY DeviceStarts
<1>2. IInv /\ [Next]_vars => IInv'
  BY StepKeeps
<1> QED
  BY <1>1, <1>2, PTL DEF Spec

\* The variables keep their types, and an output's name stands once in its list.
THEOREM TypeCorrect == Spec => []TypeOK
<1>1. IInv => TypeOK
  <2> SUFFICES ASSUME IInv PROVE TypeOK
    OBVIOUS
  <2>1. TypesOK /\ DeviceOK(dev)
    BY DEF IInv
  <2>2. /\ dev.width \in Nat \ {0} /\ dev.height \in Nat \ {0} /\ dev.names \in Nat
        /\ dev.positions \in Positions /\ dev.count \in Nat /\ dev.dirty \in BOOLEAN
        /\ dev.frame \in [width : Nat \ {0}, colors : ColorList]
        /\ dev.channels \in Seq(Channels) /\ dev.subdevices \in Seq(Subdevices)
    BY <2>1 DEF DeviceOK, Devices
  <2>3. ASSUME NEW i \in 1..Len(dev.subdevices) PROVE IsSubdevice(dev.subdevices[i])
    <3>1. PICK sub : sub = dev.subdevices[i]
      OBVIOUS
    <3>2. sub \in Subdevices /\ SubdeviceOK(sub)
      BY <2>1, <2>2, <3>1, LenProperties DEF DeviceOK
    <3>3. /\ sub.name \in script.subdevices /\ sub.names \in Nat
          /\ sub.width \in Nat \ {0} /\ sub.height \in Nat \ {0}
          /\ sub.positions \in Positions /\ sub.index \in Indexes /\ sub.colors \in ColorList
      BY <3>2 DEF Subdevices
    <3>4. DOMAIN sub.index = Range(sub.positions)
      <4>1. DOMAIN sub.positions = 1..Len(sub.positions)
        BY <3>3, LenProperties DEF Positions
      <4> QED
        BY <3>2, <4>1 DEF SubdeviceOK, Range
    <3>5. sub.index \in [Range(sub.positions) -> Nat]
      BY <3>3, <3>4 DEF Indexes
    <3> QED
      BY <3>1, <3>3, <3>5 DEF IsSubdevice
  <2>4. NamesDiffer(dev.channels) /\ NamesDiffer(dev.subdevices)
    BY <2>1 DEF DeviceOK
  <2> QED
    BY <2>1, <2>2, <2>3, <2>4 DEF TypeOK, TypesOK, Channels, NamesDiffer
<1> QED
  BY <1>1, Invariant, PTL

\* What OpenRGB shows is what the mapper makes of the device as it is, unless
\* topology_dirty says that it is not.
THEOREM LayoutFollows == Spec => []LayoutIsCurrent
<1>1. IInv => LayoutIsCurrent
  <2> SUFFICES ASSUME IInv, phase # "initialize", ~dev.dirty
               PROVE  LET Shape(list) ==
                            [i \in 1..Len(list) |->
                               [kind |-> list[i].kind, key |-> list[i].key, map |-> list[i].map,
                                max |-> IF api = 4 /\ list[i].kind = "channel" THEN 0
                                        ELSE list[i].max]]
                      IN Shape(zones) = Shape(Built)
    BY DEF LayoutIsCurrent, Built
  <2>1. Len(zones) = Len(Built) /\ \A i \in 1..Len(zones) : Follows(zones[i], Built[i])
    BY DEF IInv, LayoutOK
  <2>2. \A i \in 1..Len(zones) :
          /\ zones[i].kind = Built[i].kind /\ zones[i].key = Built[i].key
          /\ zones[i].map = Built[i].map
          /\ (IF api = 4 /\ zones[i].kind = "channel" THEN 0 ELSE zones[i].max)
               = (IF api = 4 /\ Built[i].kind = "channel" THEN 0 ELSE Built[i].max)
    BY <2>1 DEF Follows
  <2> QED
    BY <2>1, <2>2
<1> QED
  BY <1>1, Invariant, PTL

\* The frame of a channel is as long as the channel says, within its limit.
THEOREM FramesFit == Spec => []ChannelFramesFit
<1>1. IInv => ChannelFramesFit
  BY DEF IInv, DeviceOK, ChannelOK, ChannelFramesFit
<1> QED
  BY <1>1, Invariant, PTL

\* The position index of a subdevice leads to a colour its frame has.
THEOREM IndexFits == Spec => []SubdeviceIndexFits
<1>1. IInv => SubdeviceIndexFits
  <2> SUFFICES ASSUME IInv, NEW i \in 1..Len(dev.subdevices)
               PROVE  LET sub == dev.subdevices[i]
                      IN /\ DOMAIN sub.index = {sub.positions[n] : n \in 1..Len(sub.positions)}
                         /\ \A cell \in DOMAIN sub.index :
                              /\ sub.index[cell] + 1 = Max(Holders(sub.positions, cell))
                              /\ sub.index[cell] < Len(sub.colors)
    BY DEF SubdeviceIndexFits
  <2>1. PICK sub : sub = dev.subdevices[i]
    OBVIOUS
  <2>2. sub \in Subdevices /\ SubdeviceOK(sub)
    BY <2>1, LenProperties DEF IInv, DeviceOK, Devices
  <2>3. /\ Len(sub.positions) \in Nat /\ sub.names \in Nat /\ sub.index \in Indexes
    BY <2>2, LenProperties DEF Subdevices, Positions
  <2>4. Len(sub.positions) =< Len(sub.colors) /\ Len(sub.colors) \in Nat
    BY <2>2, <2>3 DEF SubdeviceOK, SubdeviceLedCount, Larger
  <2>5. ASSUME NEW cell \in DOMAIN sub.index
        PROVE  sub.index[cell] < Len(sub.colors)
    <3>1. PICK held : held = Holders(sub.positions, cell)
      OBVIOUS
    <3>2. held \in SUBSET (1..Len(sub.positions))
      BY <3>1 DEF Holders
    <3>3. PICK n \in 1..Len(sub.positions) : cell = sub.positions[n]
      BY <2>2 DEF SubdeviceOK
    <3>4. held # {}
      BY <3>1, <3>3 DEF Holders
    <3>5. Max(held) \in 1..Len(sub.positions)
      BY <2>3, <3>2, <3>4, MaxOfPlaces
    <3>6. sub.index[cell] + 1 = Max(held) /\ sub.index[cell] \in Nat
      BY <2>2, <2>3, <3>1 DEF SubdeviceOK, Indexes
    <3> QED
      BY <2>3, <2>4, <3>5, <3>6
  <2> QED
    BY <2>1, <2>2, <2>5 DEF SubdeviceOK
<1> QED
  BY <1>1, Invariant, PTL

\* On a main canvas with rows and columns the script reads at each cell the colour of
\* the last LED there.
THEOREM MainShows == Spec => []MainMatrixShowsLeds
<1>1. IInv => MainMatrixShowsLeds
  BY DEF IInv, FramesOK
<1> QED
  BY <1>1, Invariant, PTL

\* On a subdevice of one row or one column the script reads at the position of a LED
\* the colour of that LED.
THEOREM RowsShow == Spec => []SubdeviceRowsShowLeds
<1>1. IInv => SubdeviceRowsShowLeds
  BY DEF IInv, FramesOK
<1> QED
  BY <1>1, Invariant, PTL

=============================================================================
