------------------------- MODULE DeviceTopologyProofs -------------------------
(***************************************************************************)
(* What is proved of DeviceTopology.                                       *)
(***************************************************************************)
EXTENDS DeviceTopology, FiniteSetTheorems, FunctionTheorems, SequenceTheorems, TLAPS

-----------------------------------------------------------------------------
(* Lists.                                                                  *)

\* How many of the places come no later than one of them.
RankIn(places, i) == Cardinality({j \in places : j =< i})

\* A list has as many places as its places are counted, each has its own rank, and
\* each rank its place.
LEMMA RanksArePlaces ==
  ASSUME NEW L \in Nat, NEW places \in SUBSET (1..L)
  PROVE  /\ Cardinality(places) \in Nat
         /\ \A i \in places : RankIn(places, i) \in 1..Cardinality(places)
         /\ \A i, j \in places : RankIn(places, i) = RankIn(places, j) => i = j
         /\ \A n \in 1..Cardinality(places) : \E i \in places : RankIn(places, i) = n
<1> DEFINE upto(i) == {j \in places : j =< i}
<1>1. IsFiniteSet(places) /\ Cardinality(places) \in Nat
  <2>1. IsFiniteSet(1..L)
    BY FS_Interval
  <2> QED
    BY <2>1, FS_Subset, FS_CardinalityType
<1>2. \A i \in places : /\ IsFiniteSet(upto(i)) /\ Cardinality(upto(i)) <= Cardinality(places)
                        /\ Cardinality(upto(i)) \in Nat /\ Cardinality(upto(i)) # 0
  <2> TAKE i \in places
  <2>1. upto(i) \subseteq places /\ i \in upto(i)
    OBVIOUS
  <2> HIDE DEF upto
  <2> QED
    BY <1>1, <2>1, FS_Subset, FS_CardinalityType, FS_EmptySet
<1>3. \A i, j \in places : i < j => Cardinality(upto(i)) < Cardinality(upto(j))
  <2> TAKE i, j \in places
  <2> HAVE i < j
  <2>1. i \in Nat /\ j \in Nat /\ ~(j =< i)
    OBVIOUS
  <2>2. \A k \in places : k =< i => k =< j
    <3>1. \A k \in places : k \in Nat
      OBVIOUS
    <3> QED
      BY <2>1, <3>1
  <2>3. upto(i) \subseteq upto(j)
    BY <2>2
  <2>4. j \in upto(j) /\ j \notin upto(i)
    BY <2>1
  <2>5. /\ Cardinality(upto(i)) <= Cardinality(upto(j))
        /\ Cardinality(upto(i)) # Cardinality(upto(j))
    <3> HIDE DEF upto
    <3>1. IsFiniteSet(upto(j)) /\ upto(i) \in SUBSET upto(j) /\ upto(i) # upto(j)
      BY <1>2, <2>3, <2>4
    <3> QED
      BY <3>1, FS_Subset
  <2> HIDE DEF upto
  <2> QED
    BY <1>2, <2>5
<1>4. \A i, j \in places : Cardinality(upto(i)) = Cardinality(upto(j)) => i = j
  <2> HIDE DEF upto
  <2>1. \A i \in places : Cardinality(upto(i)) \in Nat
    BY <1>2
  <2> QED
    BY <1>3, <2>1
<1> DEFINE rank == [i \in places |-> Cardinality(upto(i))]
           n == Cardinality(places)
<1>5. \A i \in places : Cardinality(upto(i)) \in 1..n
  <2> HIDE DEF upto
  <2> QED
    BY <1>1, <1>2
<1>6. rank \in Injection(places, 1..n)
  <2> HIDE DEF upto
  <2>1. rank \in [places -> 1..n] /\ \A i, j \in places : rank[i] = rank[j] => i = j
    BY <1>4, <1>5
  <2> HIDE DEF rank, n
  <2> QED
    BY <2>1, Fun_IsInj
<1>7. \A m \in 1..n : \E i \in places : rank[i] = m
  <2>1. IsFiniteSet(1..n) /\ Cardinality(1..n) = n
    BY <1>1, FS_Interval
  <2> HIDE DEF rank, n
  <2>2. rank \in Surjection(places, 1..n)
    BY <1>6, <2>1, FS_Injection DEF n
  <2> QED
    BY <2>2, Fun_SurjectionProperties
<1>8. \A m \in 1..n : \E i \in places : Cardinality(upto(i)) = m
  <2> HIDE DEF upto
  <2> QED
    BY <1>7
<1> QED
  BY <1>1, <1>4, <1>5, <1>8 DEF RankIn

\* The place of a rank.
PlaceOf(places, n) == CHOOSE i \in places : RankIn(places, i) = n

\* What is kept are the items at the places, each once.
LEMMA KeptItems ==
  ASSUME NEW list, Len(list) \in Nat, NEW places \in SUBSET (1..Len(list))
  PROVE  /\ Cardinality(places) \in Nat
         /\ Kept(list, places) = [n \in 1..Cardinality(places) |-> list[PlaceOf(places, n)]]
         /\ \A n \in 1..Cardinality(places) : PlaceOf(places, n) \in places
         /\ \A m, n \in 1..Cardinality(places) : PlaceOf(places, m) = PlaceOf(places, n) => m = n
         /\ \A i \in places : \E n \in 1..Cardinality(places) : PlaceOf(places, n) = i
<1>1. /\ Cardinality(places) \in Nat
      /\ \A i \in places : RankIn(places, i) \in 1..Cardinality(places)
      /\ \A i, j \in places : RankIn(places, i) = RankIn(places, j) => i = j
      /\ \A n \in 1..Cardinality(places) : \E i \in places : RankIn(places, i) = n
  BY RanksArePlaces
<1>2. \A n \in 1..Cardinality(places) :
        PlaceOf(places, n) \in places /\ RankIn(places, PlaceOf(places, n)) = n
  BY <1>1 DEF PlaceOf
<1>3. Kept(list, places) = [n \in 1..Cardinality(places) |-> list[PlaceOf(places, n)]]
  BY DEF Kept, PlaceOf, RankIn
<1>4. \A i \in places : \E n \in 1..Cardinality(places) : PlaceOf(places, n) = i
  <2> TAKE i \in places
  <2> DEFINE n == RankIn(places, i)
  <2>1. n \in 1..Cardinality(places)
    BY <1>1
  <2>2. PlaceOf(places, n) \in places /\ RankIn(places, PlaceOf(places, n)) = RankIn(places, i)
    BY <1>2, <2>1
  <2>3. PlaceOf(places, n) = i
    BY <1>1, <2>2
  <2> QED
    BY <2>1, <2>3
<1> QED
  BY <1>1, <1>2, <1>3, <1>4

\* It is a list of the same kind.
LEMMA KeptTyped ==
  ASSUME NEW S, NEW list \in Seq(S), NEW places \in SUBSET (1..Len(list))
  PROVE  Kept(list, places) \in Seq(S) /\ Len(Kept(list, places)) = Cardinality(places)
<1>1. Len(list) \in Nat /\ \A i \in 1..Len(list) : list[i] \in S
  BY LenProperties
<1> DEFINE n == Cardinality(places)
           item == [m \in 1..n |-> list[PlaceOf(places, m)]]
<1>2. /\ n \in Nat /\ Kept(list, places) = item
      /\ \A m \in 1..n : PlaceOf(places, m) \in places
  BY <1>1, KeptItems
<1> HIDE DEF n
<1>3. item \in [1..n -> S]
  BY <1>1, <1>2
<1> HIDE DEF item
<1>4. item \in Seq(S) /\ Len(item) = n
  BY <1>2, <1>3, SeqDef, LenProperties
<1> QED
  BY <1>2, <1>4 DEF n

\* A list of numbers has a largest.
LEMMA MaxOfPlaces ==
  ASSUME NEW L \in Nat, NEW places \in SUBSET (1..L), places # {}
  PROVE  Max(places) \in places /\ \A i \in places : i =< Max(places)
<1>1. /\ Cardinality(places) \in Nat
      /\ \A n \in 1..Cardinality(places) : \E i \in places : RankIn(places, i) = n
  BY RanksArePlaces
<1>2. IsFiniteSet(places)
  <2>1. IsFiniteSet(1..L)
    BY FS_Interval
  <2> QED
    BY <2>1, FS_Subset
<1>3. Cardinality(places) # 0
  BY <1>2, FS_EmptySet
<1>4. PICK i \in places : RankIn(places, i) = Cardinality(places)
  BY <1>1, <1>3
<1>5. {j \in places : j =< i} = places
  BY <1>2, <1>4, FS_Subset DEF RankIn
<1>6. \A j \in places : j \in Int /\ i >= j
  <2>1. \A j \in places : j \in Int
    OBVIOUS
  <2> QED
    BY <1>5, <2>1
<1>7. Max(places) \in places /\ \A j \in places : Max(places) >= j
  BY <1>6 DEF Max
<1> QED
  BY <1>6, <1>7

\* A list written by its places is a list.
LEMMA ListByPlaces ==
  ASSUME NEW S, NEW n \in Nat, NEW list, list = [i \in 1..n |-> list[i]],
         \A i \in 1..n : list[i] \in S
  PROVE  list \in Seq(S) /\ Len(list) = n
<1>1. list \in [1..n -> S]
  OBVIOUS
<1> QED
  BY <1>1, SeqDef, LenProperties

\* The LEDs of all zones can be counted.
LEMMA LedsAreFinite ==
  ASSUME NEW most \in Nat, NEW list, \A j \in 1..most : list[j].count \in Nat
  PROVE  Cardinality(Leds(list, most)) \in Nat
<1> DEFINE zone == [j \in 1..most |-> {j} \X (1..list[j].count)]
<1>1. IsFiniteSet(1..most)
  BY FS_Interval
<1>2. zone \in Surjection(1..most, Range(zone))
  <2>1. zone \in [1..most -> Range(zone)]
    BY DEF Range
  <2>2. \A z \in Range(zone) : \E j \in 1..most : zone[j] = z
    BY DEF Range
  <2> HIDE DEF zone
  <2> QED
    BY <2>1, <2>2, Fun_IsSurj
<1>3. IsFiniteSet(Range(zone))
  <2> HIDE DEF zone
  <2> QED
    BY <1>1, <1>2, FS_Surjection
<1>4. \A z \in Range(zone) : IsFiniteSet(z)
  <2> TAKE z \in Range(zone)
  <2>1. PICK j \in 1..most : z = {j} \X (1..list[j].count)
    BY DEF Range
  <2>2. IsFiniteSet(1..list[j].count)
    BY FS_Interval
  <2>3. IsFiniteSet({j})
    BY FS_Singleton
  <2> QED
    BY <2>1, <2>2, <2>3, FS_Product
<1>5. Leds(list, most) = UNION Range(zone)
  BY DEF Leds, Range
<1> HIDE DEF zone
<1>6. IsFiniteSet(UNION Range(zone))
  BY <1>3, <1>4, FS_UNION
<1> QED
  BY <1>5, <1>6, FS_CardinalityType

-----------------------------------------------------------------------------
(* The device.                                                             *)

Colors == Nat \cup {Black}
Cells == Int \X Int
Indexes == UNION {[cells -> Nat] : cells \in SUBSET Cells}
Channels ==
  [name : script.channels, limit : Nat, count : Nat, colors : ColorList, pulse : BOOLEAN]
Subdevices ==
  [name : script.subdevices, width : Nat \ {0}, height : Nat \ {0}, names : Nat,
   positions : Positions, index : Indexes, colors : ColorList]
Devices ==
  [width : Nat \ {0}, height : Nat \ {0}, names : Nat, positions : Positions, count : Nat,
   frame : [width : Nat \ {0}, colors : ColorList], channels : Seq(Channels),
   subdevices : Seq(Subdevices), dirty : BOOLEAN]

\* What is known of one channel, and of one subdevice.
ChannelOK(channel) ==
  /\ Len(channel.colors) = channel.count
  /\ channel.limit > 0 => channel.count =< channel.limit
  /\ channel.pulse = (channel.count = 0)

SubdeviceOK(sub) ==
  /\ DOMAIN sub.index = {sub.positions[n] : n \in 1..Len(sub.positions)}
  /\ \A cell \in DOMAIN sub.index : sub.index[cell] + 1 = Max(Holders(sub.positions, cell))
  /\ Len(sub.colors) = SubdeviceLedCount(sub)

NamesDiffer(list) == \A i, j \in 1..Len(list) : list[i].name = list[j].name => i = j

DeviceOK(d) ==
  /\ d \in Devices
  /\ \A i \in 1..Len(d.channels) : ChannelOK(d.channels[i])
  /\ \A i \in 1..Len(d.subdevices) : SubdeviceOK(d.subdevices[i])
  /\ NamesDiffer(d.channels) /\ NamesDiffer(d.subdevices)

\* What scripts give.
ScriptOK ==
  /\ script.sizes \subseteq Cells /\ script.limits \subseteq Int /\ script.calls \in Nat
  /\ script.leds \subseteq [names : Nat, positions : Positions]

\* Colours that are given a new length.
LEMMA ResizedColors ==
  ASSUME NEW list \in ColorList, NEW count \in Nat
  PROVE  /\ ResizeFrameColors(list, count) \in ColorList
         /\ Len(ResizeFrameColors(list, count)) = count
         /\ \A i \in 1..count : i =< Len(list) => ResizeFrameColors(list, count)[i] = list[i]
<1> DEFINE new == ResizeFrameColors(list, count)
<1>1. Len(list) \in Nat /\ \A i \in 1..Len(list) : list[i] \in Colors
  BY LenProperties DEF ColorList, Colors
<1>2. new = [i \in 1..count |-> IF i =< Len(list) THEN list[i] ELSE Black]
  BY DEF ResizeFrameColors
<1>3. \A i \in 1..count : new[i] = IF i =< Len(list) THEN list[i] ELSE Black
  BY <1>2
<1>4. new = [i \in 1..count |-> new[i]]
  BY <1>2
<1>5. \A i \in 1..count : new[i] \in Colors
  BY <1>1, <1>3 DEF Colors
<1> HIDE DEF new
<1>6. new \in Seq(Colors) /\ Len(new) = count
  BY <1>4, <1>5, ListByPlaces
<1> QED
  BY <1>3, <1>6 DEF new, ColorList, Colors

\* The size of a device or a subdevice is never 0.
LEMMA LargerIsNat ==
  ASSUME NEW a \in Nat, NEW b \in Int
  PROVE  Larger(a, b) \in Nat /\ Larger(a, b) >= a /\ Larger(a, b) >= b
BY DEF Larger

\* A list whose items are replaced by others of their names.
LEMMA ItemsReplaced ==
  ASSUME NEW S, NEW list \in Seq(S), NamesDiffer(list),
         NEW new \in [1..Len(list) -> S], \A i \in 1..Len(list) : new[i].name = list[i].name
  PROVE  new \in Seq(S) /\ Len(new) = Len(list) /\ NamesDiffer(new)
<1>1. Len(list) \in Nat
  BY LenProperties
<1>2. new \in Seq(S) /\ Len(new) = Len(list)
  BY <1>1, SeqDef, LenProperties
<1> QED
  BY <1>2 DEF NamesDiffer

\* A list without the items of a name.
LEMMA ItemsLeft ==
  ASSUME NEW S, NEW list \in Seq(S), NamesDiffer(list), NEW name
  PROVE  /\ Without(list, name) \in Seq(S) /\ NamesDiffer(Without(list, name))
         /\ \A i \in 1..Len(Without(list, name)) : \E j \in 1..Len(list) :
              Without(list, name)[i] = list[j]
<1> DEFINE places == {i \in 1..Len(list) : list[i].name # name}
           left == Without(list, name)
<1>1. /\ left = Kept(list, places) /\ Len(list) \in Nat /\ places \in SUBSET (1..Len(list))
  BY LenProperties DEF Without
<1> HIDE DEF left, places
<1>2. left \in Seq(S) /\ Len(left) = Cardinality(places)
  BY <1>1, KeptTyped
<1>3. /\ \A n \in 1..Cardinality(places) :
           left[n] = list[PlaceOf(places, n)] /\ PlaceOf(places, n) \in places
      /\ \A m, n \in 1..Cardinality(places) : PlaceOf(places, m) = PlaceOf(places, n) => m = n
  BY <1>1, KeptItems
<1>4. \A n \in 1..Cardinality(places) : PlaceOf(places, n) \in 1..Len(list)
  BY <1>1, <1>3
<1>5. ASSUME NEW m \in 1..Len(left), NEW n \in 1..Len(left), left[m].name = left[n].name
      PROVE  m = n
  <2>1. m \in 1..Cardinality(places) /\ n \in 1..Cardinality(places)
    BY <1>2
  <2>2. /\ left[m] = list[PlaceOf(places, m)] /\ PlaceOf(places, m) \in 1..Len(list)
        /\ left[n] = list[PlaceOf(places, n)] /\ PlaceOf(places, n) \in 1..Len(list)
    BY <1>3, <1>4, <2>1
  <2>3. PlaceOf(places, m) = PlaceOf(places, n)
    BY <1>5, <2>2 DEF NamesDiffer
  <2> QED
    BY <1>3, <2>1, <2>3
<1>6. NamesDiffer(left)
  BY <1>5 DEF NamesDiffer
<1>7. ASSUME NEW i \in 1..Len(left) PROVE \E j \in 1..Len(list) : left[i] = list[j]
  <2>1. i \in 1..Cardinality(places)
    BY <1>2
  <2> QED
    BY <1>3, <1>4, <2>1
<1> QED
  BY <1>2, <1>6, <1>7 DEF left

\* A list with an item of a new name at its end.
LEMMA ItemAdded ==
  ASSUME NEW S, NEW list \in Seq(S), NamesDiffer(list), NEW item \in S,
         \A i \in 1..Len(list) : list[i].name # item.name
  PROVE  /\ Append(list, item) \in Seq(S) /\ NamesDiffer(Append(list, item))
         /\ \A i \in 1..Len(Append(list, item)) :
              Append(list, item)[i] = item \/ \E j \in 1..Len(list) : Append(list, item)[i] = list[j]
<1> DEFINE new == Append(list, item)
<1>1. /\ new \in Seq(S) /\ Len(new) = Len(list) + 1 /\ Len(list) \in Nat
      /\ \A i \in 1..Len(list) : new[i] = list[i]
      /\ new[Len(list) + 1] = item
  BY AppendProperties, LenProperties
<1> HIDE DEF new
<1>2. \A i \in 1..Len(new) : i \in 1..Len(list) \/ i = Len(list) + 1
  BY <1>1
<1>3. NamesDiffer(new)
  BY <1>1, <1>2 DEF NamesDiffer
<1> QED
  BY <1>1, <1>2, <1>3 DEF new

\* A device with other channels, or other subdevices.
LEMMA WithChannels ==
  ASSUME DeviceOK(dev), NEW list \in Seq(Channels), NamesDiffer(list),
         \A i \in 1..Len(list) : ChannelOK(list[i])
  PROVE  DeviceOK([dev EXCEPT !.channels = list])
<1> DEFINE new == [dev EXCEPT !.channels = list]
<1>1. new \in Devices /\ new.channels = list /\ new.subdevices = dev.subdevices
  BY DEF DeviceOK, Devices
<1> HIDE DEF new
<1> QED
  BY <1>1 DEF DeviceOK, new

\* New subdevices with different names, each of which agrees with itself, keep DeviceOK.
LEMMA WithSubdevices ==
  ASSUME DeviceOK(dev), NEW list \in Seq(Subdevices), NamesDiffer(list),
         \A i \in 1..Len(list) : SubdeviceOK(list[i])
  PROVE  DeviceOK([dev EXCEPT !.subdevices = list])
<1> DEFINE new == [dev EXCEPT !.subdevices = list]
<1>1. new \in Devices /\ new.subdevices = list /\ new.channels = dev.channels
  BY DEF DeviceOK, Devices
<1> HIDE DEF new
<1> QED
  BY <1>1 DEF DeviceOK, new

\* The limit of a channel, and a frame that it cuts.
LEMMA LimitKeeps ==
  ASSUME NEW channel \in Channels, ChannelOK(channel), NEW limit \in Nat
  PROVE  LET new == LimitChannel(channel, limit)
         IN new \in Channels /\ ChannelOK(new) /\ new.name = channel.name
<1>1. channel.colors \in ColorList /\ channel.count \in Nat
  BY DEF Channels
<1>2. CASE limit > 0 /\ channel.count > limit
  <2> DEFINE cut == ResizeFrameColors(channel.colors, limit)
             one == [channel EXCEPT !.limit = limit]
             two == [one EXCEPT !.count = limit]
             new == [two EXCEPT !.colors = cut]
  <2>1. cut \in ColorList /\ Len(cut) = limit
    BY <1>1, ResizedColors
  <2> HIDE DEF cut
  <2>2. one \in Channels /\ one.name = channel.name /\ one.limit = limit /\ one.pulse = channel.pulse
    BY DEF Channels
  <2>3. LimitChannel(channel, limit) = new
    BY <1>2, <1>1 DEF LimitChannel, cut
  <2> HIDE DEF one
  <2>4. /\ two \in Channels /\ two.name = channel.name /\ two.limit = limit
        /\ two.pulse = channel.pulse /\ two.count = limit
    BY <2>2 DEF Channels
  <2> HIDE DEF two
  <2>5. /\ new \in Channels /\ new.name = channel.name /\ new.limit = limit
        /\ new.pulse = channel.pulse /\ new.count = limit /\ new.colors = cut
    BY <2>1, <2>4 DEF Channels
  <2> HIDE DEF new
  <2>6. ChannelOK(new)
    BY <1>1, <1>2, <2>1, <2>5 DEF ChannelOK
  <2> QED
    BY <2>3, <2>5, <2>6
<1>3. CASE ~(limit > 0 /\ channel.count > limit)
  <2> DEFINE new == [channel EXCEPT !.limit = limit]
  <2>1. LimitChannel(channel, limit) = new
    BY <1>3 DEF LimitChannel
  <2>2. /\ new \in Channels /\ new.name = channel.name /\ new.limit = limit
        /\ new.pulse = channel.pulse /\ new.count = channel.count /\ new.colors = channel.colors
    BY DEF Channels
  <2> HIDE DEF new
  <2>3. ChannelOK(new)
    BY <1>1, <1>3, <2>2 DEF ChannelOK
  <2> QED
    BY <2>1, <2>2, <2>3
<1> QED
  BY <1>2, <1>3

\* The LEDs of a subdevice, their index and the length of its colours.
LEMMA LedsKeep ==
  ASSUME NEW sub \in Subdevices, NEW list \in [names : Nat, positions : Positions]
  PROVE  LET new == WithLeds(sub, list)
         IN new \in Subdevices /\ SubdeviceOK(new) /\ new.name = sub.name
<1> DEFINE count == Larger(list.names, Len(list.positions))
           index == PositionIndex(list.positions)
           cells == {list.positions[n] : n \in 1..Len(list.positions)}
           cut == ResizeFrameColors(sub.colors, count)
<1>1. /\ list.names \in Nat /\ Len(list.positions) \in Nat
      /\ \A n \in 1..Len(list.positions) : list.positions[n] \in Cells
  BY LenProperties DEF Positions, Cells
<1>2. count \in Nat
  BY <1>1 DEF Larger
<1> HIDE DEF count
<1>3. cut \in ColorList /\ Len(cut) = count
  BY <1>2, ResizedColors DEF Subdevices
<1> HIDE DEF cut
<1>4. cells \in SUBSET Cells
  BY <1>1
<1>5. \A cell \in cells : /\ Max(Holders(list.positions, cell)) \in Int
                           /\ Max(Holders(list.positions, cell)) - 1 \in Nat
  <2> TAKE cell \in cells
  <2>1. Holders(list.positions, cell) \in SUBSET (1..Len(list.positions))
    BY DEF Holders
  <2>2. Holders(list.positions, cell) # {}
    BY DEF Holders
  <2>3. Max(Holders(list.positions, cell)) \in 1..Len(list.positions)
    BY <1>1, <2>1, <2>2, MaxOfPlaces
  <2> QED
    BY <1>1, <2>3
<1>6. index = [cell \in cells |-> Max(Holders(list.positions, cell)) - 1]
  BY DEF PositionIndex
<1> HIDE DEF index, cells
<1>7. /\ index \in [cells -> Nat]
      /\ \A cell \in cells : index[cell] + 1 = Max(Holders(list.positions, cell))
  <2>1. \A cell \in cells : index[cell] = Max(Holders(list.positions, cell)) - 1
    BY <1>6
  <2> QED
    BY <1>5, <1>6, <2>1
<1> DEFINE one == [sub EXCEPT !.names = list.names]
           two == [one EXCEPT !.positions = list.positions]
           three == [two EXCEPT !.index = index]
           new == [three EXCEPT !.colors = cut]
<1>8. WithLeds(sub, list) = new
  BY DEF WithLeds, index, cut, count
<1>9. one \in Subdevices /\ one.name = sub.name /\ one.names = list.names
  BY <1>1 DEF Subdevices
<1> HIDE DEF one
<1>10. /\ two \in Subdevices /\ two.name = sub.name /\ two.names = list.names
       /\ two.positions = list.positions
  BY <1>9 DEF Subdevices
<1> HIDE DEF two
<1>11. /\ three \in Subdevices /\ three.name = sub.name /\ three.names = list.names
       /\ three.positions = list.positions /\ three.index = index
  <2>1. index \in Indexes
    BY <1>4, <1>7 DEF Indexes
  <2> QED
    BY <2>1, <1>10 DEF Subdevices
<1> HIDE DEF three
<1>12. /\ new \in Subdevices /\ new.name = sub.name /\ new.names = list.names
       /\ new.positions = list.positions /\ new.index = index /\ new.colors = cut
  BY <1>3, <1>11 DEF Subdevices
<1> HIDE DEF new
<1>13. SubdeviceOK(new)
  BY <1>3, <1>7, <1>12 DEF SubdeviceOK, SubdeviceLedCount, count, cells
<1> QED
  BY <1>8, <1>12, <1>13

-----------------------------------------------------------------------------
(* The calls of the host module.                                           *)

\* The flag is no part of what is known of the device.
LEMMA CallKeeps ==
  ASSUME NEW new, DeviceOK(dev), DeviceOK(new), Call(new)
  PROVE  /\ DeviceOK(dev)' /\ (dev'.dirty \/ dev' = dev)
         /\ UNCHANGED <<setting, phase, zones, colors>>
<1> DEFINE marked == [new EXCEPT !.dirty = TRUE]
<1>1. UNCHANGED <<setting, phase, zones, colors>> /\ dev' = IF new = dev THEN dev ELSE marked
  BY DEF Call, Dirtied
<1>2. /\ marked \in Devices /\ marked.channels = new.channels
      /\ marked.subdevices = new.subdevices /\ marked.dirty
  BY DEF DeviceOK, Devices
<1> HIDE DEF marked
<1>3. DeviceOK(marked)
  BY <1>2 DEF DeviceOK
<1>4. DeviceOK(dev') /\ (dev'.dirty \/ dev' = dev)
  BY <1>1, <1>2, <1>3
<1> QED
  BY <1>1, <1>4 DEF DeviceOK, Devices, Channels, Subdevices, setting

\* No call leaves a device that is not one.
LEMMA HostCallKeeps ==
  ASSUME DeviceOK(dev), ScriptOK, HostCall
  PROVE  /\ DeviceOK(dev)' /\ (dev'.dirty \/ dev' = dev)
         /\ UNCHANGED <<setting, phase, zones, colors>>
<1>1. /\ dev.channels \in Seq(Channels) /\ NamesDiffer(dev.channels)
      /\ Len(dev.channels) \in Nat /\ \A i \in 1..Len(dev.channels) :
           dev.channels[i] \in Channels /\ ChannelOK(dev.channels[i])
  BY LenProperties DEF DeviceOK, Devices
<1>2. /\ dev.subdevices \in Seq(Subdevices) /\ NamesDiffer(dev.subdevices)
      /\ Len(dev.subdevices) \in Nat /\ \A i \in 1..Len(dev.subdevices) :
           dev.subdevices[i] \in Subdevices /\ SubdeviceOK(dev.subdevices[i])
  BY LenProperties DEF DeviceOK, Devices
<1>3. CASE SetSize
  <2>1. PICK size \in script.sizes :
          Call([dev EXCEPT !.width = Larger(1, size[1]), !.height = Larger(1, size[2])])
    BY <1>3 DEF SetSize
  <2> DEFINE w == Larger(1, size[1])
             h == Larger(1, size[2])
             one == [dev EXCEPT !.width = w]
             new == [one EXCEPT !.height = h]
  <2>2. w \in Nat \ {0} /\ h \in Nat \ {0}
    <3>1. size[1] \in Int /\ size[2] \in Int
      BY DEF ScriptOK, Cells
    <3> QED
      BY <3>1 DEF Larger
  <2> HIDE DEF w, h
  <2>3. one \in Devices /\ one.channels = dev.channels /\ one.subdevices = dev.subdevices
    BY <2>2 DEF DeviceOK, Devices
  <2>4. Call(new)
    BY <2>1 DEF w, h
  <2> HIDE DEF one
  <2>5. new \in Devices /\ new.channels = dev.channels /\ new.subdevices = dev.subdevices
    BY <2>2, <2>3 DEF Devices
  <2> HIDE DEF new
  <2>6. DeviceOK(new)
    BY <2>5 DEF DeviceOK
  <2> QED
    BY <2>4, <2>6, CallKeeps
<1>4. CASE SetControllableLeds
  <2>1. PICK list \in script.leds :
          Call([dev EXCEPT !.names = list.names, !.positions = list.positions,
                 !.count = IF list.positions # <<>> THEN Len(list.positions) ELSE list.names])
    BY <1>4 DEF SetControllableLeds
  <2> DEFINE count == IF list.positions # <<>> THEN Len(list.positions) ELSE list.names
             one == [dev EXCEPT !.names = list.names]
             two == [one EXCEPT !.positions = list.positions]
             new == [two EXCEPT !.count = count]
  <2>2. list.names \in Nat /\ list.positions \in Positions /\ count \in Nat
    BY LenProperties DEF ScriptOK, Positions
  <2> HIDE DEF count
  <2>3. one \in Devices /\ one.channels = dev.channels /\ one.subdevices = dev.subdevices
    BY <2>2 DEF DeviceOK, Devices
  <2>4. Call(new)
    BY <2>1 DEF count
  <2> HIDE DEF one
  <2>5. two \in Devices /\ two.channels = dev.channels /\ two.subdevices = dev.subdevices
    BY <2>2, <2>3 DEF Devices
  <2> HIDE DEF two
  <2>6. new \in Devices /\ new.channels = dev.channels /\ new.subdevices = dev.subdevices
    BY <2>2, <2>5 DEF Devices
  <2> HIDE DEF new
  <2>7. DeviceOK(new)
    BY <2>6 DEF DeviceOK
  <2> QED
    BY <2>4, <2>7, CallKeeps
<1>5. ASSUME NEW name, NEW limit \in Nat
      PROVE  DeviceOK([dev EXCEPT !.channels =
               [i \in 1..Len(dev.channels) |->
                  IF dev.channels[i].name = name THEN LimitChannel(dev.channels[i], limit)
                  ELSE dev.channels[i]]])
  <2> DEFINE list == [i \in 1..Len(dev.channels) |->
                        IF dev.channels[i].name = name THEN LimitChannel(dev.channels[i], limit)
                        ELSE dev.channels[i]]
  <2>1. \A i \in 1..Len(dev.channels) :
          /\ list[i] \in Channels /\ ChannelOK(list[i]) /\ list[i].name = dev.channels[i].name
    BY <1>1, LimitKeeps
  <2>2. list \in [1..Len(dev.channels) -> Channels]
    BY <2>1
  <2> HIDE DEF list
  <2>3. list \in Seq(Channels) /\ Len(list) = Len(dev.channels) /\ NamesDiffer(list)
    BY <1>1, <2>1, <2>2, ItemsReplaced
  <2>4. DeviceOK([dev EXCEPT !.channels = list])
    BY <2>1, <2>3, WithChannels
  <2> QED
    BY <2>4 DEF list
<1>6. CASE AddChannel
  <2>1. PICK name \in script.channels, raw \in script.limits :
          LET limit == Larger(0, raw)
              Limited(channel) == LimitChannel(channel, limit)
          IN Call([dev EXCEPT !.channels =
                     IF HasChannel(name) THEN Replace(dev.channels, name, Limited)
                     ELSE Append(dev.channels, NewChannel(name, limit))])
    BY <1>6 DEF AddChannel
  <2> DEFINE limit == Larger(0, raw)
  <2>2. limit \in Nat
    BY LargerIsNat DEF ScriptOK
  <2>3. CASE HasChannel(name)
    <3>1. Call([dev EXCEPT !.channels =
                  [i \in 1..Len(dev.channels) |->
                     IF dev.channels[i].name = name THEN LimitChannel(dev.channels[i], limit)
                     ELSE dev.channels[i]]])
      BY <2>1, <2>3 DEF Replace
    <3> HIDE DEF limit
    <3> QED
      BY <1>5, <2>2, <3>1, CallKeeps
  <2>4. CASE ~HasChannel(name)
    <3> DEFINE item == NewChannel(name, limit)
               list == Append(dev.channels, item)
    <3>1. Call([dev EXCEPT !.channels = list])
      BY <2>1, <2>4
    <3> HIDE DEF limit
    <3>2. item \in Channels /\ ChannelOK(item) /\ item.name = name
      <4> DEFINE none == <<>>
      <4>1. none \in ColorList /\ Len(none) = 0
        BY EmptySeq DEF ColorList
      <4>2. item = [name |-> name, limit |-> limit, count |-> 0, colors |-> none, pulse |-> TRUE]
        BY DEF NewChannel
      <4> HIDE DEF none, item
      <4>3. item \in Channels
        BY <2>2, <4>1, <4>2 DEF Channels
      <4>4. /\ item.name = name /\ item.limit = limit /\ item.count = 0
            /\ item.colors = none /\ item.pulse = TRUE
        BY <4>2
      <4>5. item.pulse = (item.count = 0)
        <5>1. (item.count = 0) = TRUE
          BY <4>4
        <5> QED
          BY <4>4, <5>1, Zenon
      <4>6. ChannelOK(item)
        BY <2>2, <4>1, <4>4, <4>5 DEF ChannelOK
      <4> QED
        BY <4>3, <4>4, <4>6
    <3> HIDE DEF item
    <3>3. \A i \in 1..Len(dev.channels) : dev.channels[i].name # item.name
      BY <2>4, <3>2 DEF HasChannel
    <3>4. /\ list \in Seq(Channels) /\ NamesDiffer(list)
          /\ \A i \in 1..Len(list) :
               list[i] = item \/ \E j \in 1..Len(dev.channels) : list[i] = dev.channels[j]
      BY <1>1, <3>2, <3>3, ItemAdded
    <3> HIDE DEF list
    <3>5. DeviceOK([dev EXCEPT !.channels = list])
      BY <1>1, <3>2, <3>4, WithChannels
    <3> QED
      BY <3>1, <3>5, CallKeeps
  <2> QED
    BY <2>3, <2>4
<1>7. CASE ChannelSetLedLimit
  <2>1. PICK name \in script.channels, raw \in script.limits :
          LET Limited(channel) == LimitChannel(channel, Larger(0, raw))
          IN Call([dev EXCEPT !.channels = Replace(dev.channels, name, Limited)])
    BY <1>7 DEF ChannelSetLedLimit
  <2> DEFINE limit == Larger(0, raw)
  <2>2. limit \in Nat
    BY LargerIsNat DEF ScriptOK
  <2>3. Call([dev EXCEPT !.channels =
                [i \in 1..Len(dev.channels) |->
                   IF dev.channels[i].name = name THEN LimitChannel(dev.channels[i], limit)
                   ELSE dev.channels[i]]])
    BY <2>1 DEF Replace
  <2> HIDE DEF limit
  <2> QED
    BY <1>5, <2>2, <2>3, CallKeeps
<1>8. CASE RemoveChannel
  <2>1. PICK name : Call([dev EXCEPT !.channels = Without(dev.channels, name)])
    BY <1>8 DEF RemoveChannel
  <2>2. DeviceOK([dev EXCEPT !.channels = Without(dev.channels, name)])
    <3>1. /\ Without(dev.channels, name) \in Seq(Channels)
          /\ NamesDiffer(Without(dev.channels, name))
          /\ \A i \in 1..Len(Without(dev.channels, name)) : \E j \in 1..Len(dev.channels) :
               Without(dev.channels, name)[i] = dev.channels[j]
      BY <1>1, ItemsLeft
    <3> QED
      BY <1>1, <3>1, WithChannels
  <2> QED
    BY <2>1, <2>2, CallKeeps
<1>9. CASE CreateSubdevice
  <2>1. PICK name \in script.subdevices :
          Call([dev EXCEPT !.subdevices = IF HasSubdevice(name) THEN dev.subdevices
                                          ELSE Append(dev.subdevices, NewSubdevice(name))])
    BY <1>9 DEF CreateSubdevice
  <2> DEFINE item == NewSubdevice(name)
             list == IF HasSubdevice(name) THEN dev.subdevices ELSE Append(dev.subdevices, item)
  <2>2. item \in Subdevices /\ SubdeviceOK(item) /\ item.name = name
    <3> DEFINE none == <<>>
    <3>1. none \in ColorList /\ Len(none) = 0 /\ none \in Positions
      BY EmptySeq DEF ColorList, Positions
    <3>2. none \in [{} -> Nat] /\ {} \in SUBSET Cells /\ DOMAIN none = {}
      OBVIOUS
    <3>3. item = [name |-> name, width |-> 1, height |-> 1, names |-> 0, positions |-> none,
                  index |-> none, colors |-> none]
      BY DEF NewSubdevice
    <3> HIDE DEF none, item
    <3>4. none \in Indexes
      BY <3>2 DEF Indexes
    <3>5. item \in Subdevices
      BY <3>1, <3>3, <3>4 DEF Subdevices
    <3>6. SubdeviceOK(item)
      BY <3>1, <3>2, <3>3 DEF SubdeviceOK, SubdeviceLedCount, Larger
    <3> QED
      BY <3>3, <3>5, <3>6
  <2>3. list \in Seq(Subdevices) /\ NamesDiffer(list) /\ \A i \in 1..Len(list) : SubdeviceOK(list[i])
    <3>1. CASE HasSubdevice(name)
      BY <1>2, <3>1
    <3>2. CASE ~HasSubdevice(name)
      <4>1. \A i \in 1..Len(dev.subdevices) : dev.subdevices[i].name # item.name
        BY <2>2, <3>2 DEF HasSubdevice
      <4> HIDE DEF item
      <4>2. /\ Append(dev.subdevices, item) \in Seq(Subdevices)
            /\ NamesDiffer(Append(dev.subdevices, item))
            /\ \A i \in 1..Len(Append(dev.subdevices, item)) :
                 \/ Append(dev.subdevices, item)[i] = item
                 \/ \E j \in 1..Len(dev.subdevices) :
                      Append(dev.subdevices, item)[i] = dev.subdevices[j]
        BY <1>2, <2>2, <4>1, ItemAdded
      <4> QED
        BY <1>2, <2>2, <3>2, <4>2
    <3> QED
      BY <3>1, <3>2
  <2>4. Call([dev EXCEPT !.subdevices = list])
    BY <2>1
  <2> HIDE DEF list
  <2> QED
    BY <2>3, <2>4, WithSubdevices, CallKeeps
<1>10. CASE SetSubdeviceSize
  <2>1. PICK name \in script.subdevices, size \in script.sizes :
          LET Sized(sub) == [sub EXCEPT !.width = Larger(1, size[1]), !.height = Larger(1, size[2])]
          IN Call([dev EXCEPT !.subdevices = Replace(dev.subdevices, name, Sized)])
    BY <1>10 DEF SetSubdeviceSize
  <2> DEFINE w == Larger(1, size[1])
             h == Larger(1, size[2])
             Sized(sub) == [sub EXCEPT !.width = w, !.height = h]
             list == [i \in 1..Len(dev.subdevices) |->
                        IF dev.subdevices[i].name = name THEN Sized(dev.subdevices[i])
                        ELSE dev.subdevices[i]]
  <2>2. w \in Nat \ {0} /\ h \in Nat \ {0}
    <3>1. size[1] \in Int /\ size[2] \in Int
      BY DEF ScriptOK, Cells
    <3> QED
      BY <3>1 DEF Larger
  <2>3. Call([dev EXCEPT !.subdevices = list])
    BY <2>1 DEF Replace
  <2> HIDE DEF w, h
  <2>4. ASSUME NEW sub \in Subdevices, SubdeviceOK(sub)
        PROVE  Sized(sub) \in Subdevices /\ SubdeviceOK(Sized(sub)) /\ Sized(sub).name = sub.name
    <3> DEFINE one == [sub EXCEPT !.width = w]
               new == [one EXCEPT !.height = h]
    <3>1. Sized(sub) = new
      OBVIOUS
    <3>2. /\ one \in Subdevices /\ one.name = sub.name /\ one.names = sub.names
          /\ one.positions = sub.positions /\ one.index = sub.index /\ one.colors = sub.colors
      BY <2>2 DEF Subdevices
    <3> HIDE DEF one
    <3>3. /\ new \in Subdevices /\ new.name = sub.name /\ new.names = sub.names
          /\ new.positions = sub.positions /\ new.index = sub.index /\ new.colors = sub.colors
      BY <2>2, <3>2 DEF Subdevices
    <3> HIDE DEF new, Sized
    <3> QED
      BY <2>4, <3>1, <3>3 DEF SubdeviceOK, SubdeviceLedCount
  <2> HIDE DEF Sized
  <2>5. \A i \in 1..Len(dev.subdevices) :
          /\ list[i] \in Subdevices /\ SubdeviceOK(list[i])
          /\ list[i].name = dev.subdevices[i].name
    BY <1>2, <2>4
  <2>6. list \in [1..Len(dev.subdevices) -> Subdevices]
    BY <2>5
  <2> HIDE DEF list
  <2>7. list \in Seq(Subdevices) /\ Len(list) = Len(dev.subdevices) /\ NamesDiffer(list)
    BY <1>2, <2>5, <2>6, ItemsReplaced
  <2>8. DeviceOK([dev EXCEPT !.subdevices = list])
    BY <2>5, <2>7, WithSubdevices
  <2> QED
    BY <2>3, <2>8, CallKeeps
<1>11. CASE SetSubdeviceLeds
  <2>1. PICK name \in script.subdevices, leds \in script.leds :
          LET Listed(sub) == WithLeds(sub, leds)
          IN Call([dev EXCEPT !.subdevices = Replace(dev.subdevices, name, Listed)])
    BY <1>11 DEF SetSubdeviceLeds
  <2> DEFINE list == [i \in 1..Len(dev.subdevices) |->
                        IF dev.subdevices[i].name = name THEN WithLeds(dev.subdevices[i], leds)
                        ELSE dev.subdevices[i]]
  <2>2. Call([dev EXCEPT !.subdevices = list])
    BY <2>1 DEF Replace
  <2>3. \A i \in 1..Len(dev.subdevices) :
          /\ list[i] \in Subdevices /\ SubdeviceOK(list[i])
          /\ list[i].name = dev.subdevices[i].name
    BY <1>2, LedsKeep DEF ScriptOK
  <2>4. list \in [1..Len(dev.subdevices) -> Subdevices]
    BY <2>3
  <2> HIDE DEF list
  <2>5. list \in Seq(Subdevices) /\ Len(list) = Len(dev.subdevices) /\ NamesDiffer(list)
    BY <1>2, <2>3, <2>4, ItemsReplaced
  <2>6. DeviceOK([dev EXCEPT !.subdevices = list])
    BY <2>3, <2>5, WithSubdevices
  <2> QED
    BY <2>2, <2>6, CallKeeps
<1>12. CASE RemoveSubdevice
  <2>1. PICK name : Call([dev EXCEPT !.subdevices = Without(dev.subdevices, name)])
    BY <1>12 DEF RemoveSubdevice
  <2>2. DeviceOK([dev EXCEPT !.subdevices = Without(dev.subdevices, name)])
    <3>1. /\ Without(dev.subdevices, name) \in Seq(Subdevices)
          /\ NamesDiffer(Without(dev.subdevices, name))
          /\ \A i \in 1..Len(Without(dev.subdevices, name)) : \E j \in 1..Len(dev.subdevices) :
               Without(dev.subdevices, name)[i] = dev.subdevices[j]
      BY <1>2, ItemsLeft
    <3> QED
      BY <1>2, <3>1, WithSubdevices
  <2> QED
    BY <2>1, <2>2, CallKeeps
<1> QED
  BY <1>3, <1>4, <1>6, <1>7, <1>8, <1>9, <1>10, <1>11, <1>12 DEF HostCall

-----------------------------------------------------------------------------
(* The zones of a device.                                                  *)

Zones ==
  [kind : {"main", "channel", "subdevice"},
   key : {"main"} \cup script.channels \cup script.subdevices,
   width : Nat \ {0}, height : Nat, count : Nat, min : Nat, max : Nat, map : Seq(Int)]

\* A zone as it is built: a channel's has no map, the size of any other is fixed.
BuiltOK(z) ==
  /\ z.count = z.max
  /\ IF z.kind = "channel" THEN z.map = <<>> ELSE z.min = z.max

\* Each cell of a canvas, row by row, holds its last LED.
HoldsLeds(map, width, height, positions) ==
  \A c \in 1..width * height :
    LET held == Holders(positions, <<(c - 1) % width, (c - 1) \div width>>)
    IN map[c] = IF held = {} THEN NoLed ELSE Max(held) - 1

\* The map of a canvas with rows and columns has its cells in order.
LEMMA MapTyped ==
  ASSUME NEW width \in Nat, NEW height \in Nat, NEW count \in Nat, NEW positions \in Positions
  PROVE  LET map == BuildMatrixMap(width, height, count, positions)
         IN /\ map \in Seq(Int)
            /\ width > 1 /\ height > 1 =>
                 /\ Len(map) = width * height /\ Len(map) # 0
                 /\ positions # <<>> => HoldsLeds(map, width, height, positions)
<1> DEFINE map == BuildMatrixMap(width, height, count, positions)
           Held(c) == Holders(positions, <<(c - 1) % width, (c - 1) \div width>>)
           n == width * height
<1>1. CASE width =< 1 \/ height =< 1
  <2>1. map = <<>>
    BY <1>1 DEF BuildMatrixMap
  <2> QED
    BY <1>1, <2>1, EmptySeq DEF HoldsLeds
<1>2. CASE ~(width =< 1 \/ height =< 1)
  <2>1. n \in Nat /\ n # 0
    BY <1>2
  <2>2. map = [c \in 1..n |-> IF positions = <<>> THEN IF c =< count THEN c - 1 ELSE NoLed
                              ELSE IF Held(c) = {} THEN NoLed ELSE Max(Held(c)) - 1]
    BY <1>2 DEF BuildMatrixMap
  <2> HIDE DEF n
  <2>3. \A c \in 1..n : Held(c) # {} => Max(Held(c)) \in Int
    <3> TAKE c \in 1..n
    <3>1. Len(positions) \in Nat
      BY LenProperties DEF Positions
    <3>2. Held(c) \in SUBSET (1..Len(positions))
      BY DEF Holders
    <3> HIDE DEF Held
    <3>3. Held(c) # {} => Max(Held(c)) \in 1..Len(positions)
      BY <3>1, <3>2, MaxOfPlaces
    <3> QED
      BY <3>1, <3>3
  <2> HIDE DEF Held, map
  <2>4. \A c \in 1..n : map[c] \in Int
    BY <2>1, <2>2, <2>3 DEF NoLed
  <2>5. map \in [1..n -> Int]
    BY <2>2, <2>4
  <2>6. map \in Seq(Int) /\ Len(map) = n
    BY <2>1, <2>5, SeqDef, LenProperties
  <2>7. positions # <<>> =>
          \A c \in 1..n : map[c] = IF Held(c) = {} THEN NoLed ELSE Max(Held(c)) - 1
    BY <2>2
  <2> QED
    BY <2>1, <2>6, <2>7 DEF map, Held, n, HoldsLeds
<1> QED
  BY <1>1, <1>2

\* The parts of the topology.
LEMMA TopologyFields ==
  /\ Topology.main = [width |-> dev.width, height |-> dev.height, count |-> CurrentMainLedCount,
                      canvas |-> dev.width * dev.height, positions |-> dev.positions]
  /\ Topology.channels = [i \in 1..Len(dev.channels) |->
                            [name |-> dev.channels[i].name, count |-> dev.channels[i].count,
                             limit |-> dev.channels[i].limit]]
  /\ Topology.subdevices = [i \in 1..Len(dev.subdevices) |->
                              LET sub == dev.subdevices[i]
                              IN [name |-> sub.name, width |-> sub.width, height |-> sub.height,
                                  count |-> SubdeviceLedCount(sub), positions |-> sub.positions]]
BY DEF Topology

\* The main zone.
LEMMA MainBuilt ==
  ASSUME DeviceOK(dev)
  PROVE  LET z == MainZone(Topology.main)
             positions == IF dev.positions = <<>> THEN Meta.positions ELSE dev.positions
         IN /\ z \in Zones /\ BuiltOK(z) /\ z.kind = "main" /\ z.key = "main"
            /\ z.width = dev.width
            /\ z.map = BuildMatrixMap(dev.width, dev.height, z.count, positions)
            /\ dev.positions # <<>> => Topology.main.count > 0
<1> DEFINE main == Topology.main
           count == Larger(1, IF main.count > 0 THEN main.count ELSE main.canvas)
           positions == IF main.positions = <<>> THEN Meta.positions ELSE main.positions
           map == BuildMatrixMap(main.width, main.height, count, positions)
           z == MainZone(main)
<1>1. /\ dev.width \in Nat \ {0} /\ dev.height \in Nat \ {0} /\ dev.count \in Nat
      /\ dev.positions \in Positions
  BY DEF DeviceOK, Devices
<1>2. /\ main.width = dev.width /\ main.height = dev.height /\ main.count = CurrentMainLedCount
      /\ main.canvas = dev.width * dev.height /\ main.positions = dev.positions
  BY TopologyFields
<1>3. /\ CurrentMainLedCount \in Nat /\ dev.width * dev.height \in Nat
      /\ dev.positions # <<>> => CurrentMainLedCount > 0
  <2>1. Len(dev.positions) \in Nat /\ (dev.positions # <<>> => Len(dev.positions) \in Nat \ {0})
    BY <1>1, EmptySeq, LenProperties DEF Positions
  <2>2. dev.width * dev.height \in Nat
    BY <1>1
  <2> QED
    BY <1>1, <2>1, <2>2 DEF CurrentMainLedCount
<1>4. z = [kind |-> "main", key |-> "main", width |-> main.width, height |-> main.height,
           count |-> count, min |-> count, max |-> count, map |-> map]
  BY DEF MainZone, Zone
<1> HIDE DEF main
<1>5. count \in Nat
  BY <1>2, <1>3 DEF Larger
<1>6. positions \in Positions
  BY <1>1, <1>2, MetaAssumption DEF Positions
<1> HIDE DEF count, positions
<1>7. map \in Seq(Int)
  BY <1>1, <1>2, <1>5, <1>6, MapTyped
<1> HIDE DEF map, z
<1>8. z \in Zones /\ BuiltOK(z) /\ z.kind = "main" /\ z.key = "main"
  BY <1>1, <1>2, <1>4, <1>5, <1>7 DEF Zones, BuiltOK
<1>9. z.width = dev.width /\ z.count = count /\ z.map = map
  BY <1>2, <1>4
<1> QED
  BY <1>2, <1>3, <1>8, <1>9 DEF z, map, positions, main

\* The zones of the channels, in their order.
LEMMA ChannelsBuilt ==
  ASSUME DeviceOK(dev)
  PROVE  LET list == ChannelZones(Topology)
         IN /\ list \in Seq(Zones) /\ Len(list) = Len(dev.channels)
            /\ \A i \in 1..Len(dev.channels) :
                 LET channel == dev.channels[i]
                 IN /\ BuiltOK(list[i]) /\ list[i].kind = "channel" /\ list[i].key = channel.name
                    /\ list[i] = ChannelZone([name |-> channel.name, count |-> channel.count,
                                              limit |-> channel.limit])
                    /\ list[i].max = Larger(1, Larger(channel.count, channel.limit))
<1> DEFINE list == ChannelZones(Topology)
           Shown(i) == [name |-> dev.channels[i].name, count |-> dev.channels[i].count,
                        limit |-> dev.channels[i].limit]
           Most(i) == Larger(1, Larger(dev.channels[i].count, dev.channels[i].limit))
<1>1. Len(dev.channels) \in Nat /\ \A i \in 1..Len(dev.channels) : dev.channels[i] \in Channels
  BY LenProperties DEF DeviceOK, Devices
<1>2. /\ Len(Topology.channels) = Len(dev.channels)
      /\ \A i \in 1..Len(dev.channels) : Topology.channels[i] = Shown(i)
  BY <1>1, TopologyFields
<1>3. list = [i \in 1..Len(dev.channels) |-> ChannelZone(Shown(i))]
  BY <1>2 DEF ChannelZones
<1>4. \A i \in 1..Len(dev.channels) :
        ChannelZone(Shown(i)) = [kind |-> "channel", key |-> dev.channels[i].name,
          width |-> Most(i), height |-> 1, count |-> Most(i), min |-> 0, max |-> Most(i),
          map |-> <<>>]
  BY DEF ChannelZone, Zone
<1>5. \A i \in 1..Len(dev.channels) : Most(i) \in Nat \ {0}
  BY <1>1 DEF Larger, Channels
<1>6. \A i \in 1..Len(dev.channels) : dev.channels[i].name \in script.channels
  BY <1>1 DEF Channels
<1>7. <<>> \in Seq(Int)
  BY EmptySeq
<1> HIDE DEF Most
<1>8. \A i \in 1..Len(dev.channels) :
        /\ ChannelZone(Shown(i)) \in Zones /\ BuiltOK(ChannelZone(Shown(i)))
        /\ ChannelZone(Shown(i)).kind = "channel"
        /\ ChannelZone(Shown(i)).key = dev.channels[i].name
        /\ ChannelZone(Shown(i)).max = Most(i)
  <2> TAKE i \in 1..Len(dev.channels)
  <2> DEFINE z == ChannelZone(Shown(i))
             none == <<>>
  <2>1. z = [kind |-> "channel", key |-> dev.channels[i].name, width |-> Most(i), height |-> 1,
             count |-> Most(i), min |-> 0, max |-> Most(i), map |-> none]
    BY <1>4
  <2>2. none \in Seq(Int) /\ Most(i) \in Nat \ {0} /\ dev.channels[i].name \in script.channels
    BY <1>5, <1>6, <1>7
  <2> HIDE DEF none, z
  <2>3. z \in Zones
    BY <2>1, <2>2 DEF Zones
  <2>4. /\ z.kind = "channel" /\ z.key = dev.channels[i].name /\ z.max = Most(i)
        /\ z.count = Most(i) /\ z.map = none
    BY <2>1
  <2>5. BuiltOK(z)
    BY <2>4 DEF BuiltOK, none
  <2> QED
    BY <2>3, <2>4, <2>5 DEF z
<1> HIDE DEF list, Shown
<1>9. list \in [1..Len(dev.channels) -> Zones]
  BY <1>3, <1>8
<1>10. list \in Seq(Zones) /\ Len(list) = Len(dev.channels)
  BY <1>1, <1>9, SeqDef, LenProperties
<1>11. \A i \in 1..Len(dev.channels) : list[i] = ChannelZone(Shown(i))
  BY <1>3
<1> QED
  BY <1>8, <1>10, <1>11 DEF list, Shown, Most

=============================================================================
