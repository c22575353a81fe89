--------------------------- MODULE MCDeviceTopology ---------------------------
(* Instances of DeviceTopology for TLC.                                    *)
EXTENDS DeviceTopology

\* A script that describes its device itself, and one whose metadata places
\* three LEDs on a canvas of two by two.
BareMeta == [width |-> 0, height |-> 0, names |-> 0, positions |-> <<>>]
PlacedMeta == [width |-> 2, height |-> 2, names |-> 3,
               positions |-> << <<0, 0>>, <<1, 0>>, <<1, 1>> >>]

OneRow == << 2, 0 >>
Canvas == << 2, 2 >>

\* No LEDs; two names; LEDs out of order; two on one cell and one off the
\* canvas.
NoLeds == [names |-> 0, positions |-> <<>>]
NamedLeds == [names |-> 2, positions |-> <<>>]
CrossedLeds == [names |-> 2, positions |-> << <<1, 0>>, <<0, 0>> >>]
StackedLeds == [names |-> 1, positions |-> << <<0, 1>>, <<0, 1>>, <<2, 0>> >>]


\* Channels beside a main zone; a negative limit is no limit, and 1 cuts a frame of
\* two.
ChannelScript ==
  [sizes |-> {Canvas}, leds |-> {NoLeds, CrossedLeds}, channels |-> {"c", "d"},
   limits |-> {-1, 1, 2}, subdevices |-> {}, calls |-> 2]

\* A main canvas beside a subdevice.
CanvasScript ==
  [sizes |-> {OneRow, Canvas}, leds |-> {NoLeds, CrossedLeds, StackedLeds}, channels |-> {},
   limits |-> {}, subdevices |-> {"s"}, calls |-> 3]

\* A main zone alone.
PlainScript ==
  [sizes |-> {Canvas}, leds |-> {NoLeds, NamedLeds, CrossedLeds, StackedLeds},
   channels |-> {}, limits |-> {}, subdevices |-> {}, calls |-> 3]

BothScripts == {ChannelScript, CanvasScript}
OneCanvas == {CanvasScript}
OnlyPlain == {PlainScript}

=============================================================================
