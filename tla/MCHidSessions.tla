----------------------------- MODULE MCHidSessions -----------------------------
(* Instances of HidSessions for TLC.                                       *)
EXTENDS HidSessions

Collection(usage, page, n) == [usage |-> usage, page |-> page, collection |-> n]
HidEntry(path, group, interface, usage, page) ==
  [path |-> path, group |-> group, interface |-> interface, usage |-> usage, page |-> page]

\* The descriptors: paths 1 to 3 are Windows', with one collection each, 4 and 5
\* Linux's, with two collections or one, and 6 and 7 skip a number or have a
\* usage twice; 8 has none.
Descriptors ==
  << << Collection(1, 65280, 0) >>, << Collection(1, 65280, 0) >>, << Collection(1, 65281, 0) >>,
     << Collection(2, 65299, 0), Collection(1, 65299, 1) >>, << Collection(1, 65299, 0) >>,
     << Collection(2, 1, 1), Collection(1, 1, 2) >>,
     << Collection(1, 1, 0), Collection(1, 1, 1) >>, << >> >>

\* A keyboard with two collections of the same usage on one interface, and
\* another keyboard.
WindowsList == << HidEntry(2, "a", 0, 1, 65280), HidEntry(1, "a", 0, 1, 65280),
                  HidEntry(3, "b", 0, 1, 65281) >>

\* A keyboard with a collection on each of two interfaces, and another one.
TwoInterfaces == << HidEntry(1, "a", 0, 1, 65280), HidEntry(3, "a", 1, 1, 65281),
                    HidEntry(2, "b", 0, 1, 65280) >>

\* An interface with two collections on one path, listed in the order opposite
\* to that of its descriptor, and another device.
LinuxList == << HidEntry(4, "a", 3, 1, 65299), HidEntry(4, "a", 3, 2, 65299),
                HidEntry(5, "b", 3, 1, 65299) >>

\* All lists of up to four collections: on two paths of one interface, and on
\* another interface.
OddEntries == {HidEntry(path, "a", 0, usage, 1) : path \in 6..7, usage \in 1..2}
                \cup {HidEntry(8, "a", 1, 1, 1)}
OddLists == UNION {[1..n -> OddEntries] : n \in 1..4}

\* The keyboard alone.
WindowsPair == SubSeq(WindowsList, 1, 2)

AllLayouts == {WindowsPair, WindowsList, LinuxList, TwoInterfaces} \cup OddLists
OnTwoInterfaces == {TwoInterfaces}

\* Any descriptor of Windows may be unreadable.  Linux's, whose order differs
\* from the list's, can all be read; of the odd lists only the second may not.
SomeReadings(list) ==
  IF list \in {WindowsPair, WindowsList} THEN SUBSET (1..Len(list))
  ELSE IF list \in OddLists THEN {{6}, {6, 7}}
  ELSE {1..8}
AllReadable(list) == {1..8}

\* Two scripts match the pair. The odd lists are for the numbers: no script
\* matches their devices.
SomeScripts(list) ==
  IF list = WindowsPair THEN 2 ELSE IF list \in OddLists THEN 0 ELSE 1
OneScript(list) == 1

\* The scripts of the devices on two interfaces give their reads a timeout.
BlockingReads(list) == list # TwoInterfaces

AskedOf(interfaces, pages, numbers) ==
  {[interface |-> i, usage |-> 1, page |-> p, collection |-> n] :
     i \in interfaces, p \in pages, n \in numbers}
SomeAsked == AskedOf({-1, 0, 1, 3}, {65280, 65299}, {-1, 0, 1})
NothingAsked == {}

=============================================================================
