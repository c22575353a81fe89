--------------------------- MODULE HidSessionsProofs ---------------------------
(***************************************************************************)
(* What is proved of HidSessions, for any lists of devices, descriptors,   *)
(* numbers of scripts and questions of scripts, whether reads have a       *)
(* timeout or not: no handle is lost, calls find their device open, a      *)
(* device is open for one controller, what is ambiguous is refused, and a  *)
(* script is told of each collection of its device once, under a number    *)
(* that follows the descriptor.                                            *)
(***************************************************************************)
EXTENDS HidSessions, FiniteSetTheorems, WellFoundedInduction, TLAPS

IsSession(s) ==
  s = [phase |-> s.phase, handles |-> s.handles, advertised |-> s.advertised,
       todo |-> s.todo, active |-> s.active, closing |-> s.closing, call |-> s.call]

Shape ==
  /\ devices \in Layouts
  /\ session = [c \in Rounds |-> session[c]]
  /\ \A c \in Rounds : IsSession(session[c])

Exists(c) == session[c].phase \notin {"none", "gone"}

\* The loops: a round begins after the ones before it; a controller that exists
\* is the one under construction or has its device's group; and none exists
\* before the first enumeration.
LoopsOK ==
  /\ position \in Nat
  /\ building # 0 => building = position /\ building \in Rounds
  /\ \A c \in Rounds :
       c > position \/ (c = position /\ building = 0) \/ collections = <<>>
       => session[c].phase = "none"
  /\ \A c \in Rounds : Exists(c) /\ c # building => Group(c) \in open_groups
  /\ \A c, d \in Rounds : Exists(c) /\ Exists(d) /\ Group(c) = Group(d) => c = d

Owns(c, handle) == \E key \in DOMAIN session[c].handles : session[c].handles[key] = handle

\* What each phase of a controller says of its handles and its script.
PhaseOK(c) ==
  LET s == session[c]
  IN /\ s.phase \in Constructing => building = c
     /\ s.phase \in {"none", "opening", "gone"} => s.handles = <<>>
     /\ s.phase # "closing" => s.closing = NoHandle
     /\ s.phase \notin Running => s.active = NoHandle /\ s.call = "none"
     /\ s.active # NoHandle => Owns(c, s.active)
     /\ s.call \in {"waiting", "transfer", "blocked"} => s.active # NoHandle
     /\ s.phase \in {"collecting", "endpoints"} => PrimaryKey(c) \in DOMAIN s.handles

PhasesOK == \A c \in Rounds : PhaseOK(c)

\* The handles of the backend: each in the table is one endpoint's of one session
\* and open on an entry of its device; the others are being closed, by one session
\* each.
HandlesOK ==
  /\ next_handle \in Nat /\ next_handle > 0
  /\ \A h \in opened : h \in Nat /\ h > 0 /\ h < next_handle
  /\ \A h \in DOMAIN table : h \in opened /\ \E c \in Rounds : Owns(c, h)
  /\ \A c \in Rounds : \A key \in DOMAIN session[c].handles :
       /\ session[c].handles[key] \in DOMAIN table
       /\ devices[table[session[c].handles[key]]].group = Group(c)
  /\ \A c, d \in Rounds : \A k \in DOMAIN session[c].handles, l \in DOMAIN session[d].handles :
       session[c].handles[k] = session[d].handles[l] => c = d /\ k = l
  /\ \A c \in Rounds : session[c].closing # NoHandle =>
       /\ session[c].closing \in opened /\ session[c].closing \notin DOMAIN table
       /\ \A d \in Rounds : session[d].closing = session[c].closing => d = c
  /\ \A h \in opened : h \in DOMAIN table \/ \E c \in Rounds : session[c].closing = h

\* What is still to be opened are entries of the controller's device.
TodoOK ==
  \A c \in Rounds : \A item \in session[c].todo : devices[item.entry].group = Group(c)

IInv == Shape /\ LoopsOK /\ PhasesOK /\ HandlesOK /\ TodoOK

-----------------------------------------------------------------------------
\* Rounds are numbers from 1 on.
LEMMA RoundsAreNumbers ==
  ASSUME devices \in Layouts
  PROVE  LastRound \in Nat /\ \A c \in Rounds : c \in Nat /\ c > 0 /\ c <= LastRound
<1>1. Scripts(devices) \in Nat
  BY ScriptsAssumption
<1>2. Len(devices) \in Nat
  BY LayoutsAssumption
<1>3. LastRound \in Nat
  BY <1>1, <1>2 DEF LastRound
<1> QED
  BY <1>3 DEF Rounds

\* There are no controllers at first, and no handles.
LEMMA InitInvariant == Init => IInv
<1> SUFFICES ASSUME Init PROVE IInv
  OBVIOUS
<1>1. devices \in Layouts /\ session = [c \in Rounds |-> NoSession]
  BY DEF Init
<1>2. \A c \in Rounds : session[c] = NoSession
  BY <1>1
<1>3. Shape
  BY <1>1, <1>2 DEF Shape, IsSession, NoSession
<1>4. LoopsOK
  BY <1>2 DEF Init, LoopsOK, Exists, NoSession
<1>5. PhasesOK
  BY <1>2 DEF PhasesOK, PhaseOK, NoSession, Constructing, Running, NoHandle
<1>6. HandlesOK
  <2>1. \A c \in Rounds : session[c].handles = <<>> /\ session[c].closing = NoHandle
    BY <1>2 DEF NoSession
  <2>2. DOMAIN <<>> = {}
    OBVIOUS
  <2> QED
    BY <2>1, <2>2 DEF Init, HandlesOK, NoHandle
<1>7. TodoOK
  BY <1>2 DEF TodoOK, NoSession
<1> QED
  BY <1>3, <1>4, <1>5, <1>6, <1>7 DEF IInv

-----------------------------------------------------------------------------
(* What a step of one controller leaves as it is.                          *)

\* The step gives controller c the session s.
Becomes(c, s) == session' = [session EXCEPT ![c] = s] /\ devices' = devices

\* Nothing else is changed by it, and what is derived from the list stays.
LEMMA OneChanges ==
  ASSUME Shape, NEW c \in Rounds, NEW s, IsSession(s), Becomes(c, s)
  PROVE  /\ Rounds' = Rounds /\ \A d : Group(d)' = Group(d)
         /\ session'[c] = s /\ \A d \in Rounds \ {c} : session'[d] = session[d]
         /\ Shape'
<1>1. Rounds' = Rounds /\ \A d : Group(d)' = Group(d)
  BY DEF Becomes, Rounds, LastRound, Group, Entry
<1>2. session'[c] = s /\ \A d \in Rounds \ {c} : session'[d] = session[d]
  BY DEF Becomes, Shape
<1>3. session' = [d \in Rounds |-> session'[d]]
  BY DEF Becomes, Shape
<1> QED
  BY <1>1, <1>2, <1>3 DEF Becomes, Shape, IsSession

\* The other controllers are in the phases they were in.
LEMMA OthersKeepPhase ==
  ASSUME IInv, NEW c \in Rounds, NEW s, IsSession(s), Becomes(c, s),
         collections' = collections, building' = building \/ building \in {0, c}
  PROVE  \A d \in Rounds \ {c} : PhaseOK(d)'
<1>1. \A d \in Rounds \ {c} : session'[d] = session[d] /\ PhaseOK(d)
  BY OneChanges DEF IInv, PhasesOK
<1>2. \A d : PrimaryKey(d)' = PrimaryKey(d)
  BY DEF Becomes, PrimaryKey, Entry
<1>3. \A d \in Rounds : d # 0
  BY RoundsAreNumbers DEF IInv, Shape
<1> QED
  BY <1>1, <1>2, <1>3 DEF PhaseOK, Owns

\* The loops are where they were, if no controller begins or ends.
LEMMA LoopsStay ==
  ASSUME IInv, NEW c \in Rounds, NEW s, IsSession(s), Becomes(c, s),
         UNCHANGED <<collections, worker>>, Exists(c), s.phase \notin {"none", "gone"}
  PROVE  LoopsOK'
<1>1. /\ Rounds' = Rounds /\ \A d : Group(d)' = Group(d)
      /\ session'[c] = s /\ \A d \in Rounds \ {c} : session'[d] = session[d]
  BY OneChanges DEF IInv
<1>2. \A d \in Rounds : Exists(d)' = Exists(d)
  BY <1>1 DEF Exists
<1>3. \A d \in Rounds : session'[d].phase = "none" <=> session[d].phase = "none"
  BY <1>1 DEF Exists
<1> QED
  BY <1>1, <1>2, <1>3 DEF IInv, LoopsOK, worker

\* The backend is as it was, if the controller keeps its handles.
LEMMA HandlesStay ==
  ASSUME IInv, NEW c \in Rounds, NEW s, IsSession(s), Becomes(c, s),
         UNCHANGED backend, s.handles = session[c].handles, s.closing = session[c].closing
  PROVE  HandlesOK'
<1>1. /\ Rounds' = Rounds /\ \A d : Group(d)' = Group(d)
      /\ \A d \in Rounds : /\ session'[d].handles = session[d].handles
                           /\ session'[d].closing = session[d].closing
  BY OneChanges DEF IInv
<1>2. \A d \in Rounds : \A h : Owns(d, h)' <=> Owns(d, h)
  BY <1>1 DEF Owns
<1> QED
  BY <1>1, <1>2 DEF IInv, HandlesOK, backend, Becomes

\* So are the endpoints to open, if those that are added are the device's.
LEMMA TodoStays ==
  ASSUME IInv, NEW c \in Rounds, NEW s, IsSession(s), Becomes(c, s),
         \A item \in s.todo : item \in session[c].todo \/ devices[item.entry].group = Group(c)
  PROVE  TodoOK'
<1>1. /\ Rounds' = Rounds /\ \A d : Group(d)' = Group(d)
      /\ session'[c] = s /\ \A d \in Rounds \ {c} : session'[d] = session[d]
  BY OneChanges DEF IInv
<1> QED
  BY <1>1 DEF IInv, TodoOK, Becomes

-----------------------------------------------------------------------------
(* The discovery.                                                          *)

\* The steps of the loops that construct nothing.
LEMMA LoopsMove ==
  ASSUME IInv, Enumerate \/ PassOver \/ Abort
  PROVE  IInv'
<1> USE DEF IInv
<1>1. UNCHANGED <<devices, building, open_groups, session, backend>>
  BY DEF Enumerate, PassOver, Abort, worker
<1>2. Rounds' = Rounds /\ \A d : Group(d)' = Group(d)
  BY <1>1 DEF Rounds, LastRound, Group, Entry
<1>3. Shape'
  BY <1>1, <1>2 DEF Shape, IsSession
<1>4. LoopsOK' /\ PhasesOK'
  <2>1. CASE Enumerate
    <3>1. \A c \in Rounds : session[c].phase = "none"
      BY <2>1 DEF Enumerate, LoopsOK
    <3>2. position' = position
      BY <2>1 DEF Enumerate, worker
    <3>3. LoopsOK'
      BY <1>1, <1>2, <3>1, <3>2 DEF LoopsOK, Exists
    <3>4. PhasesOK'
      BY <1>1, <1>2, <3>1 DEF PhasesOK, PhaseOK, Owns, Constructing
    <3> QED
      BY <3>3, <3>4
  <2>2. CASE PassOver \/ Abort
    <3>1. collections' = collections /\ collections # <<>> /\ building = 0
      BY <2>2 DEF PassOver, Abort, Matches
    <3>2. position' \in Nat /\ position' > position
      BY <2>2, RoundsAreNumbers DEF PassOver, Abort, Matches, LoopsOK, Shape
    <3>3. LoopsOK'
      BY <1>1, <1>2, <3>1, <3>2, RoundsAreNumbers DEF LoopsOK, Exists, Shape
    <3>4. \A d : PrimaryKey(d)' = PrimaryKey(d)
      BY <1>1, <3>1 DEF PrimaryKey, Entry
    <3>5. PhasesOK'
      BY <1>1, <1>2, <3>4 DEF PhasesOK, PhaseOK, Owns
    <3> QED
      BY <3>3, <3>5
  <2> QED
    BY <2>1, <2>2
<1>5. HandlesOK'
  BY <1>1, <1>2 DEF HandlesOK, Owns, backend
<1>6. TodoOK'
  BY <1>1, <1>2 DEF TodoOK
<1> QED
  BY <1>3, <1>4, <1>5, <1>6

\* A new controller, for a device that has none.
LEMMA ConstructKeeps ==
  ASSUME IInv, Construct
  PROVE  IInv'
<1>0. PICK c \in Rounds : c = position
  BY DEF Construct, Matches
<1> DEFINE s == [session[c] EXCEPT !.phase = "opening"]
<1>1. c = position /\ collections # <<>> /\ building = 0 /\ Group(c) \notin open_groups
  BY <1>0 DEF Construct, Matches
<1>2. session[c].phase = "none" /\ PhaseOK(c)
  BY <1>1 DEF IInv, LoopsOK, PhasesOK
<1>3. IsSession(s) /\ s.phase = "opening" /\ s.handles = session[c].handles
      /\ s.closing = session[c].closing /\ s.todo = session[c].todo
      /\ s.active = session[c].active /\ s.call = session[c].call
  BY <1>1 DEF IInv, Shape, IsSession
<1>4. Becomes(c, s)
  BY <1>1 DEF Construct, Becomes
<1>5. UNCHANGED <<collections, position, open_groups, backend>> /\ building' = c
  BY <1>1 DEF Construct
<1> HIDE DEF s
<1>6. /\ Rounds' = Rounds /\ \A d : Group(d)' = Group(d)
      /\ session'[c] = s /\ \A d \in Rounds \ {c} : session'[d] = session[d]
      /\ Shape'
  BY <1>1, <1>3, <1>4, OneChanges DEF IInv
<1>7. LoopsOK'
  <2>1. \A d \in Rounds : Exists(d) => Group(d) \in open_groups
    BY <1>1, RoundsAreNumbers DEF IInv, LoopsOK, Shape
  <2>2. \A d \in Rounds : Exists(d)' <=> Exists(d) \/ d = c
    BY <1>3, <1>6 DEF Exists
  <2>3. \A d, e \in Rounds : Exists(d)' /\ Exists(e)' /\ Group(d) = Group(e) => d = e
    BY <1>1, <2>1, <2>2 DEF IInv, LoopsOK
  <2>4. \A d \in Rounds : d > position => session'[d].phase = "none"
    BY <1>1, <1>6, RoundsAreNumbers DEF IInv, LoopsOK, Shape
  <2> QED
    BY <1>1, <1>5, <1>6, <2>1, <2>2, <2>3, <2>4, RoundsAreNumbers DEF IInv, LoopsOK, Shape
<1>8. PhasesOK'
  <2>1. \A d \in Rounds \ {c} : PhaseOK(d)'
    BY <1>1, <1>3, <1>4, <1>5, OthersKeepPhase
  <2>2. PhaseOK(c)'
    BY <1>2, <1>3, <1>5, <1>6 DEF PhaseOK, Constructing, Running, NoHandle
  <2> QED
    BY <1>6, <2>1, <2>2 DEF PhasesOK
<1>9. HandlesOK' /\ TodoOK'
  BY <1>1, <1>3, <1>4, <1>5, HandlesStay, TodoStays DEF backend
<1> QED
  BY <1>6, <1>7, <1>8, <1>9 DEF IInv

-----------------------------------------------------------------------------
(* The calls of the script, and the steps of a controller that is neither  *)
(* opening nor closing anything.                                           *)

\* A step that leaves the handles alone and begins and ends no controller.
Quietly(c, s) ==
  /\ IsSession(s) /\ Becomes(c, s) /\ UNCHANGED <<collections, worker, backend>>
  /\ Exists(c) /\ s.phase \notin {"none", "opening", "gone"}
  /\ s.handles = session[c].handles /\ s.closing = session[c].closing
  /\ \A item \in s.todo : item \in session[c].todo \/ devices[item.entry].group = Group(c)
  /\ s.phase \in Constructing => session[c].phase \in Constructing
  /\ session[c].phase # "closing"
  /\ s.phase \notin Running => s.active = NoHandle /\ s.call = "none"
  /\ s.active # NoHandle => Owns(c, s.active)
  /\ s.call \in {"waiting", "transfer", "blocked"} => s.active # NoHandle
  /\ s.phase \in {"collecting", "endpoints"} => session[c].phase \in {"collecting", "endpoints"}

\* It keeps the invariant.
LEMMA QuietStep ==
  ASSUME IInv, NEW c \in Rounds, NEW s, Quietly(c, s)
  PROVE  IInv'
<1>1. session'[c] = s /\ Rounds' = Rounds /\ Shape'
  BY OneChanges DEF IInv, Quietly
<1>2. LoopsOK' /\ HandlesOK' /\ TodoOK'
  BY LoopsStay, HandlesStay, TodoStays DEF Quietly
<1>3. \A d \in Rounds \ {c} : PhaseOK(d)'
  BY OthersKeepPhase DEF Quietly, worker
<1>4. PhaseOK(c)'
  <2>1. PhaseOK(c)
    BY DEF IInv, PhasesOK
  <2>2. PrimaryKey(c)' = PrimaryKey(c) /\ building' = building
    BY DEF Quietly, Becomes, PrimaryKey, Entry, worker
  <2>3. \A h : Owns(c, h) => Owns(c, h)'
    BY <1>1 DEF Owns, Quietly
  <2> QED
    BY <1>1, <2>1, <2>2, <2>3 DEF PhaseOK, Quietly
<1>5. PhasesOK'
  BY <1>1, <1>3, <1>4 DEF PhasesOK
<1> QED
  BY <1>1, <1>2, <1>5 DEF IInv

\* The endpoint set_endpoint finds is open for the controller.
LEMMA FoundIsOwned ==
  ASSUME NEW c, NEW asked
  PROVE  LET handle == FindEndpointHandle(session[c].handles, asked)
         IN handle # NoHandle => Owns(c, handle)
<1> DEFINE handles == session[c].handles
           searches == Searches(handles, asked)
           single == {n \in 1..4 : Cardinality(searches[n]) = 1}
<1>1. CASE asked \in DOMAIN handles
  BY <1>1 DEF FindEndpointHandle, Owns
<1>2. CASE asked \notin DOMAIN handles /\ single = {}
  BY <1>2 DEF FindEndpointHandle
<1>3. CASE asked \notin DOMAIN handles /\ single # {}
  <2>1. \E n \in single : \A m \in single : n <= m
    <3>1. single \subseteq 1..4
      OBVIOUS
    <3>2. 1 \in single \/ 2 \in single \/ 3 \in single \/ 4 \in single
      BY <1>3, <3>1
    <3> HIDE DEF single
    <3> QED
      BY <3>1, <3>2
  <2>2. Min(single) \in single
    BY <2>1 DEF Min
  <2>3. searches[Min(single)] # {}
    <3>1. Cardinality({}) = 0
      BY FS_EmptySet
    <3> QED
      BY <2>2, <3>1
  <2>4. searches[Min(single)] \subseteq DOMAIN handles
    <3>1. \A any, vendor \in BOOLEAN : Matching(handles, asked, any, vendor) \subseteq DOMAIN handles
      BY DEF Matching
    <3>2. \A n \in 1..4 : searches[n] \subseteq DOMAIN handles
      <4>1. /\ searches[1] = Matching(handles, asked, FALSE, FALSE)
            /\ searches[2] = Matching(handles, asked, FALSE, TRUE)
            /\ searches[3] = Matching(handles, asked, TRUE, FALSE)
            /\ searches[4] = Matching(handles, asked, TRUE, TRUE)
        BY DEF Searches
      <4> HIDE DEF searches
      <4>2. \A n \in 1..4 : n = 1 \/ n = 2 \/ n = 3 \/ n = 4
        OBVIOUS
      <4> QED
        BY <3>1, <4>1, <4>2
    <3> QED
      BY <2>2, <3>2
  <2>5. (CHOOSE key \in searches[Min(single)] : TRUE) \in DOMAIN handles
    BY <2>3, <2>4
  <2>6. FindEndpointHandle(handles, asked) = handles[CHOOSE key \in searches[Min(single)] : TRUE]
    BY <1>3 DEF FindEndpointHandle
  <2> HIDE DEF searches, single
  <2> QED
    BY <2>5, <2>6 DEF Owns
<1> QED
  BY <1>1, <1>2, <1>3

\* A session written with its fields.
LEMMA SessionFields ==
  ASSUME NEW s, IsSession(s)
  PROVE  \E phase, handles, advertised, todo, active, closing, call :
           s = [phase |-> phase, handles |-> handles, advertised |-> advertised,
                todo |-> todo, active |-> active, closing |-> closing, call |-> call]
BY Zenon DEF IsSession

\* A session of which another phase, call or endpoint is active.
InPhase(s, phase, call) == [s EXCEPT !.phase = phase, !.call = call]
WithActive(s, phase, call, active) ==
  [s EXCEPT !.phase = phase, !.call = call, !.active = active]

\* It keeps the other fields.
LEMMA SessionInPhase ==
  ASSUME NEW s, IsSession(s), NEW phase, NEW call
  PROVE  LET new == InPhase(s, phase, call)
         IN /\ IsSession(new) /\ new.phase = phase /\ new.call = call
            /\ new.active = s.active /\ new.handles = s.handles
            /\ new.closing = s.closing /\ new.todo = s.todo
<1>1. PICK p, h, v, t, a, l, k : s = [phase |-> p, handles |-> h, advertised |-> v, todo |-> t,
                                      active |-> a, closing |-> l, call |-> k]
  BY SessionFields
<1> DEFINE one == [s EXCEPT !.phase = phase]
<1>2. one = [phase |-> phase, handles |-> h, advertised |-> v, todo |-> t,
             active |-> a, closing |-> l, call |-> k]
  BY <1>1
<1>3. InPhase(s, phase, call) = [one EXCEPT !.call = call]
  BY DEF InPhase
<1> HIDE DEF one
<1>4. [one EXCEPT !.call = call]
        = [phase |-> phase, handles |-> h, advertised |-> v, todo |-> t,
           active |-> a, closing |-> l, call |-> call]
  BY <1>2
<1> QED
  BY <1>1, <1>3, <1>4 DEF IsSession

\* So it does with another endpoint.
LEMMA SessionWith ==
  ASSUME NEW s, IsSession(s), NEW phase, NEW call, NEW active
  PROVE  LET new == WithActive(s, phase, call, active)
         IN /\ IsSession(new) /\ new.phase = phase /\ new.call = call /\ new.active = active
            /\ new.handles = s.handles /\ new.closing = s.closing /\ new.todo = s.todo
<1> DEFINE two == InPhase(s, phase, call)
<1>1. /\ IsSession(two) /\ two.phase = phase /\ two.call = call
      /\ two.active = s.active /\ two.handles = s.handles
      /\ two.closing = s.closing /\ two.todo = s.todo
  BY SessionInPhase
<1>2. WithActive(s, phase, call, active) = [two EXCEPT !.active = active]
  BY DEF WithActive, InPhase
<1> HIDE DEF two
<1>3. PICK p, h, v, t, a, l, k : two = [phase |-> p, handles |-> h, advertised |-> v, todo |-> t,
                                        active |-> a, closing |-> l, call |-> k]
  BY <1>1, SessionFields
<1>4. [two EXCEPT !.active = active]
        = [phase |-> p, handles |-> h, advertised |-> v, todo |-> t,
           active |-> active, closing |-> l, call |-> k]
  BY <1>3
<1> QED
  BY <1>1, <1>2, <1>3, <1>4 DEF IsSession

\* A script ends and its session is to be closed.
LEMMA CloseQuietly ==
  ASSUME IInv, NEW c \in Rounds, session[c].phase \in Running,
         UNCHANGED <<devices, collections, worker, backend>>,
         session' = [session EXCEPT ![c].phase = "closing", ![c].call = "none",
                                    ![c].active = NoHandle]
  PROVE  Quietly(c, [session[c] EXCEPT !.phase = "closing", !.call = "none",
                                       !.active = NoHandle])
<1> DEFINE s == session[c]
           new == [s EXCEPT !.phase = "closing", !.call = "none", !.active = NoHandle]
<1>1. IsSession(s) /\ PhaseOK(c) /\ session = [d \in Rounds |-> session[d]]
  BY DEF IInv, Shape, PhasesOK
<1>2. session' = [session EXCEPT ![c] = new]
  BY <1>1
<1>3. /\ IsSession(new) /\ new.phase = "closing" /\ new.call = "none"
      /\ new.active = NoHandle /\ new.handles = s.handles
      /\ new.closing = s.closing /\ new.todo = s.todo
  <2>1. new = WithActive(s, "closing", "none", NoHandle)
    BY DEF WithActive
  <2> HIDE DEF new
  <2> QED
    BY <1>1, <2>1, SessionWith
<1> HIDE DEF new
<1> QED
  BY <1>1, <1>2, <1>3 DEF Quietly, Becomes, Exists, Constructing, Running, PhaseOK

\* What the listing of an endpoint leaves as it is.
ListedKeeps(c, item) ==
  LET s == session[c]
      new == Listed(c, item)
  IN /\ IsSession(new) /\ new.phase = s.phase /\ new.handles = s.handles
     /\ new.active = s.active /\ new.closing = s.closing /\ new.call = s.call
     /\ new.todo = s.todo \ {item} /\ new.advertised = s.advertised \cup {item.key}

\* An endpoint that is listed is no longer to be opened.
LEMMA ListedFields ==
  ASSUME NEW c, NEW item, IsSession(session[c])
  PROVE  ListedKeeps(c, item)
<1>1. PICK p, h, v, t, a, l, k :
        session[c] = [phase |-> p, handles |-> h, advertised |-> v, todo |-> t,
                      active |-> a, closing |-> l, call |-> k]
  BY SessionFields
<1> DEFINE one == [session[c] EXCEPT !.advertised = @ \cup {item.key}]
           new == [one EXCEPT !.todo = @ \ {item}]
<1>2. one = [phase |-> p, handles |-> h, advertised |-> v \cup {item.key}, todo |-> t,
             active |-> a, closing |-> l, call |-> k]
  BY <1>1
<1>3. Listed(c, item) = new
  BY <1>1, <1>2 DEF Listed
<1> HIDE DEF one
<1>4. new = [phase |-> p, handles |-> h, advertised |-> v \cup {item.key},
             todo |-> t \ {item}, active |-> a, closing |-> l, call |-> k]
  BY <1>2
<1> HIDE DEF new
<1> QED
  BY <1>1, <1>3, <1>4 DEF IsSession, ListedKeeps

\* The steps of a controller that quietly goes on.
LEMMA ScriptKeeps ==
  ASSUME IInv, NEW c \in Rounds,
         \/ StartScript(c) \/ ConstructionFails(c) \/ Delete(c) \/ ShutdownEnds(c)
         \/ BeginCall(c) \/ EndCall(c) \/ SetEndpoint(c) \/ BeginTransfer(c)
         \/ Transfer(c) \/ TransferEnds(c) \/ OpenEndpointFails(c)
  PROVE  IInv'
<1> DEFINE s == session[c]
<1>1. IsSession(s) /\ PhaseOK(c) /\ session = [d \in Rounds |-> session[d]]
  BY DEF IInv, Shape, PhasesOK
<1>2. UNCHANGED <<devices, collections, worker, backend>>
  BY DEF StartScript, ConstructionFails, Delete, ShutdownEnds, BeginCall, EndCall, SetEndpoint,
     BeginTransfer, Transfer, TransferEnds, OpenEndpointFails
<1>3. CASE StartScript(c)
  <2> DEFINE new == [s EXCEPT !.phase = "initializing", !.call = "script",
                              !.active = s.handles[PrimaryKey(c)]]
  <2>1. session' = [session EXCEPT ![c] = new] /\ s.phase = "endpoints"
    BY <1>1, <1>3 DEF StartScript
  <2>2. Owns(c, s.handles[PrimaryKey(c)])
    BY <1>1, <2>1 DEF PhaseOK, Owns
  <2>3. /\ IsSession(new) /\ new.phase = "initializing" /\ new.call = "script"
        /\ new.active = s.handles[PrimaryKey(c)] /\ new.handles = s.handles
        /\ new.closing = s.closing /\ new.todo = s.todo
    <3>1. new = WithActive(s, "initializing", "script", s.handles[PrimaryKey(c)])
      BY DEF WithActive
    <3> HIDE DEF new
    <3> QED
      BY <1>1, <3>1, SessionWith
  <2> HIDE DEF new
  <2>4. Quietly(c, new)
    BY <1>1, <1>2, <2>1, <2>2, <2>3 DEF Quietly, Becomes, Exists, Constructing, Running
  <2> QED
    BY <2>4, QuietStep
<1>4. CASE ConstructionFails(c)
  <2>1. s.phase = "initializing" /\ s.call = "script"
    BY <1>4 DEF ConstructionFails
  <2>2. CASE session' = [session EXCEPT ![c].phase = "shutdown"]
    <3> DEFINE new == [s EXCEPT !.phase = "shutdown"]
    <3>1. session' = [session EXCEPT ![c] = new]
      BY <1>1, <2>2
    <3>2. /\ IsSession(new) /\ new.phase = "shutdown" /\ new.call = s.call
          /\ new.active = s.active /\ new.handles = s.handles
          /\ new.closing = s.closing /\ new.todo = s.todo
      BY <1>1 DEF IsSession
    <3> HIDE DEF new
    <3>3. Quietly(c, new)
      BY <1>1, <1>2, <2>1, <3>1, <3>2 DEF Quietly, Becomes, Exists, Constructing, Running, PhaseOK
    <3> QED
      BY <3>3, QuietStep
  <2>3. CASE session' = [session EXCEPT ![c].phase = "closing", ![c].call = "none",
                                        ![c].active = NoHandle]
    <3>1. Quietly(c, [s EXCEPT !.phase = "closing", !.call = "none", !.active = NoHandle])
      BY <1>1, <1>2, <2>1, <2>3, CloseQuietly DEF Running
    <3> QED
      BY <3>1, QuietStep
  <2> QED
    BY <1>4, <2>2, <2>3 DEF ConstructionFails
<1>5. CASE Delete(c)
  <2> DEFINE new == [s EXCEPT !.phase = "shutdown", !.call = "script"]
  <2>1. session' = [session EXCEPT ![c] = new] /\ s.phase = "live"
    BY <1>1, <1>5 DEF Delete
  <2>2. /\ IsSession(new) /\ new.phase = "shutdown" /\ new.call = "script"
        /\ new.active = s.active /\ new.handles = s.handles
        /\ new.closing = s.closing /\ new.todo = s.todo
    <3>1. new = InPhase(s, "shutdown", "script")
      BY DEF InPhase
    <3> HIDE DEF new
    <3> QED
      BY <1>1, <3>1, SessionInPhase
  <2> HIDE DEF new
  <2>3. Quietly(c, new)
    BY <1>1, <1>2, <2>1, <2>2 DEF Quietly, Becomes, Exists, Constructing, Running, PhaseOK
  <2> QED
    BY <2>3, QuietStep
<1>6. CASE ShutdownEnds(c)
  <2>1. /\ s.phase = "shutdown"
        /\ session' = [session EXCEPT ![c].phase = "closing", ![c].call = "none",
                                      ![c].active = NoHandle]
    BY <1>6 DEF ShutdownEnds
  <2>2. Quietly(c, [s EXCEPT !.phase = "closing", !.call = "none", !.active = NoHandle])
    BY <1>1, <1>2, <2>1, CloseQuietly DEF Running
  <2> QED
    BY <2>2, QuietStep
<1>7. CASE SetEndpoint(c)
  <2>1. PICK asked \in Asked :
          LET handle == FindEndpointHandle(s.handles, asked)
          IN handle # NoHandle /\ session' = [session EXCEPT ![c].active = handle]
    BY <1>7 DEF SetEndpoint
  <2> DEFINE handle == FindEndpointHandle(s.handles, asked)
             new == [s EXCEPT !.active = handle]
  <2>2. Owns(c, handle)
    BY <2>1, FoundIsOwned
  <2>3. session' = [session EXCEPT ![c].active = handle] /\ s.call = "script"
    BY <1>7, <2>1 DEF SetEndpoint
  <2> HIDE DEF handle
  <2>4. s.phase \in Running
    BY <1>1, <2>3 DEF PhaseOK
  <2>5. session' = [session EXCEPT ![c] = new]
    BY <1>1, <2>3
  <2>6. /\ IsSession(new) /\ new.phase = s.phase /\ new.call = "script"
        /\ new.active = handle /\ new.handles = s.handles
        /\ new.closing = s.closing /\ new.todo = s.todo
    BY <1>1, <2>3 DEF IsSession
  <2> HIDE DEF new
  <2>7. Quietly(c, new)
    BY <1>1, <1>2, <2>2, <2>4, <2>5, <2>6 DEF Quietly, Becomes, Exists, Constructing, Running
  <2> QED
    BY <2>7, QuietStep
<1>8. CASE BeginCall(c) \/ EndCall(c) \/ BeginTransfer(c) \/ Transfer(c) \/ TransferEnds(c)
  <2>1. PICK call \in {"none", "script", "waiting", "transfer", "blocked"} :
          /\ session' = [session EXCEPT ![c].call = call]
          /\ s.phase = "live" \/ s.call # "none"
          /\ call \in {"waiting", "transfer", "blocked"} =>
               s.active # NoHandle \/ s.call \in {"waiting", "transfer", "blocked"}
    BY <1>8 DEF BeginCall, EndCall, BeginTransfer, Transfer, TransferEnds
  <2> DEFINE new == [s EXCEPT !.call = call]
  <2>2. s.phase \in Running /\ (call \in {"waiting", "transfer", "blocked"} => s.active # NoHandle)
    BY <1>1, <2>1 DEF PhaseOK, Running
  <2>3. session' = [session EXCEPT ![c] = new]
    BY <1>1, <2>1
  <2>4. /\ IsSession(new) /\ new.phase = s.phase /\ new.call = call
        /\ new.active = s.active /\ new.handles = s.handles
        /\ new.closing = s.closing /\ new.todo = s.todo
    BY <1>1 DEF IsSession
  <2> HIDE DEF new
  <2>5. Quietly(c, new)
    BY <1>1, <1>2, <2>2, <2>3, <2>4 DEF Quietly, Becomes, Exists, Constructing, Running, PhaseOK
  <2> QED
    BY <2>5, QuietStep
<1>9. CASE OpenEndpointFails(c)
  <2>1. PICK item \in s.todo : IsNext(c, item) /\ session' = [session EXCEPT ![c] = Listed(c, item)]
    BY <1>9 DEF OpenEndpointFails
  <2>2. s.phase = "endpoints" /\ ListedKeeps(c, item)
    BY <1>1, <2>1, ListedFields DEF IsNext
  <2>3. Quietly(c, Listed(c, item))
    BY <1>1, <1>2, <2>1, <2>2 DEF Quietly, Becomes, Exists, Constructing, Running, PhaseOK,
       ListedKeeps
  <2> QED
    BY <2>3, QuietStep
<1> QED
  BY <1>3, <1>4, <1>5, <1>6, <1>7, <1>8, <1>9

\* The endpoints to open are the device's own.
LEMMA CollectKeeps ==
  ASSUME IInv, NEW c \in Rounds, CollectEndpoints(c)
  PROVE  IInv'
<1> DEFINE s == session[c]
<1>1. IsSession(s) /\ PhaseOK(c) /\ session = [d \in Rounds |-> session[d]]
  BY DEF IInv, Shape, PhasesOK
<1>2. UNCHANGED <<devices, collections, worker, backend>> /\ s.phase = "collecting"
  BY DEF CollectEndpoints
<1>3. PICK readable \in Readings(devices) :
        LET numbers == AssignCollectionIndices(devices, readable)
            Key(i) == EndpointKey(devices[i], numbers[i])
            added == {i \in 1..Len(devices) :
                        /\ devices[i].group = Group(c) /\ Key(i) # PrimaryKey(c)
                        /\ \A j \in 1..i - 1 : devices[j].group = Group(c) => Key(j) # Key(i)}
        IN session' = [session EXCEPT ![c].phase = "endpoints",
                         ![c].todo = {Primary(c)} \cup {Endpoint(i, Key(i)) : i \in added}]
  BY DEF CollectEndpoints
<1> DEFINE numbers == AssignCollectionIndices(devices, readable)
           Key(i) == EndpointKey(devices[i], numbers[i])
           added == {i \in 1..Len(devices) :
                       /\ devices[i].group = Group(c) /\ Key(i) # PrimaryKey(c)
                       /\ \A j \in 1..i - 1 : devices[j].group = Group(c) => Key(j) # Key(i)}
           todo == {Primary(c)} \cup {Endpoint(i, Key(i)) : i \in added}
           one == [s EXCEPT !.phase = "endpoints"]
           new == [one EXCEPT !.todo = todo]
<1>4. session' = [session EXCEPT ![c].phase = "endpoints", ![c].todo = todo]
  BY <1>3
<1>5. \A item \in todo : devices[item.entry].group = Group(c)
  <2>1. \A i \in added : devices[i].group = Group(c)
    OBVIOUS
  <2> HIDE DEF added, Key
  <2> QED
    BY <2>1 DEF Primary, Endpoint, Group
<1> HIDE DEF todo
<1>6. session' = [session EXCEPT ![c] = new]
  BY <1>1, <1>4
<1>7. /\ IsSession(one) /\ one.phase = "endpoints" /\ one.handles = s.handles
      /\ one.closing = s.closing /\ one.active = s.active /\ one.call = s.call
  BY <1>1 DEF IsSession
<1> HIDE DEF one
<1>8. /\ IsSession(new) /\ new.phase = "endpoints" /\ new.handles = s.handles
      /\ new.closing = s.closing /\ new.active = s.active /\ new.call = s.call
      /\ new.todo = todo
  BY <1>7 DEF IsSession
<1> HIDE DEF new
<1>9. Quietly(c, new)
  BY <1>1, <1>2, <1>5, <1>6, <1>8 DEF Quietly, Becomes, Exists, Constructing, Running, PhaseOK
<1> QED
  BY <1>9, QuietStep

-----------------------------------------------------------------------------
(* Opening, closing, and the end of a controller.                          *)

\* A new handle is the new endpoint's.
LEMMA OpenedIsOwned ==
  ASSUME IInv, NEW c \in Rounds, NEW s, IsSession(s), Becomes(c, s),
         NEW entry, OpenPath(entry), devices[entry].group = Group(c),
         NEW key, key \notin DOMAIN session[c].handles,
         s.handles = WithHandle(session[c].handles, key), s.closing = session[c].closing
  PROVE  HandlesOK'
<1> DEFINE Hs(d) == session[d].handles
<1>1. /\ Rounds' = Rounds /\ \A d : Group(d)' = Group(d)
      /\ session'[c] = s /\ \A d \in Rounds \ {c} : session'[d] = session[d]
  BY OneChanges DEF IInv
<1>2. HandlesOK /\ next_handle \in Nat /\ next_handle > 0
  BY DEF IInv, HandlesOK
<1>3. next_handle \notin opened /\ next_handle \notin DOMAIN table
  BY <1>2 DEF HandlesOK
<1>4. /\ next_handle' = next_handle + 1 /\ opened' = opened \cup {next_handle}
      /\ DOMAIN table' = DOMAIN table \cup {next_handle}
      /\ table'[next_handle] = entry
      /\ \A h \in DOMAIN table : table'[h] = table[h]
  BY <1>3 DEF OpenPath
<1>5. /\ DOMAIN s.handles = DOMAIN session[c].handles \cup {key}
      /\ s.handles[key] = next_handle
      /\ \A k \in DOMAIN session[c].handles : s.handles[k] = session[c].handles[k]
  BY DEF WithHandle
<1>6. \A d \in Rounds : \A k \in DOMAIN session'[d].handles :
        \/ d = c /\ k = key /\ session'[d].handles[k] = next_handle
        \/ k \in DOMAIN session[d].handles /\ session'[d].handles[k] = session[d].handles[k]
  BY <1>1, <1>5
<1>7. \A d \in Rounds : session'[d].closing = session[d].closing
  BY <1>1
<1>8. \A d \in Rounds : \A h : Owns(d, h) => Owns(d, h)'
  BY <1>1, <1>5 DEF Owns
<1>9. \A h : h = next_handle => Owns(c, h)'
  BY <1>1, <1>5 DEF Owns
<1>10. \A h \in opened' : h \in Nat /\ h > 0 /\ h < next_handle'
  BY <1>2, <1>4 DEF HandlesOK
<1>11. \A h \in DOMAIN table' : h \in opened' /\ \E d \in Rounds : Owns(d, h)'
  <2>1. \A h \in DOMAIN table : h \in opened /\ \E d \in Rounds : Owns(d, h)
    BY <1>2 DEF HandlesOK
  <2> SUFFICES ASSUME NEW h \in DOMAIN table'
               PROVE  h \in opened' /\ \E d \in Rounds : Owns(d, h)'
    OBVIOUS
  <2>2. CASE h = next_handle
    BY <1>4, <1>9, <2>2
  <2>3. CASE h \in DOMAIN table
    <3>1. PICK d \in Rounds : Owns(d, h)
      BY <2>1, <2>3
    <3>2. Owns(d, h)'
      BY <1>8, <3>1
    <3> QED
      BY <1>4, <2>1, <2>3, <3>2
  <2> QED
    BY <1>4, <2>2, <2>3
<1>12. \A d \in Rounds : \A k \in DOMAIN session'[d].handles :
         /\ session'[d].handles[k] \in DOMAIN table'
         /\ devices[table'[session'[d].handles[k]]].group = Group(d)
  <2>1. \A d \in Rounds : \A k \in DOMAIN session[d].handles :
          /\ session[d].handles[k] \in DOMAIN table
          /\ devices[table[session[d].handles[k]]].group = Group(d)
    BY <1>2 DEF HandlesOK
  <2> SUFFICES ASSUME NEW d \in Rounds, NEW k \in DOMAIN session'[d].handles
               PROVE  /\ session'[d].handles[k] \in DOMAIN table'
                      /\ devices[table'[session'[d].handles[k]]].group = Group(d)
    OBVIOUS
  <2>2. CASE d = c /\ session'[d].handles[k] = next_handle
    BY <1>4, <2>2
  <2>3. CASE k \in DOMAIN session[d].handles /\ session'[d].handles[k] = session[d].handles[k]
    BY <1>4, <2>1, <2>3
  <2> QED
    BY <1>6, <2>2, <2>3
<1>13. \A d, e \in Rounds : \A k \in DOMAIN session'[d].handles, l \in DOMAIN session'[e].handles :
         session'[d].handles[k] = session'[e].handles[l] => d = e /\ k = l
  <2> SUFFICES ASSUME NEW d \in Rounds, NEW e \in Rounds, NEW k \in DOMAIN session'[d].handles,
                      NEW l \in DOMAIN session'[e].handles,
                      session'[d].handles[k] = session'[e].handles[l]
               PROVE  d = e /\ k = l
    OBVIOUS
  <2>1. CASE session'[d].handles[k] = next_handle
    <3>1. \A f \in Rounds : \A m \in DOMAIN session[f].handles : session[f].handles[m] # next_handle
      BY <1>2, <1>3 DEF HandlesOK
    <3>2. session'[e].handles[l] = next_handle
      BY <2>1
    <3>3. d = c /\ k = key
      BY <1>6, <2>1, <3>1
    <3>4. e = c /\ l = key
      BY <1>6, <3>1, <3>2
    <3> QED
      BY <3>3, <3>4
  <2>2. CASE session'[d].handles[k] # next_handle
    BY <1>2, <1>6, <2>2 DEF HandlesOK
  <2> QED
    BY <2>1, <2>2
<1>14. \A d \in Rounds : session'[d].closing # NoHandle =>
         /\ session'[d].closing \in opened' /\ session'[d].closing \notin DOMAIN table'
         /\ \A e \in Rounds : session'[e].closing = session'[d].closing => e = d
  BY <1>2, <1>3, <1>4, <1>7 DEF HandlesOK
<1>15. \A h \in opened' : h \in DOMAIN table' \/ \E d \in Rounds : session'[d].closing = h
  BY <1>2, <1>4, <1>7 DEF HandlesOK
<1>16. next_handle' \in Nat /\ next_handle' > 0 /\ devices' = devices
  BY <1>2, <1>4 DEF Becomes
<1> QED
  BY <1>1, <1>10, <1>11, <1>12, <1>13, <1>14, <1>15, <1>16 DEF HandlesOK

\* The primary device is opened.
LEMMA OpenPrimaryKeeps ==
  ASSUME IInv, NEW c \in Rounds, OpenPrimary(c)
  PROVE  IInv'
<1> DEFINE s == session[c]
           one == [s EXCEPT !.phase = "collecting"]
           new == [one EXCEPT !.handles = WithHandle(<<>>, PrimaryKey(c))]
<1>1. IsSession(s) /\ PhaseOK(c) /\ session = [d \in Rounds |-> session[d]]
  BY DEF IInv, Shape, PhasesOK
<1>2. /\ UNCHANGED <<devices, collections, worker>> /\ s.phase = "opening"
      /\ OpenPath(Entry(c)) /\ devices[Entry(c)].group = Group(c)
  BY DEF OpenPrimary, Group
<1>3. s.handles = <<>> /\ s.active = NoHandle /\ s.call = "none" /\ s.closing = NoHandle
      /\ building = c
  BY <1>1, <1>2 DEF PhaseOK, Running, Constructing
<1>4. session' = [session EXCEPT ![c] = new]
  BY <1>1 DEF OpenPrimary
<1>5. /\ IsSession(one) /\ one.phase = "collecting" /\ one.todo = s.todo
      /\ one.closing = s.closing /\ one.active = s.active /\ one.call = s.call
  BY <1>1 DEF IsSession
<1> HIDE DEF one
<1>6. /\ IsSession(new) /\ new.phase = "collecting" /\ new.todo = s.todo
      /\ new.closing = s.closing /\ new.active = s.active /\ new.call = s.call
      /\ new.handles = WithHandle(<<>>, PrimaryKey(c))
  BY <1>5 DEF IsSession
<1> HIDE DEF new
<1>7. Becomes(c, new)
  BY <1>2, <1>4 DEF Becomes
<1>8. session'[c] = new /\ Rounds' = Rounds /\ Shape'
  BY <1>6, <1>7, OneChanges DEF IInv
<1>9. LoopsOK' /\ TodoOK'
  BY <1>2, <1>6, <1>7, LoopsStay, TodoStays DEF Exists
<1>10. HandlesOK'
  <2>1. DOMAIN <<>> = {}
    OBVIOUS
  <2> QED
    BY <1>2, <1>3, <1>6, <1>7, <2>1, OpenedIsOwned
<1>11. PhaseOK(c)'
  <2>1. PrimaryKey(c)' = PrimaryKey(c) /\ building' = building
    BY <1>2 DEF PrimaryKey, Entry, worker
  <2>2. PrimaryKey(c) \in DOMAIN new.handles
    BY <1>6 DEF WithHandle
  <2> QED
    BY <1>3, <1>6, <1>8, <2>1, <2>2 DEF PhaseOK, Running, Constructing
<1>12. PhasesOK'
  <2>1. \A d \in Rounds \ {c} : PhaseOK(d)'
    BY <1>2, <1>6, <1>7, OthersKeepPhase DEF worker
  <2> QED
    BY <1>8, <1>11, <2>1 DEF PhasesOK
<1> QED
  BY <1>8, <1>9, <1>10, <1>12 DEF IInv

\* An endpoint is listed, and opened if it is not open.
LEMMA OpenEndpointKeeps ==
  ASSUME IInv, NEW c \in Rounds, OpenEndpoint(c)
  PROVE  IInv'
<1> DEFINE s == session[c]
<1>1. IsSession(s) /\ PhaseOK(c) /\ session = [d \in Rounds |-> session[d]]
  BY DEF IInv, Shape, PhasesOK
<1>2. PICK item \in s.todo :
        /\ IsNext(c, item)
        /\ \/ /\ session' = [session EXCEPT ![c] = Listed(c, item)]
              /\ UNCHANGED backend
           \/ /\ item.key \notin DOMAIN s.handles
              /\ OpenPath(item.entry)
              /\ session' = [session EXCEPT ![c] =
                   [Listed(c, item) EXCEPT !.handles = WithHandle(@, item.key)]]
        /\ UNCHANGED <<devices, collections, worker>>
  BY DEF OpenEndpoint
<1>3. s.phase = "endpoints" /\ ListedKeeps(c, item)
  BY <1>1, <1>2, ListedFields DEF IsNext
<1>4. CASE session' = [session EXCEPT ![c] = Listed(c, item)] /\ UNCHANGED backend
  <2>1. Quietly(c, Listed(c, item))
    BY <1>1, <1>2, <1>3, <1>4 DEF Quietly, Becomes, Exists, Constructing, Running, PhaseOK,
       ListedKeeps
  <2> QED
    BY <2>1, QuietStep
<1>5. CASE /\ item.key \notin DOMAIN s.handles
           /\ OpenPath(item.entry)
           /\ session' = [session EXCEPT ![c] =
                [Listed(c, item) EXCEPT !.handles = WithHandle(@, item.key)]]
  <2> DEFINE one == Listed(c, item)
             new == [one EXCEPT !.handles = WithHandle(@, item.key)]
  <2>1. /\ IsSession(one) /\ one.phase = "endpoints" /\ one.handles = s.handles
        /\ one.active = s.active /\ one.closing = s.closing /\ one.call = s.call
        /\ one.todo = s.todo \ {item}
    BY <1>3 DEF ListedKeeps
  <2>2. session' = [session EXCEPT ![c] = new]
    BY <1>5
  <2> HIDE DEF one
  <2>3. /\ IsSession(new) /\ new.phase = "endpoints" /\ new.todo = s.todo \ {item}
        /\ new.active = s.active /\ new.closing = s.closing /\ new.call = s.call
        /\ new.handles = WithHandle(s.handles, item.key)
    BY <2>1 DEF IsSession
  <2> HIDE DEF new
  <2>4. Becomes(c, new)
    BY <1>2, <2>2 DEF Becomes
  <2>5. session'[c] = new /\ Rounds' = Rounds /\ Shape'
    BY <2>3, <2>4, OneChanges DEF IInv
  <2>6. LoopsOK' /\ TodoOK'
    BY <1>2, <1>3, <2>3, <2>4, LoopsStay, TodoStays DEF Exists
  <2>7. HandlesOK'
    <3>1. devices[item.entry].group = Group(c)
      BY <1>2 DEF IInv, TodoOK
    <3> QED
      BY <1>5, <2>3, <2>4, <3>1, OpenedIsOwned
  <2>8. PhaseOK(c)'
    <3>1. PrimaryKey(c)' = PrimaryKey(c) /\ building' = building
      BY <1>2 DEF PrimaryKey, Entry, worker
    <3>2. PrimaryKey(c) \in DOMAIN new.handles
      BY <1>1, <1>3, <2>3 DEF WithHandle, PhaseOK
    <3>3. building = c /\ s.active = NoHandle /\ s.call = "none" /\ s.closing = NoHandle
      BY <1>1, <1>3 DEF PhaseOK, Running, Constructing
    <3> QED
      BY <2>3, <2>5, <3>1, <3>2, <3>3 DEF PhaseOK, Running, Constructing
  <2>9. PhasesOK'
    <3>1. \A d \in Rounds \ {c} : PhaseOK(d)'
      BY <1>2, <2>3, <2>4, OthersKeepPhase DEF worker
    <3> QED
      BY <2>5, <2>8, <3>1 DEF PhasesOK
  <2> QED
    BY <2>5, <2>6, <2>7, <2>9 DEF IInv
<1> QED
  BY <1>2, <1>4, <1>5

\* The next round is one in which no controller exists.
LEMMA RoundsEnd ==
  ASSUME IInv, NEW c \in Rounds, NEW s, IsSession(s), Becomes(c, s), Exists(c),
         UNCHANGED collections,
         \/ building = c /\ NextRound
         \/ building # c /\ UNCHANGED <<building, position>>,
         \/ s.phase = "gone" /\ open_groups' = open_groups
         \/ s.phase = "live" /\ open_groups' = open_groups \cup {Group(c)}
  PROVE  LoopsOK'
<1>1. /\ Rounds' = Rounds /\ \A d : Group(d)' = Group(d)
      /\ session'[c] = s /\ \A d \in Rounds \ {c} : session'[d] = session[d]
  BY OneChanges DEF IInv
<1>2. LoopsOK /\ \A d \in Rounds : d \in Nat /\ d > 0
  BY RoundsAreNumbers DEF IInv, Shape
<1>3. \A d \in Rounds \ {c} : Exists(d)' <=> Exists(d)
  BY <1>1 DEF Exists
<1>4. c <= position /\ collections # <<>> /\ c \in Nat
  BY <1>2 DEF LoopsOK, Exists
<1>5. /\ position' \in Nat /\ position' >= position
      /\ (building' # 0 => building' = position' /\ building' \in Rounds)
  BY <1>2 DEF LoopsOK, NextRound
<1>6. \A d \in Rounds : d > position' \/ (d = position' /\ building' = 0)
        => session'[d].phase = "none"
  <2> SUFFICES ASSUME NEW d \in Rounds, d > position' \/ (d = position' /\ building' = 0)
               PROVE  session'[d].phase = "none"
    OBVIOUS
  <2>1. CASE building = c /\ NextRound
    <3>1. c = position /\ position' = position + 1
      BY <1>2, <2>1 DEF LoopsOK, NextRound
    <3>2. d > position /\ d # c
      BY <1>2, <3>1 DEF LoopsOK
    <3> QED
      BY <1>1, <1>2, <3>2 DEF LoopsOK
  <2>2. CASE building # c /\ UNCHANGED <<building, position>>
    <3>1. session[d].phase = "none"
      BY <1>2, <2>2 DEF LoopsOK
    <3> QED
      BY <1>1, <3>1 DEF Exists
  <2> QED
    BY <2>1, <2>2
<1>7. \A d \in Rounds : Exists(d)' /\ d # building' => Group(d) \in open_groups'
  <2>1. \A d \in Rounds \ {c} : Exists(d) /\ d # building' => Group(d) \in open_groups
    BY <1>2 DEF LoopsOK, NextRound
  <2>2. Exists(c)' => Group(c) \in open_groups'
    BY <1>1 DEF Exists
  <2> QED
    BY <1>3, <2>1, <2>2
<1>8. \A d, e \in Rounds : Exists(d)' /\ Exists(e)' /\ Group(d) = Group(e) => d = e
  BY <1>2, <1>3 DEF LoopsOK
<1> QED
  BY <1>1, <1>4, <1>5, <1>6, <1>7, <1>8 DEF LoopsOK

\* The host lists the controller.
LEMMA RegisteredKeeps ==
  ASSUME IInv, NEW c \in Rounds, Registered(c)
  PROVE  IInv'
<1> DEFINE s == session[c]
           new == InPhase(s, "live", "none")
<1>1. IsSession(s) /\ PhaseOK(c) /\ session = [d \in Rounds |-> session[d]]
  BY DEF IInv, Shape, PhasesOK
<1>2. /\ UNCHANGED <<devices, collections, backend>> /\ s.phase = "initializing"
      /\ open_groups' = open_groups \cup {Group(c)} /\ NextRound
  BY DEF Registered
<1>3. session' = [session EXCEPT ![c] = new]
  BY <1>1 DEF Registered, InPhase
<1>4. /\ IsSession(new) /\ new.phase = "live" /\ new.call = "none"
      /\ new.active = s.active /\ new.handles = s.handles
      /\ new.closing = s.closing /\ new.todo = s.todo
  BY <1>1, SessionInPhase
<1> HIDE DEF new
<1>5. Becomes(c, new) /\ building = c
  BY <1>1, <1>2, <1>3 DEF Becomes, PhaseOK, Constructing
<1>6. session'[c] = new /\ Rounds' = Rounds /\ Shape'
  BY <1>4, <1>5, OneChanges DEF IInv
<1>7. LoopsOK'
  BY <1>2, <1>4, <1>5, RoundsEnd DEF Exists
<1>8. HandlesOK' /\ TodoOK'
  BY <1>2, <1>4, <1>5, HandlesStay, TodoStays
<1>9. PhaseOK(c)'
  <2>1. \A h : Owns(c, h) => Owns(c, h)'
    BY <1>4, <1>6 DEF Owns
  <2> QED
    BY <1>1, <1>2, <1>4, <1>6, <2>1 DEF PhaseOK, Constructing, Running
<1>10. PhasesOK'
  <2>1. \A d \in Rounds \ {c} : PhaseOK(d)'
    BY <1>2, <1>4, <1>5, OthersKeepPhase
  <2> QED
    BY <1>6, <1>9, <2>1 DEF PhasesOK
<1> QED
  BY <1>6, <1>7, <1>8, <1>10 DEF IInv

\* A controller with no open device ends.
Ends(c, s) ==
  /\ IsSession(s) /\ Becomes(c, s) /\ Exists(c)
  /\ UNCHANGED <<collections, open_groups, backend>>
  /\ \/ building = c /\ NextRound
     \/ building # c /\ UNCHANGED <<building, position>>
  /\ session[c].handles = <<>> /\ session[c].closing = NoHandle
  /\ s.phase = "gone" /\ s.handles = <<>> /\ s.closing = NoHandle /\ s.active = NoHandle
  /\ s.call = "none" /\ s.todo \subseteq session[c].todo

\* Its end keeps the invariant.
LEMMA EndKeeps ==
  ASSUME IInv, NEW c \in Rounds, NEW s, Ends(c, s)
  PROVE  IInv'
<1> USE DEF Ends
<1>1. session'[c] = s /\ Rounds' = Rounds /\ Shape'
  BY OneChanges DEF IInv
<1>2. LoopsOK'
  BY RoundsEnd
<1>3. HandlesOK' /\ TodoOK'
  BY HandlesStay, TodoStays
<1>4. PhaseOK(c)'
  BY <1>1 DEF PhaseOK, Constructing, Running
<1>5. PhasesOK'
  <2>1. \A d \in Rounds \ {c} : PhaseOK(d)'
    BY OthersKeepPhase DEF NextRound
  <2> QED
    BY <1>1, <1>4, <2>1 DEF PhasesOK
<1> QED
  BY <1>1, <1>2, <1>3, <1>5 DEF IInv

\* So it does when the primary device cannot be opened, or all are closed.
LEMMA GoneKeeps ==
  ASSUME IInv, NEW c \in Rounds, OpenPrimaryFails(c) \/ Closed(c)
  PROVE  IInv'
<1> DEFINE s == session[c]
<1>1. IsSession(s) /\ PhaseOK(c) /\ session = [d \in Rounds |-> session[d]]
  BY DEF IInv, Shape, PhasesOK
<1>2. CASE OpenPrimaryFails(c)
  <2> DEFINE new == [s EXCEPT !.phase = "gone"]
  <2>1. session' = [session EXCEPT ![c] = new] /\ s.phase = "opening"
    BY <1>1, <1>2 DEF OpenPrimaryFails
  <2>2. /\ IsSession(new) /\ new.phase = "gone" /\ new.handles = s.handles
        /\ new.closing = s.closing /\ new.active = s.active /\ new.call = s.call
        /\ new.todo = s.todo
    BY <1>1 DEF IsSession
  <2> HIDE DEF new
  <2>3. /\ building = c /\ s.handles = <<>> /\ s.closing = NoHandle /\ s.active = NoHandle
        /\ s.call = "none"
    BY <1>1, <2>1 DEF PhaseOK, Constructing, Running
  <2>4. Ends(c, new)
    BY <1>2, <2>1, <2>2, <2>3 DEF OpenPrimaryFails, Becomes, Exists, Ends
  <2> QED
    BY <2>4, EndKeeps
<1>3. CASE Closed(c)
  <2> DEFINE new == [NoSession EXCEPT !.phase = "gone"]
  <2>1. /\ IsSession(NoSession) /\ NoSession.handles = <<>> /\ NoSession.todo = {}
        /\ NoSession.closing = NoHandle /\ NoSession.active = NoHandle /\ NoSession.call = "none"
    BY DEF IsSession, NoSession
  <2>2. /\ session' = [session EXCEPT ![c] = new] /\ s.phase = "closing"
        /\ s.handles = <<>> /\ s.closing = NoHandle
        /\ UNCHANGED <<devices, collections, open_groups, backend>>
        /\ IF building = c THEN NextRound ELSE UNCHANGED <<building, position>>
    BY <1>3 DEF Closed
  <2>3. /\ IsSession(new) /\ new.phase = "gone" /\ new.handles = <<>> /\ new.closing = NoHandle
        /\ new.active = NoHandle /\ new.call = "none" /\ new.todo = {}
    BY <2>1 DEF IsSession
  <2> HIDE DEF new
  <2>4. Ends(c, new)
    BY <2>2, <2>3 DEF Becomes, Exists, Ends
  <2> QED
    BY <2>4, EndKeeps
<1> QED
  BY <1>2, <1>3

\* A handle that is taken out of the table is the closing session's alone.
LEMMA CloseNextKeeps ==
  ASSUME IInv, NEW c \in Rounds, CloseNext(c)
  PROVE  IInv'
<1> DEFINE s == session[c]
<1>1. IsSession(s) /\ PhaseOK(c) /\ session = [d \in Rounds |-> session[d]]
  BY DEF IInv, Shape, PhasesOK
<1>2. PICK key \in DOMAIN s.handles :
        /\ session' = [session EXCEPT ![c].closing = s.handles[key],
                                      ![c].handles = Restrict(@, DOMAIN @ \ {key})]
        /\ table' = Restrict(table, DOMAIN table \ {s.handles[key]})
  BY DEF CloseNext
<1>3. /\ UNCHANGED <<devices, collections, worker, next_handle, opened>>
      /\ s.phase = "closing" /\ s.closing = NoHandle
  BY DEF CloseNext
<1> DEFINE handle == s.handles[key]
           one == [s EXCEPT !.closing = handle]
           new == [one EXCEPT !.handles = Restrict(@, DOMAIN @ \ {key})]
<1>4. session' = [session EXCEPT ![c] = new]
  BY <1>1, <1>2
<1>5. /\ IsSession(one) /\ one.phase = s.phase /\ one.handles = s.handles
      /\ one.closing = handle /\ one.active = s.active /\ one.call = s.call /\ one.todo = s.todo
  BY <1>1 DEF IsSession
<1> HIDE DEF one
<1>6. /\ IsSession(new) /\ new.phase = s.phase
      /\ new.handles = Restrict(s.handles, DOMAIN s.handles \ {key})
      /\ new.closing = handle /\ new.active = s.active /\ new.call = s.call /\ new.todo = s.todo
  BY <1>5 DEF IsSession
<1> HIDE DEF new
<1>7. Becomes(c, new)
  BY <1>3, <1>4 DEF Becomes
<1>8. /\ Rounds' = Rounds /\ \A d : Group(d)' = Group(d) /\ Shape'
      /\ session'[c] = new /\ \A d \in Rounds \ {c} : session'[d] = session[d]
  BY <1>6, <1>7, OneChanges DEF IInv
<1>9. LoopsOK' /\ TodoOK'
  BY <1>3, <1>6, <1>7, LoopsStay, TodoStays DEF Exists
<1>10. /\ DOMAIN new.handles = DOMAIN s.handles \ {key}
       /\ \A k \in DOMAIN new.handles : new.handles[k] = s.handles[k]
       /\ DOMAIN table' = DOMAIN table \ {handle}
       /\ \A h \in DOMAIN table' : table'[h] = table[h]
  BY <1>2, <1>6 DEF Restrict
<1>11. PhasesOK'
  <2>1. PhaseOK(c)'
    BY <1>1, <1>3, <1>6, <1>8 DEF PhaseOK, Constructing, Running
  <2>2. \A d \in Rounds \ {c} : PhaseOK(d)'
    BY <1>3, <1>6, <1>7, OthersKeepPhase DEF worker
  <2> QED
    BY <1>8, <2>1, <2>2 DEF PhasesOK
<1>12. HandlesOK
  BY DEF IInv
<1>13. /\ handle \in DOMAIN table /\ handle \in opened /\ handle # NoHandle
       /\ \A d \in Rounds : session[d].closing # handle
       /\ \A d \in Rounds : \A k \in DOMAIN session[d].handles :
            session[d].handles[k] = handle => d = c /\ k = key
  <2>1. handle \in DOMAIN table /\ handle \in opened
    BY <1>12 DEF HandlesOK
  <2>2. handle # NoHandle
    BY <1>12, <2>1 DEF HandlesOK, NoHandle
  <2>3. \A d \in Rounds : session[d].closing # handle
    BY <1>12, <2>1, <2>2 DEF HandlesOK
  <2>4. \A d \in Rounds : \A k \in DOMAIN session[d].handles :
          session[d].handles[k] = handle => d = c /\ k = key
    BY <1>12 DEF HandlesOK
  <2> QED
    BY <2>1, <2>2, <2>3, <2>4
<1> HIDE DEF handle
<1>14. \A d \in Rounds : \A k \in DOMAIN session'[d].handles :
         /\ k \in DOMAIN session[d].handles /\ session'[d].handles[k] = session[d].handles[k]
         /\ session'[d].handles[k] # handle
  BY <1>8, <1>10, <1>13
<1>15. HandlesOK'
  <2>1. /\ next_handle' \in Nat /\ next_handle' > 0
        /\ (\A h \in opened' : h \in Nat /\ h > 0 /\ h < next_handle')
    BY <1>3, <1>12 DEF HandlesOK
  <2>2. \A h \in DOMAIN table' : h \in opened' /\ \E d \in Rounds : Owns(d, h)'
    <3> SUFFICES ASSUME NEW h \in DOMAIN table'
                 PROVE  h \in opened' /\ \E d \in Rounds : Owns(d, h)'
      OBVIOUS
    <3>1. PICK d \in Rounds : Owns(d, h)
      BY <1>10, <1>12 DEF HandlesOK
    <3>2. PICK k \in DOMAIN session[d].handles : session[d].handles[k] = h
      BY <3>1 DEF Owns
    <3>3. k \in DOMAIN session'[d].handles /\ session'[d].handles[k] = h
      BY <1>8, <1>10, <3>2 DEF handle
    <3>4. Owns(d, h)'
      BY <3>3 DEF Owns
    <3> QED
      BY <1>3, <1>10, <1>12, <3>4 DEF HandlesOK
  <2>3. \A d \in Rounds : \A k \in DOMAIN session'[d].handles :
          /\ session'[d].handles[k] \in DOMAIN table'
          /\ devices[table'[session'[d].handles[k]]].group = Group(d)
    BY <1>10, <1>12, <1>14 DEF HandlesOK
  <2>4. \A d, e \in Rounds : \A k \in DOMAIN session'[d].handles, l \in DOMAIN session'[e].handles :
          session'[d].handles[k] = session'[e].handles[l] => d = e /\ k = l
    BY <1>12, <1>14 DEF HandlesOK
  <2>5. \A d \in Rounds : session'[d].closing # NoHandle =>
          /\ session'[d].closing \in opened' /\ session'[d].closing \notin DOMAIN table'
          /\ \A e \in Rounds : session'[e].closing = session'[d].closing => e = d
    BY <1>3, <1>6, <1>8, <1>10, <1>12, <1>13 DEF HandlesOK
  <2>6. \A h \in opened' : h \in DOMAIN table' \/ \E d \in Rounds : session'[d].closing = h
    <3> SUFFICES ASSUME NEW h \in opened, h \notin DOMAIN table'
                 PROVE  \E d \in Rounds : session'[d].closing = h
      BY <1>3
    <3>1. CASE h = handle
      BY <1>6, <1>8, <3>1
    <3>2. CASE h # handle
      <4>1. PICK d \in Rounds : session[d].closing = h
        BY <1>10, <1>12, <3>2 DEF HandlesOK
      <4>2. d # c
        BY <1>3, <1>12, <4>1 DEF HandlesOK, NoHandle
      <4> QED
        BY <1>8, <4>1, <4>2
    <3> QED
      BY <3>1, <3>2
  <2> QED
    BY <1>3, <1>8, <2>1, <2>2, <2>3, <2>4, <2>5, <2>6 DEF HandlesOK
<1> QED
  BY <1>8, <1>9, <1>11, <1>15 DEF IInv

\* Its device is closed.
LEMMA HidCloseKeeps ==
  ASSUME IInv, NEW c \in Rounds, HidClose(c)
  PROVE  IInv'
<1> DEFINE s == session[c]
           new == [s EXCEPT !.closing = NoHandle]
<1>1. IsSession(s) /\ PhaseOK(c) /\ session = [d \in Rounds |-> session[d]]
  BY DEF IInv, Shape, PhasesOK
<1>2. /\ UNCHANGED <<devices, collections, worker, next_handle, table>>
      /\ s.closing # NoHandle /\ opened' = opened \ {s.closing}
  BY DEF HidClose
<1>3. session' = [session EXCEPT ![c] = new] /\ s.phase = "closing"
  BY <1>1, <1>2 DEF HidClose, PhaseOK
<1>4. /\ IsSession(new) /\ new.phase = s.phase /\ new.handles = s.handles
      /\ new.closing = NoHandle /\ new.active = s.active /\ new.call = s.call /\ new.todo = s.todo
  BY <1>1 DEF IsSession
<1> HIDE DEF new
<1>5. Becomes(c, new)
  BY <1>2, <1>3 DEF Becomes
<1>6. /\ Rounds' = Rounds /\ \A d : Group(d)' = Group(d) /\ Shape'
      /\ session'[c] = new /\ \A d \in Rounds \ {c} : session'[d] = session[d]
  BY <1>4, <1>5, OneChanges DEF IInv
<1>7. LoopsOK' /\ TodoOK'
  BY <1>2, <1>3, <1>4, <1>5, LoopsStay, TodoStays DEF Exists
<1>8. PhasesOK'
  <2>1. PhaseOK(c)'
    BY <1>1, <1>3, <1>4, <1>6 DEF PhaseOK, Constructing, Running
  <2>2. \A d \in Rounds \ {c} : PhaseOK(d)'
    BY <1>2, <1>4, <1>5, OthersKeepPhase DEF worker
  <2> QED
    BY <1>6, <2>1, <2>2 DEF PhasesOK
<1>9. HandlesOK'
  <2>1. HandlesOK /\ s.closing \notin DOMAIN table
    BY <1>2 DEF IInv, HandlesOK
  <2>2. \A d \in Rounds : session'[d].handles = session[d].handles
    BY <1>4, <1>6
  <2>3. \A d \in Rounds : \A h : Owns(d, h)' <=> Owns(d, h)
    BY <2>2 DEF Owns
  <2>4. \A h \in DOMAIN table' : h \in opened' /\ \E d \in Rounds : Owns(d, h)'
    BY <1>2, <2>1, <2>3 DEF HandlesOK
  <2>5. /\ next_handle' \in Nat /\ next_handle' > 0
        /\ (\A h \in opened' : h \in Nat /\ h > 0 /\ h < next_handle')
    BY <1>2, <2>1 DEF HandlesOK
  <2>6. \A d \in Rounds : session'[d].closing # NoHandle =>
          /\ session'[d].closing \in opened' /\ session'[d].closing \notin DOMAIN table'
          /\ \A e \in Rounds : session'[e].closing = session'[d].closing => e = d
    BY <1>2, <1>4, <1>6, <2>1 DEF HandlesOK
  <2>7. \A h \in opened' : h \in DOMAIN table' \/ \E d \in Rounds : session'[d].closing = h
    BY <1>2, <1>6, <2>1 DEF HandlesOK
  <2>8. \A d \in Rounds : \A k \in DOMAIN session'[d].handles :
          /\ session'[d].handles[k] \in DOMAIN table'
          /\ devices[table'[session'[d].handles[k]]].group = Group(d)
    BY <1>2, <2>1, <2>2 DEF HandlesOK
  <2>9. \A d, e \in Rounds : \A k \in DOMAIN session'[d].handles, l \in DOMAIN session'[e].handles :
          session'[d].handles[k] = session'[e].handles[l] => d = e /\ k = l
    BY <2>1, <2>2 DEF HandlesOK
  <2> QED
    BY <1>2, <1>6, <2>4, <2>5, <2>6, <2>7, <2>8, <2>9 DEF HandlesOK
<1> QED
  BY <1>6, <1>7, <1>8, <1>9 DEF IInv

-----------------------------------------------------------------------------
\* The invariant is kept by every step ...
LEMMA NextInvariant == IInv /\ [Next]_vars => IInv'
<1> SUFFICES ASSUME IInv, [Next]_vars PROVE IInv'
  OBVIOUS
<1>1. CASE Enumerate \/ PassOver \/ Abort
  BY <1>1, LoopsMove
<1>2. CASE Construct
  BY <1>2, ConstructKeeps
<1>3. ASSUME NEW c \in Rounds, Controller(c) PROVE IInv'
  <2>1. CASE OpenPrimaryFails(c) \/ Closed(c)
    BY <2>1, GoneKeeps
  <2>2. CASE OpenPrimary(c) \/ CollectEndpoints(c) \/ OpenEndpoint(c)
    BY <2>2, OpenPrimaryKeeps, CollectKeeps, OpenEndpointKeeps
  <2>3. CASE CloseNext(c) \/ HidClose(c) \/ Registered(c)
    BY <2>3, CloseNextKeeps, HidCloseKeeps, RegisteredKeeps
  <2>4. CASE \/ StartScript(c) \/ ConstructionFails(c) \/ Delete(c) \/ ShutdownEnds(c)
             \/ BeginCall(c) \/ EndCall(c) \/ SetEndpoint(c) \/ BeginTransfer(c)
             \/ Transfer(c) \/ TransferEnds(c) \/ OpenEndpointFails(c)
    BY <2>4, ScriptKeeps
  <2> QED
    BY <1>3, <2>1, <2>2, <2>3, <2>4 DEF Controller, UnderMutex
<1>4. CASE UNCHANGED vars
  <2>1. /\ Rounds' = Rounds /\ (\A d : Group(d)' = Group(d))
        /\ UNCHANGED <<devices, collections, position, building, open_groups, session,
                       next_handle, table, opened>>
    BY <1>4 DEF vars, Rounds, LastRound, Group, Entry
  <2>2. Shape' /\ LoopsOK' /\ TodoOK'
    BY <2>1 DEF IInv, Shape, IsSession, LoopsOK, Exists, TodoOK
  <2>3. HandlesOK'
    BY <2>1 DEF IInv, HandlesOK, Owns
  <2>4. \A d : PrimaryKey(d)' = PrimaryKey(d)
    BY <2>1 DEF PrimaryKey, Entry
  <2>5. PhasesOK'
    BY <2>1, <2>4 DEF IInv, PhasesOK, PhaseOK, Owns
  <2> QED
    BY <2>2, <2>3, <2>5 DEF IInv
<1> QED
  BY <1>1, <1>2, <1>3, <1>4 DEF Next

\* ... and so always holds.
LEMMA Invariance == Spec => []IInv
BY InitInvariant, NextInvariant, PTL DEF Spec

\* Every hid_device is the handle of one endpoint of one session, or about to be closed by
\* one (EndpointSession::Open and Close, HidBackend::OpenPath and Close).
THEOREM NoHandleIsLost == Spec => []HandlesAreOwned
<1>1. IInv => HandlesAreOwned
  <2> SUFFICES ASSUME IInv PROVE HandlesAreOwned
    OBVIOUS
  <2>1. HandlesOK /\ \A c \in Rounds : PhaseOK(c)
    BY DEF IInv, PhasesOK
  <2>2. \A c \in Rounds : IsInjective(session[c].handles)
    BY <2>1 DEF HandlesOK, IsInjective
  <2>3. \A c, d \in Rounds : c # d => Range(session[c].handles) \cap Range(session[d].handles) = {}
    BY <2>1 DEF HandlesOK, Range
  <2>4. \A c \in Rounds : session[c].phase \in {"none", "gone"} => session[c].handles = <<>>
    BY <2>1 DEF PhaseOK
  <2>5. DOMAIN table = UNION {Range(session[c].handles) : c \in Rounds}
    <3>1. \A h \in DOMAIN table : \E c \in Rounds : h \in Range(session[c].handles)
      BY <2>1 DEF HandlesOK, Owns, Range
    <3>2. \A c \in Rounds : Range(session[c].handles) \subseteq DOMAIN table
      BY <2>1 DEF HandlesOK, Range
    <3> QED
      BY <3>1, <3>2
  <2>6. opened = DOMAIN table \cup ({session[c].closing : c \in Rounds} \ {NoHandle})
    <3>1. \A h \in opened : h # NoHandle
      BY <2>1 DEF HandlesOK, NoHandle
    <3>2. \A h \in opened : h \in DOMAIN table \/ \E c \in Rounds : session[c].closing = h
      BY <2>1 DEF HandlesOK
    <3>3. DOMAIN table \subseteq opened
      BY <2>1 DEF HandlesOK
    <3>4. \A c \in Rounds : session[c].closing # NoHandle => session[c].closing \in opened
      BY <2>1 DEF HandlesOK
    <3> QED
      BY <3>1, <3>2, <3>3, <3>4
  <2> QED
    BY <2>2, <2>3, <2>4, <2>5, <2>6 DEF HandlesAreOwned
<1> QED
  BY <1>1, Invariance, PTL

\* A call of a script that waits for the backend, or is in it, finds the device of its
\* endpoint open, and its own (HidBackend::DeviceLocked).
THEOREM CallsFindDevices == Spec => []CallsFindTheirDevice
<1>1. IInv => CallsFindTheirDevice
  <2> SUFFICES ASSUME IInv, NEW c \in Rounds,
                      session[c].call \in {"waiting", "transfer", "blocked"}
               PROVE  /\ session[c].active \in DOMAIN table \cap opened
                      /\ devices[table[session[c].active]].group = Group(c)
    BY DEF CallsFindTheirDevice
  <2>1. PICK key \in DOMAIN session[c].handles : session[c].handles[key] = session[c].active
    BY DEF IInv, PhasesOK, PhaseOK, Owns
  <2> QED
    BY <2>1 DEF IInv, HandlesOK
<1> QED
  BY <1>1, Invariance, PTL

\* A device is open for one controller at a time, whatever scripts match it and fail
\* (DiscoveryService::Discover, open_groups).
THEOREM OnePerDevice == Spec => []OneControllerPerDevice
<1>1. IInv => OneControllerPerDevice
  BY DEF IInv, LoopsOK, PhasesOK, PhaseOK, Exists, OneControllerPerDevice
<1> QED
  BY <1>1, Invariance, PTL

-----------------------------------------------------------------------------
(* What set_endpoint refuses.                                              *)

\* A session has finitely many endpoints open.
FiniteOK == \A c \in Rounds : IsFiniteSet(DOMAIN session[c].handles)

\* A step of a controller opens at most one endpoint.
LEMMA OneMore ==
  ASSUME IInv, NEW c \in Rounds, Controller(c)
  PROVE  \A d \in Rounds : \E key :
           DOMAIN session'[d].handles \subseteq DOMAIN session[d].handles \cup {key}
<1> DEFINE More(s) == \E key : DOMAIN s.handles \subseteq DOMAIN session[c].handles \cup {key}
<1>1. session = [d \in Rounds |-> session[d]] /\ IsSession(session[c])
  BY DEF IInv, Shape
<1>2. ASSUME NEW s, session' = [session EXCEPT ![c] = s], More(s)
      PROVE  \A d \in Rounds : \E key :
               DOMAIN session'[d].handles \subseteq DOMAIN session[d].handles \cup {key}
  <2>1. session'[c] = s /\ \A d \in Rounds \ {c} : session'[d] = session[d]
    BY <1>1, <1>2
  <2> QED
    BY <1>2, <2>1
<1>3. ASSUME NEW s, session' = [session EXCEPT ![c] = s], s.handles = session[c].handles
      PROVE  \A d \in Rounds : \E key :
               DOMAIN session'[d].handles \subseteq DOMAIN session[d].handles \cup {key}
  BY <1>2, <1>3
<1>4. CASE OpenPrimary(c)
  <2> DEFINE one == [session[c] EXCEPT !.phase = "collecting"]
             new == [one EXCEPT !.handles = WithHandle(<<>>, PrimaryKey(c))]
  <2>1. session' = [session EXCEPT ![c] = new]
    BY <1>1, <1>4 DEF OpenPrimary
  <2>2. new.handles = WithHandle(<<>>, PrimaryKey(c))
    <3>1. IsSession(one)
      BY <1>1 DEF IsSession
    <3> HIDE DEF one
    <3> QED
      BY <3>1 DEF IsSession
  <2>3. DOMAIN WithHandle(<<>>, PrimaryKey(c)) = {PrimaryKey(c)}
    <3>1. DOMAIN <<>> = {}
      OBVIOUS
    <3> QED
      BY <3>1 DEF WithHandle
  <2> HIDE DEF new
  <2> QED
    BY <1>2, <2>1, <2>2, <2>3
<1>5. CASE OpenEndpoint(c)
  <2>1. PICK item \in session[c].todo :
          \/ session' = [session EXCEPT ![c] = Listed(c, item)]
          \/ session' = [session EXCEPT ![c] =
               [Listed(c, item) EXCEPT !.handles = WithHandle(@, item.key)]]
    BY <1>5 DEF OpenEndpoint
  <2> DEFINE one == Listed(c, item)
             new == [one EXCEPT !.handles = WithHandle(@, item.key)]
  <2>2. IsSession(one) /\ one.handles = session[c].handles
    BY <1>1, ListedFields DEF ListedKeeps
  <2> HIDE DEF one
  <2>3. new.handles = WithHandle(session[c].handles, item.key)
    BY <2>2 DEF IsSession
  <2>4. DOMAIN WithHandle(session[c].handles, item.key) = DOMAIN session[c].handles \cup {item.key}
    BY DEF WithHandle
  <2>5. session' = [session EXCEPT ![c] = one] \/ session' = [session EXCEPT ![c] = new]
    BY <2>1 DEF one
  <2> HIDE DEF new
  <2> QED
    BY <1>2, <1>3, <2>2, <2>3, <2>4, <2>5
<1>6. CASE CloseNext(c)
  <2>1. PICK key \in DOMAIN session[c].handles :
          session' = [session EXCEPT ![c].closing = session[c].handles[key],
                                     ![c].handles = Restrict(@, DOMAIN @ \ {key})]
    BY <1>6 DEF CloseNext
  <2> DEFINE one == [session[c] EXCEPT !.closing = session[c].handles[key]]
             new == [one EXCEPT !.handles = Restrict(@, DOMAIN @ \ {key})]
  <2>2. session' = [session EXCEPT ![c] = new]
    BY <1>1, <2>1
  <2>3. IsSession(one) /\ one.handles = session[c].handles
    BY <1>1 DEF IsSession
  <2> HIDE DEF one
  <2>4. new.handles = Restrict(session[c].handles, DOMAIN session[c].handles \ {key})
    BY <2>3 DEF IsSession
  <2>5. DOMAIN new.handles \subseteq DOMAIN session[c].handles
    BY <2>4 DEF Restrict
  <2> HIDE DEF new
  <2> QED
    BY <1>2, <2>2, <2>5
<1>7. CASE Closed(c)
  <2> DEFINE new == [NoSession EXCEPT !.phase = "gone"]
  <2>1. session' = [session EXCEPT ![c] = new] /\ session[c].handles = <<>>
    BY <1>7 DEF Closed
  <2>2. new.handles = <<>>
    BY DEF NoSession
  <2> HIDE DEF new
  <2> QED
    BY <1>3, <2>1, <2>2
<1>8. CASE OpenEndpointFails(c)
  <2>1. PICK item \in session[c].todo : session' = [session EXCEPT ![c] = Listed(c, item)]
    BY <1>8 DEF OpenEndpointFails
  <2>2. Listed(c, item).handles = session[c].handles
    BY <1>1, ListedFields DEF ListedKeeps
  <2> QED
    BY <1>3, <2>1, <2>2
<1>9. CASE \/ OpenPrimaryFails(c) \/ CollectEndpoints(c) \/ Transfer(c)
           \/ StartScript(c) \/ Registered(c) \/ ConstructionFails(c)
           \/ Delete(c) \/ ShutdownEnds(c) \/ HidClose(c)
           \/ BeginCall(c) \/ EndCall(c) \/ SetEndpoint(c) \/ BeginTransfer(c) \/ TransferEnds(c)
  <2>1. CASE OpenPrimaryFails(c)
    BY <1>1, <2>1 DEF OpenPrimaryFails, IsSession
  <2>2. CASE CollectEndpoints(c)
    <3>1. PICK todo : session' = [session EXCEPT ![c].phase = "endpoints", ![c].todo = todo]
      BY <2>2 DEF CollectEndpoints
    <3> QED
      BY <1>1, <3>1 DEF IsSession
  <2>3. CASE Transfer(c)
    BY <1>1, <2>3 DEF Transfer, IsSession
  <2>4. CASE StartScript(c)
    BY <1>1, <2>4 DEF StartScript, IsSession
  <2>5. CASE Registered(c)
    BY <1>1, <2>5 DEF Registered, IsSession
  <2>6. CASE ConstructionFails(c)
    BY <1>1, <2>6 DEF ConstructionFails, IsSession
  <2>7. CASE Delete(c)
    BY <1>1, <2>7 DEF Delete, IsSession
  <2>8. CASE ShutdownEnds(c)
    BY <1>1, <2>8 DEF ShutdownEnds, IsSession
  <2>9. CASE HidClose(c)
    BY <1>1, <2>9 DEF HidClose, IsSession
  <2>10. CASE BeginCall(c)
    BY <1>1, <2>10 DEF BeginCall, IsSession
  <2>11. CASE EndCall(c)
    BY <1>1, <2>11 DEF EndCall, IsSession
  <2>12. CASE SetEndpoint(c)
    BY <1>1, <2>12 DEF SetEndpoint, IsSession
  <2>13. CASE BeginTransfer(c)
    BY <1>1, <2>13 DEF BeginTransfer, IsSession
  <2>14. CASE TransferEnds(c)
    BY <1>1, <2>14 DEF TransferEnds, IsSession
  <2> QED
    BY <1>9, <2>1, <2>2, <2>3, <2>4, <2>5, <2>6, <2>7, <2>8, <2>9, <2>10, <2>11, <2>12, <2>13, <2>14
<1> QED
  BY <1>4, <1>5, <1>6, <1>7, <1>8, <1>9 DEF Controller, UnderMutex

\* There are finitely many at any time.
LEMMA FinitelyMany == Spec => []FiniteOK
<1>1. Init => FiniteOK
  <2>1. DOMAIN <<>> = {} /\ IsFiniteSet({})
    BY FS_EmptySet
  <2> QED
    BY <2>1 DEF Init, FiniteOK, NoSession
<1>2. IInv /\ FiniteOK /\ [Next]_vars => FiniteOK'
  <2> SUFFICES ASSUME IInv, FiniteOK, [Next]_vars PROVE FiniteOK'
    OBVIOUS
  <2>1. devices' = devices /\ Rounds' = Rounds
    <3>1. devices' = devices
      BY DEF Next, vars, Enumerate, PassOver, Construct, Abort, Controller, UnderMutex, OpenPrimary,
         OpenPrimaryFails, CollectEndpoints, OpenEndpoint, OpenEndpointFails, CloseNext, Transfer,
         StartScript, Registered, ConstructionFails, Delete, ShutdownEnds, HidClose, Closed,
         BeginCall, EndCall, SetEndpoint, BeginTransfer, TransferEnds
    <3> QED
      BY <3>1 DEF Rounds, LastRound
  <2>2. \A d \in Rounds : \E key :
          DOMAIN session'[d].handles \subseteq DOMAIN session[d].handles \cup {key}
    <3>1. CASE Enumerate \/ PassOver \/ Abort \/ UNCHANGED vars
      BY <3>1 DEF Enumerate, PassOver, Abort, vars
    <3>2. CASE Construct
      <4>1. PICK c \in Rounds : session' = [session EXCEPT ![c].phase = "opening"]
        BY <3>2 DEF Construct, Matches
      <4>2. \A d \in Rounds : session'[d].handles = session[d].handles
        BY <4>1 DEF IInv, Shape, IsSession
      <4> QED
        BY <4>2
    <3>3. CASE \E c \in Rounds : Controller(c)
      BY <3>3, OneMore
    <3> QED
      BY <3>1, <3>2, <3>3 DEF Next
  <2>3. \A d \in Rounds : IsFiniteSet(DOMAIN session'[d].handles)
    <3> SUFFICES ASSUME NEW d \in Rounds PROVE IsFiniteSet(DOMAIN session'[d].handles)
      OBVIOUS
    <3>1. PICK key : DOMAIN session'[d].handles \subseteq DOMAIN session[d].handles \cup {key}
      BY <2>2
    <3>2. IsFiniteSet(DOMAIN session[d].handles \cup {key})
      BY FS_AddElement DEF FiniteOK
    <3> QED
      BY <3>1, <3>2, FS_Subset
  <2> QED
    BY <2>1, <2>3 DEF FiniteOK
<1> QED
  BY <1>1, <1>2, Invariance, PTL DEF Spec

\* A looser search finds what the stricter ones do, so that none of the looser ones
\* finds a single endpoint where the strictest finds several.
LEMMA LooserFindsMore ==
  ASSUME NEW handles, NEW asked, IsFiniteSet(DOMAIN handles), asked \notin DOMAIN handles,
         Cardinality(Matching(handles, asked, FALSE, FALSE)) > 1
  PROVE  FindEndpointHandle(handles, asked) = NoHandle
<1> DEFINE searches == Searches(handles, asked)
           strict == Matching(handles, asked, FALSE, FALSE)
<1>1. \A any, vendor \in BOOLEAN : /\ strict \subseteq Matching(handles, asked, any, vendor)
                                   /\ Matching(handles, asked, any, vendor) \subseteq DOMAIN handles
  BY DEF Matching
<1>2. \A any, vendor \in BOOLEAN :
        /\ Cardinality(Matching(handles, asked, any, vendor)) >= Cardinality(strict)
        /\ Cardinality(Matching(handles, asked, any, vendor)) \in Nat
        /\ Cardinality(strict) \in Nat
  BY <1>1, FS_Subset, FS_CardinalityType
<1>3. \A n \in 1..4 : Cardinality(searches[n]) # 1
  <2>1. /\ searches[1] = Matching(handles, asked, FALSE, FALSE)
        /\ searches[2] = Matching(handles, asked, FALSE, TRUE)
        /\ searches[3] = Matching(handles, asked, TRUE, FALSE)
        /\ searches[4] = Matching(handles, asked, TRUE, TRUE)
    BY DEF Searches
  <2> HIDE DEF searches
  <2>2. Cardinality(strict) > 1
    OBVIOUS
  <2> HIDE DEF strict
  <2>3. /\ Cardinality(searches[1]) # 1 /\ Cardinality(searches[2]) # 1
        /\ Cardinality(searches[3]) # 1 /\ Cardinality(searches[4]) # 1
    <3>1. ASSUME NEW any \in BOOLEAN, NEW vendor \in BOOLEAN
          PROVE  Cardinality(Matching(handles, asked, any, vendor)) # 1
      <4>1. /\ Cardinality(Matching(handles, asked, any, vendor)) >= Cardinality(strict)
            /\ Cardinality(Matching(handles, asked, any, vendor)) \in Nat
            /\ Cardinality(strict) \in Nat
        BY <1>2
      <4> QED
        BY <2>2, <4>1
    <3>2. /\ Cardinality(Matching(handles, asked, FALSE, FALSE)) # 1
          /\ Cardinality(Matching(handles, asked, FALSE, TRUE)) # 1
          /\ Cardinality(Matching(handles, asked, TRUE, FALSE)) # 1
          /\ Cardinality(Matching(handles, asked, TRUE, TRUE)) # 1
      BY <3>1
    <3> QED
      BY <2>1, <3>2
  <2>4. \A n \in 1..4 : n = 1 \/ n = 2 \/ n = 3 \/ n = 4
    OBVIOUS
  <2> QED
    BY <2>3, <2>4
<1> HIDE DEF searches
<1> QED
  BY <1>3 DEF FindEndpointHandle, searches

\* set_endpoint refuses what several open endpoints answer to (FindEndpointHandle).
THEOREM AmbiguousRejected == Spec => []AmbiguousIsRejected
<1>1. IInv /\ FiniteOK => AmbiguousIsRejected
  BY LooserFindsMore DEF FiniteOK, AmbiguousIsRejected
<1> QED
  BY <1>1, Invariance, FinitelyMany, PTL

-----------------------------------------------------------------------------
(* The types, but for the numbers of the collections.                      *)

Phases == Constructing \cup Running \cup {"none", "closing", "gone"}
Calls == {"none", "script", "waiting", "transfer", "blocked"}

\* What the invariant does not say of the types.
TypesOK ==
  /\ collections = <<>> \/ DOMAIN collections = 1..Len(devices)
  /\ position \in 1..LastRound + 1
  /\ open_groups \subseteq {Group(c) : c \in Rounds}
  /\ holder \in Rounds \cup {0}
  /\ \A c \in Rounds : /\ session[c].phase \in Phases /\ session[c].call \in Calls
                       /\ \A item \in session[c].todo : item.entry \in 1..Len(devices)
  /\ \A h \in DOMAIN table : table[h] \in 1..Len(devices)

\* A round is for an entry of the list.
LEMMA EntryIsListed ==
  ASSUME devices \in Layouts, NEW c \in Rounds
  PROVE  Entry(c) \in 1..Len(devices)
<1>1. Scripts(devices) \in Nat /\ Len(devices) \in Nat
  BY ScriptsAssumption, LayoutsAssumption
<1>2. c \in Nat /\ c > 0 /\ c <= LastRound
  BY RoundsAreNumbers
<1>3. Len(devices) > 0
  <2>1. CASE Len(devices) = 0
    BY <1>1, <1>2, <2>1 DEF LastRound
  <2> QED
    BY <1>1, <2>1
<1> QED
  BY <1>1, <1>2, <1>3 DEF Entry

\* The step of a controller keeps the phase and the call of each.
LEMMA PhasesTyped ==
  ASSUME IInv, TypesOK, NEW c \in Rounds, Controller(c)
  PROVE  \A d \in Rounds : session'[d].phase \in Phases /\ session'[d].call \in Calls
<1>1. /\ session = [d \in Rounds |-> session[d]] /\ \A d \in Rounds : IsSession(session[d])
      /\ \A d \in Rounds : session[d].phase \in Phases /\ session[d].call \in Calls
  BY DEF IInv, Shape, TypesOK
<1> USE <1>1 DEF IsSession, Phases, Calls, Constructing, Running, NoSession, Listed
<1> QED
  <2>1. CASE OpenPrimary(c)
    BY <2>1 DEF OpenPrimary
  <2>2. CASE OpenPrimaryFails(c)
    BY <2>2 DEF OpenPrimaryFails
  <2>3. CASE CollectEndpoints(c)
    BY <2>3 DEF CollectEndpoints
  <2>4. CASE OpenEndpoint(c)
    BY <2>4 DEF OpenEndpoint
  <2>5. CASE OpenEndpointFails(c)
    BY <2>5 DEF OpenEndpointFails
  <2>6. CASE StartScript(c)
    BY <2>6 DEF StartScript
  <2>7. CASE Registered(c)
    BY <2>7 DEF Registered
  <2>8. CASE ConstructionFails(c)
    BY <2>8 DEF ConstructionFails
  <2>9. CASE Delete(c)
    BY <2>9 DEF Delete
  <2>10. CASE ShutdownEnds(c)
    BY <2>10 DEF ShutdownEnds
  <2>11. CASE CloseNext(c)
    BY <2>11 DEF CloseNext
  <2>12. CASE HidClose(c)
    BY <2>12 DEF HidClose
  <2>13. CASE Closed(c)
    BY <2>13 DEF Closed
  <2>14. CASE BeginCall(c)
    BY <2>14 DEF BeginCall
  <2>15. CASE EndCall(c)
    BY <2>15 DEF EndCall
  <2>16. CASE SetEndpoint(c)
    BY <2>16 DEF SetEndpoint
  <2>17. CASE BeginTransfer(c)
    BY <2>17 DEF BeginTransfer
  <2>18. CASE Transfer(c)
    BY <2>18 DEF Transfer
  <2>19. CASE TransferEnds(c)
    BY <2>19 DEF TransferEnds
  <2> QED
    BY <2>1, <2>2, <2>3, <2>4, <2>5, <2>6, <2>7, <2>8, <2>9, <2>10, <2>11, <2>12, <2>13,
       <2>14, <2>15, <2>16, <2>17, <2>18, <2>19 DEF Controller, UnderMutex

\* It leaves the loops where they are or ends the round, which was the controller's.
LEMMA PositionTyped ==
  ASSUME IInv, TypesOK, NEW c \in Rounds, Controller(c)
  PROVE  position' \in 1..LastRound + 1
<1>1. UNCHANGED position \/ (building = c /\ position' = position + 1)
  <2>1. CASE session[c].phase \in Constructing
    <3>1. building = c
      BY <2>1 DEF IInv, PhasesOK, PhaseOK
    <3> QED
      BY <3>1 DEF Controller, UnderMutex, NextRound, worker, OpenPrimary, OpenPrimaryFails,
         CollectEndpoints, OpenEndpoint, OpenEndpointFails, CloseNext, Transfer, StartScript,
         Registered, ConstructionFails, Delete, ShutdownEnds, HidClose, Closed, BeginCall,
         EndCall, SetEndpoint, BeginTransfer, TransferEnds
  <2>2. CASE session[c].phase \notin Constructing
    BY <2>2 DEF Constructing, Controller, UnderMutex, NextRound, worker, OpenPrimary,
       OpenPrimaryFails, CollectEndpoints, OpenEndpoint, OpenEndpointFails, CloseNext, Transfer,
       StartScript, Registered, ConstructionFails, Delete, ShutdownEnds, HidClose, Closed,
       BeginCall, EndCall, SetEndpoint, BeginTransfer, TransferEnds
  <2> QED
    BY <2>1, <2>2
<1>2. LastRound \in Nat /\ c \in Nat /\ c > 0 /\ c <= LastRound
  BY RoundsAreNumbers DEF IInv, Shape
<1>3. building = c => position = c
  BY <1>2 DEF IInv, LoopsOK
<1> QED
  BY <1>1, <1>2, <1>3 DEF TypesOK

\* The endpoints to open, and what is open, are entries of the list.
LEMMA EntriesTyped ==
  ASSUME IInv, TypesOK, NEW c \in Rounds, Controller(c)
  PROVE  /\ \A d \in Rounds : \A item \in session'[d].todo : item.entry \in 1..Len(devices)
         /\ \A h \in DOMAIN table' : table'[h] \in 1..Len(devices)
<1>1. /\ session = [d \in Rounds |-> session[d]] /\ \A d \in Rounds : IsSession(session[d])
      /\ \A d \in Rounds : \A item \in session[d].todo : item.entry \in 1..Len(devices)
      /\ \A h \in DOMAIN table : table[h] \in 1..Len(devices)
      /\ Entry(c) \in 1..Len(devices)
  BY EntryIsListed DEF IInv, Shape, TypesOK
<1>2. CASE OpenPrimary(c)
  BY <1>1, <1>2 DEF OpenPrimary, OpenPath, IsSession
<1>3. CASE OpenPrimaryFails(c)
  BY <1>1, <1>3 DEF OpenPrimaryFails, backend
<1>4. CASE CollectEndpoints(c)
  <2>1. PICK readable \in Readings(devices) :
          LET numbers == AssignCollectionIndices(devices, readable)
              Key(i) == EndpointKey(devices[i], numbers[i])
              added == {i \in 1..Len(devices) :
                          /\ devices[i].group = Group(c) /\ Key(i) # PrimaryKey(c)
                          /\ \A j \in 1..i - 1 : devices[j].group = Group(c) => Key(j) # Key(i)}
          IN session' = [session EXCEPT ![c].phase = "endpoints",
                           ![c].todo = {Primary(c)} \cup {Endpoint(i, Key(i)) : i \in added}]
    BY <1>4 DEF CollectEndpoints
  <2> DEFINE numbers == AssignCollectionIndices(devices, readable)
             Key(i) == EndpointKey(devices[i], numbers[i])
             added == {i \in 1..Len(devices) :
                         /\ devices[i].group = Group(c) /\ Key(i) # PrimaryKey(c)
                         /\ \A j \in 1..i - 1 : devices[j].group = Group(c) => Key(j) # Key(i)}
             todo == {Primary(c)} \cup {Endpoint(i, Key(i)) : i \in added}
             one == [session[c] EXCEPT !.phase = "endpoints"]
  <2>2. session' = [session EXCEPT ![c].phase = "endpoints", ![c].todo = todo]
    BY <2>1
  <2>3. \A item \in todo : item.entry \in 1..Len(devices)
    <3>1. added \subseteq 1..Len(devices)
      OBVIOUS
    <3> HIDE DEF added, Key
    <3> QED
      BY <1>1, <3>1 DEF Primary, Endpoint
  <2> HIDE DEF todo
  <2>4. session' = [session EXCEPT ![c] = [one EXCEPT !.todo = todo]]
    BY <1>1, <2>2
  <2>5. IsSession(one)
    BY <1>1 DEF IsSession
  <2> HIDE DEF one
  <2>6. session'[c].todo = todo /\ \A d \in Rounds \ {c} : session'[d] = session[d]
    BY <1>1, <2>4, <2>5 DEF IsSession
  <2> QED
    BY <1>1, <1>4, <2>3, <2>6 DEF CollectEndpoints, backend
<1>5. CASE OpenEndpoint(c)
  <2>1. PICK item \in session[c].todo :
          /\ session'[c].todo = session[c].todo \ {item}
          /\ \A d \in Rounds \ {c} : session'[d] = session[d]
          /\ UNCHANGED backend \/ OpenPath(item.entry)
    <3>1. PICK item \in session[c].todo :
            /\ \/ session' = [session EXCEPT ![c] = Listed(c, item)] /\ UNCHANGED backend
               \/ /\ session' = [session EXCEPT ![c] =
                       [Listed(c, item) EXCEPT !.handles = WithHandle(@, item.key)]]
                  /\ OpenPath(item.entry)
      BY <1>5 DEF OpenEndpoint
    <3>2. IsSession(Listed(c, item)) /\ Listed(c, item).todo = session[c].todo \ {item}
      BY <1>1, ListedFields DEF ListedKeeps
    <3>3. [Listed(c, item) EXCEPT !.handles = WithHandle(@, item.key)].todo
            = session[c].todo \ {item}
      BY <3>2 DEF IsSession
    <3> QED
      BY <1>1, <3>1, <3>2, <3>3
  <2>2. CASE UNCHANGED backend
    BY <1>1, <2>1, <2>2 DEF backend
  <2>3. CASE OpenPath(item.entry)
    BY <1>1, <2>1, <2>3 DEF OpenPath
  <2> QED
    BY <2>1, <2>2, <2>3
<1>6. CASE OpenEndpointFails(c)
  <2>1. PICK item : session' = [session EXCEPT ![c] = Listed(c, item)] /\ UNCHANGED backend
    BY <1>6 DEF OpenEndpointFails
  <2>2. Listed(c, item).todo = session[c].todo \ {item}
    BY <1>1, ListedFields DEF ListedKeeps
  <2> QED
    BY <1>1, <2>1, <2>2 DEF backend
<1>7. CASE CloseNext(c)
  <2>1. PICK handle, handles :
          /\ session' = [session EXCEPT ![c].closing = handle, ![c].handles = handles]
          /\ table' = Restrict(table, DOMAIN table \ {handle})
    BY <1>7 DEF CloseNext
  <2> DEFINE one == [session[c] EXCEPT !.closing = handle]
  <2>2. IsSession(one) /\ one.todo = session[c].todo
    BY <1>1 DEF IsSession
  <2>3. session' = [session EXCEPT ![c] = [one EXCEPT !.handles = handles]]
    BY <1>1, <2>1
  <2> HIDE DEF one
  <2>4. \A d \in Rounds : session'[d].todo = session[d].todo
    BY <1>1, <2>2, <2>3 DEF IsSession
  <2> QED
    BY <1>1, <2>1, <2>4 DEF Restrict
<1>8. CASE Closed(c)
  BY <1>1, <1>8 DEF Closed, NoSession, backend
<1>9. CASE HidClose(c)
  BY <1>1, <1>9 DEF HidClose, IsSession
<1>10. CASE StartScript(c) \/ Delete(c)
  BY <1>1, <1>10 DEF StartScript, Delete, backend, IsSession
<1>11. CASE ConstructionFails(c)
  BY <1>1, <1>11 DEF ConstructionFails, backend, IsSession
<1>12. CASE Registered(c) \/ ShutdownEnds(c)
  BY <1>1, <1>12 DEF Registered, ShutdownEnds, backend, IsSession
<1>13. CASE BeginCall(c) \/ EndCall(c) \/ BeginTransfer(c) \/ TransferEnds(c)
  BY <1>1, <1>13 DEF BeginCall, EndCall, BeginTransfer, TransferEnds, backend, IsSession
<1>14. CASE SetEndpoint(c) \/ Transfer(c)
  BY <1>1, <1>14 DEF SetEndpoint, Transfer, backend, IsSession
<1> QED
  BY <1>2, <1>3, <1>4, <1>5, <1>6, <1>7, <1>8, <1>9, <1>10, <1>11, <1>12, <1>13, <1>14
     DEF Controller, UnderMutex

\* The types are those of every step.
LEMMA TypesStep == IInv /\ TypesOK /\ [Next]_vars => TypesOK'
<1> SUFFICES ASSUME IInv, TypesOK, [Next]_vars PROVE TypesOK'
  OBVIOUS
<1>1. /\ Shape /\ LastRound \in Nat
  BY RoundsAreNumbers DEF IInv, Shape
<1>2. CASE UNCHANGED vars
  BY <1>2 DEF TypesOK, vars, Rounds, LastRound, Group, Entry
<1>3. CASE Enumerate
  <2>1. DOMAIN collections' = 1..Len(devices)
    BY <1>3 DEF Enumerate, AssignCollectionIndices
  <2>2. UNCHANGED <<devices, position, open_groups, session, table, holder>>
    BY <1>3 DEF Enumerate, worker, backend
  <2> QED
    BY <2>1, <2>2 DEF TypesOK, Rounds, LastRound, Group, Entry
<1>4. CASE PassOver \/ Abort
  <2>1. UNCHANGED <<devices, collections, open_groups, session, table, holder>>
    BY <1>4 DEF PassOver, Abort, backend
  <2>2. position' \in 1..LastRound + 1
    BY <1>1, <1>4 DEF PassOver, Abort, Matches, Rounds
  <2> QED
    BY <2>1, <2>2 DEF TypesOK, Rounds, LastRound, Group, Entry
<1>5. CASE Construct
  <2>1. UNCHANGED <<devices, collections, position, open_groups, table, holder>>
    BY <1>5 DEF Construct, backend
  <2>2. \A d \in Rounds : /\ session'[d].phase \in Phases /\ session'[d].call \in Calls
                          /\ session'[d].todo = session[d].todo
    BY <1>1, <1>5 DEF Construct, Matches, Shape, IsSession, TypesOK, Phases, Constructing
  <2> QED
    BY <2>1, <2>2 DEF TypesOK, Rounds, LastRound, Group, Entry
<1>6. ASSUME NEW c \in Rounds, Controller(c) PROVE TypesOK'
  <2>1. devices' = devices /\ collections' = collections
    BY <1>6 DEF Controller, UnderMutex, OpenPrimary, OpenPrimaryFails, CollectEndpoints,
       OpenEndpoint, OpenEndpointFails, CloseNext, Transfer, StartScript, Registered,
       ConstructionFails, Delete, ShutdownEnds, HidClose, Closed, BeginCall, EndCall, SetEndpoint,
       BeginTransfer, TransferEnds
  <2>2. open_groups' \in {open_groups, open_groups \cup {Group(c)}} /\ holder' \in {holder, c, 0}
    BY <1>6 DEF Controller, UnderMutex, OpenPrimary, OpenPrimaryFails, CollectEndpoints,
       OpenEndpoint, OpenEndpointFails, CloseNext, Transfer, StartScript, Registered,
       ConstructionFails, Delete, ShutdownEnds, HidClose, Closed, BeginCall, EndCall, SetEndpoint,
       BeginTransfer, TransferEnds, worker
  <2>3. Rounds' = Rounds /\ LastRound' = LastRound /\ \A d : Group(d)' = Group(d)
    BY <2>1 DEF Rounds, LastRound, Group, Entry
  <2> QED
    BY <1>6, <2>1, <2>2, <2>3, PhasesTyped, PositionTyped, EntriesTyped DEF TypesOK
<1> QED
  BY <1>2, <1>3, <1>4, <1>5, <1>6 DEF Next

\* The types of the discovery, the sessions and the backend, whatever the lists,
\* scripts and descriptors: no loop runs past its end, every handle is one that
\* was given out, and what is open is an entry of the list.
THEOREM TypeCorrect == Spec => []TypeOK
<1>1. Init => TypesOK
  <2> SUFFICES ASSUME Init PROVE TypesOK
    OBVIOUS
  <2>1. LastRound \in Nat /\ devices \in Layouts
    BY RoundsAreNumbers DEF Init
  <2>2. \A c \in Rounds : session[c] = NoSession
    BY DEF Init
  <2> QED
    BY <2>1, <2>2 DEF Init, TypesOK, NoSession, Phases, Calls
<1>2. IInv /\ TypesOK => TypeOK
  <2> SUFFICES ASSUME IInv, TypesOK PROVE TypeOK
    OBVIOUS
  <2>1. devices \in Layouts /\ building \in Rounds \cup {0}
    BY DEF IInv, Shape, LoopsOK
  <2>2. next_handle \in Nat /\ \A h \in opened : h \in 1..next_handle - 1
    BY DEF IInv, HandlesOK
  <2>3. DOMAIN table \subseteq opened /\ Range(table) \subseteq 1..Len(devices)
    BY DEF IInv, HandlesOK, TypesOK, Range
  <2>4. \A c \in Rounds : \A key \in DOMAIN session[c].handles :
          session[c].handles[key] \in 1..next_handle - 1
    BY <2>2, <2>3 DEF IInv, HandlesOK
  <2>5. \A c \in Rounds : Range(session[c].handles) \subseteq 1..next_handle - 1
    BY <2>4 DEF Range
  <2>6. \A c \in Rounds : session[c].active \in 0..next_handle - 1
    <3>1. next_handle > 0 /\ \A c \in Rounds : session[c].active # NoHandle =>
                                                 Owns(c, session[c].active)
      BY DEF IInv, PhasesOK, PhaseOK, HandlesOK
    <3> QED
      BY <2>2, <2>4, <3>1 DEF Owns, NoHandle
  <2> QED
    BY <2>1, <2>2, <2>3, <2>5, <2>6 DEF TypesOK, TypeOK, Phases, Calls
<1>3. Spec => []TypesOK
  BY <1>1, TypesStep, Invariance, PTL DEF Spec
<1> QED
  BY <1>2, <1>3, Invariance, PTL

-----------------------------------------------------------------------------
(* The numbers of the collections.                                         *)

\* A set of numbers has a least one.
LEMMA LeastNumber ==
  ASSUME NEW S, S \subseteq Nat, S # {}
  PROVE  \E n \in S : \A m \in S : n <= m
<1>1. PICK n \in S : \A m \in S : ~ (<<m, n>> \in OpToRel(<, Nat))
  BY NatLessThanWellFounded, WFMin
<1>2. \A m \in S : ~ (m < n)
  BY <1>1 DEF OpToRel
<1> QED
  BY <1>2

\* Min finds it.
LEMMA MinIsLeast ==
  ASSUME NEW S, S \subseteq Nat, S # {}
  PROVE  Min(S) \in S
BY LeastNumber DEF Min

\* What LocalCollection gives entry i, if local is what it gives those before.
LocalNumber(list, readable, local, i) ==
  LET parsed == Parsed(list[i].path, readable)
      taken == {local[j] : j \in OnPath(list, i) \cap 1..i - 1}
      same == {n \in 1..Len(parsed) : /\ parsed[n].usage = list[i].usage
                                      /\ parsed[n].page = list[i].page
                                      /\ parsed[n].collection \notin taken}
      free == CollectionSlots(list, i, readable) \ taken
  IN IF same # {} THEN parsed[Min(same)].collection
     ELSE IF free # {} THEN Min(free) ELSE 0

\* The recursion has a solution.
LEMMA LocalIsDefined ==
  ASSUME NEW list, NEW readable, Len(list) \in Nat
  PROVE  LET local == LocalCollection(list, readable)
         IN local = [i \in 1..Len(list) |-> LocalNumber(list, readable, local, i)]
<1> DEFINE Solves(g, n) == g = [i \in 1..n |-> LocalNumber(list, readable, g, i)]
<1>1. \A g, h : \A i \in Nat : (\A j \in 1..i - 1 : g[j] = h[j]) =>
        LocalNumber(list, readable, g, i) = LocalNumber(list, readable, h, i)
  <2> SUFFICES ASSUME NEW g, NEW h, NEW i \in Nat, \A j \in 1..i - 1 : g[j] = h[j]
               PROVE  LocalNumber(list, readable, g, i) = LocalNumber(list, readable, h, i)
    OBVIOUS
  <2>1. {g[j] : j \in OnPath(list, i) \cap 1..i - 1} = {h[j] : j \in OnPath(list, i) \cap 1..i - 1}
    OBVIOUS
  <2> QED
    BY <2>1 DEF LocalNumber
<1>2. \A n \in Nat : \E g : Solves(g, n)
  <2> DEFINE Bad == {n \in Nat : ~ \E g : Solves(g, n)}
  <2> SUFFICES ASSUME Bad # {} PROVE FALSE
    OBVIOUS
  <2>1. PICK n \in Bad : \A m \in Bad : n <= m
    <3>1. Bad \subseteq Nat
      OBVIOUS
    <3> HIDE DEF Bad
    <3> QED
      BY <3>1, LeastNumber
  <2>2. n # 0
    <3>1. Solves(<<>>, 0)
      OBVIOUS
    <3> QED
      BY <2>1, <3>1
  <2>3. PICK g : Solves(g, n - 1)
    BY <2>1, <2>2
  <2> DEFINE h == [i \in 1..n |-> LocalNumber(list, readable, g, i)]
  <2>4. n \in Nat /\ \A i \in 1..n - 1 : h[i] = g[i]
    BY <2>1, <2>3
  <2> HIDE DEF h, Bad
  <2>5. \A i \in 1..n : LocalNumber(list, readable, h, i) = LocalNumber(list, readable, g, i)
    <3> SUFFICES ASSUME NEW i \in 1..n
                 PROVE  LocalNumber(list, readable, h, i) = LocalNumber(list, readable, g, i)
      OBVIOUS
    <3>1. i \in Nat /\ \A j \in 1..i - 1 : h[j] = g[j]
      <4>1. \A j \in 1..i - 1 : j \in 1..n - 1
        BY <2>4
      <4> QED
        BY <2>4, <4>1
    <3> QED
      BY <1>1, <3>1
  <2>6. Solves(h, n)
    BY <2>5 DEF h
  <2> QED
    BY <2>1, <2>6 DEF Bad
<1>3. \E g : Solves(g, Len(list))
  BY <1>2
<1>4. LocalCollection(list, readable) = CHOOSE g : Solves(g, Len(list))
  BY DEF LocalCollection, LocalNumber
<1> QED
  BY <1>3, <1>4

\* The image of a finite set under a function is no larger.
LEMMA ImageIsSmaller ==
  ASSUME NEW S, IsFiniteSet(S), NEW f
  PROVE  /\ IsFiniteSet({f[x] : x \in S})
         /\ Cardinality({f[x] : x \in S}) <= Cardinality(S)
<1> DEFINE T == {f[x] : x \in S}
           g == [x \in S |-> f[x]]
<1>1. g \in Surjection(S, T)
  BY DEF Surjection
<1> QED
  BY <1>1, FS_Surjection

\* What a descriptor that is read, or is not, is worth.
LEMMA ParsedType ==
  ASSUME NEW list \in Layouts, NEW i \in 1..Len(list), NEW readable
  PROVE  LET parsed == Parsed(list[i].path, readable)
         IN Len(parsed) \in Nat /\ \A n \in 1..Len(parsed) : parsed[n].collection \in Nat
<1>1. list[i].path \in DOMAIN Descriptor
  BY LayoutsAssumption
<1> QED
  BY <1>1, DescriptorAssumption DEF Parsed

\* The entries of a path.
LEMMA OnPathType ==
  ASSUME NEW list \in Layouts, NEW i \in 1..Len(list)
  PROVE  /\ Len(list) \in Nat /\ list[i].path \in Nat
         /\ i \in OnPath(list, i) /\ OnPath(list, i) \subseteq OnInterface(list, i)
         /\ OnInterface(list, i) \subseteq 1..Len(list)
         /\ IsFiniteSet(OnPath(list, i)) /\ IsFiniteSet(OnInterface(list, i))
<1>1. Len(list) \in Nat /\ list[i].path \in DOMAIN Descriptor
  BY LayoutsAssumption
<1>0. list[i].path \in Nat
  BY <1>1, DescriptorAssumption
<1>2. IsFiniteSet(1..Len(list))
  BY <1>1, FS_Interval
<1>3. OnPath(list, i) \subseteq 1..Len(list) /\ OnInterface(list, i) \subseteq 1..Len(list)
  BY DEF OnPath, OnInterface
<1>4. i \in OnPath(list, i) /\ OnPath(list, i) \subseteq OnInterface(list, i)
  BY DEF OnPath, OnInterface
<1>5. IsFiniteSet(OnPath(list, i)) /\ IsFiniteSet(OnInterface(list, i))
  BY <1>2, <1>3, FS_Subset
<1> QED
  BY <1>0, <1>1, <1>3, <1>4, <1>5

\* Its slots are the first numbers, finitely many, and enough for its entries.
LEMMA SlotsType ==
  ASSUME NEW list \in Layouts, NEW i \in 1..Len(list), NEW readable
  PROVE  LET slots == CollectionSlots(list, i, readable)
         IN /\ slots \subseteq Nat /\ IsFiniteSet(slots)
            /\ \A s \in slots : 0..s \subseteq slots
            /\ 0..Cardinality(OnPath(list, i)) - 1 \subseteq slots
            /\ LET parsed == Parsed(list[i].path, readable)
               IN \A n \in 1..Len(parsed) : parsed[n].collection \in slots
<1> DEFINE parsed == Parsed(list[i].path, readable)
           k == Cardinality(OnPath(list, i))
           up == {0..parsed[n].collection : n \in 1..Len(parsed)}
<1>1. Len(parsed) \in Nat /\ \A n \in 1..Len(parsed) : parsed[n].collection \in Nat
  BY ParsedType
<1>2. k \in Nat
  BY OnPathType, FS_CardinalityType
<1>3. CollectionSlots(list, i, readable) = 0..k - 1 \cup UNION up
  BY DEF CollectionSlots
<1> HIDE DEF parsed, k
<1>4. IsFiniteSet(UNION up)
  <2> DEFINE f == [n \in 1..Len(parsed) |-> 0..parsed[n].collection]
  <2>1. up = {f[n] : n \in 1..Len(parsed)}
    OBVIOUS
  <2>2. IsFiniteSet(1..Len(parsed))
    BY <1>1, FS_Interval
  <2>0. \A m \in Nat : IsFiniteSet(0..m)
    BY FS_Interval
  <2>3. IsFiniteSet({f[n] : n \in 1..Len(parsed)})
    <3> HIDE DEF f
    <3> QED
      BY <2>2, ImageIsSmaller
  <2>4. \A T \in up : IsFiniteSet(T)
    BY <1>1, <2>0
  <2> HIDE DEF f, up
  <2> QED
    BY <2>1, <2>3, <2>4, FS_UNION
<1>5. IsFiniteSet(0..k - 1)
  BY <1>2, FS_Interval
<1>6. IsFiniteSet(0..k - 1 \cup UNION up)
  <2> HIDE DEF up
  <2> QED
    BY <1>4, <1>5, FS_Union
<1>7. 0..k - 1 \cup UNION up \subseteq Nat
  BY <1>1, <1>2
<1>8. \A s \in 0..k - 1 \cup UNION up : 0..s \subseteq 0..k - 1 \cup UNION up
  <2> SUFFICES ASSUME NEW s \in 0..k - 1 \cup UNION up, NEW r \in 0..s
               PROVE  r \in 0..k - 1 \cup UNION up
    OBVIOUS
  <2>1. s \in Nat /\ r \in Nat /\ r <= s
    BY <1>7
  <2>2. CASE s \in 0..k - 1
    BY <1>2, <2>1, <2>2
  <2>3. CASE s \in UNION up
    <3>1. PICK n \in 1..Len(parsed) : s \in 0..parsed[n].collection
      BY <2>3
    <3>2. r \in 0..parsed[n].collection
      BY <1>1, <2>1, <3>1
    <3> QED
      BY <3>1, <3>2
  <2> QED
    BY <2>2, <2>3
<1>9. \A n \in 1..Len(parsed) : parsed[n].collection \in UNION up
  BY <1>1
<1> QED
  BY <1>3, <1>6, <1>7, <1>8, <1>9 DEF parsed, k

\* Each entry gets a slot of its path which no earlier one has.
LEMMA LocalNumbersDiffer ==
  ASSUME NEW list \in Layouts, NEW readable, NEW i \in 1..Len(list),
         NEW local, local = LocalCollection(list, readable)
  PROVE  /\ local[i] = LocalNumber(list, readable, local, i)
         /\ local[i] \in CollectionSlots(list, i, readable)
         /\ \A j \in OnPath(list, i) : j < i => local[j] # local[i]
<1> DEFINE parsed == Parsed(list[i].path, readable)
           slots == CollectionSlots(list, i, readable)
           before == OnPath(list, i) \cap 1..i - 1
           taken == {local[j] : j \in before}
           same == {n \in 1..Len(parsed) : /\ parsed[n].usage = list[i].usage
                                           /\ parsed[n].page = list[i].page
                                           /\ parsed[n].collection \notin taken}
           free == slots \ taken
<1>1. Len(list) \in Nat
  BY LayoutsAssumption
<1>2. local[i] = LocalNumber(list, readable, local, i)
  BY <1>1, LocalIsDefined
<1>3. local[i] = IF same # {} THEN parsed[Min(same)].collection
                 ELSE IF free # {} THEN Min(free) ELSE 0
  BY <1>2 DEF LocalNumber
<1> SUFFICES local[i] \in slots \ taken
  <2>1. \A j \in OnPath(list, i) : j < i => j \in before
    BY <1>1 DEF OnPath, OnInterface
  <2>2. \A j \in before : local[j] \in taken
    OBVIOUS
  <2> HIDE DEF slots, taken, before
  <2> QED
    BY <1>2, <2>1, <2>2 DEF slots
<1>4. CASE same # {}
  <2>1. Min(same) \in same
    <3>1. same \subseteq Nat
      OBVIOUS
    <3> HIDE DEF same
    <3> QED
      BY <1>4, <3>1, MinIsLeast
  <2>2. parsed[Min(same)].collection \in slots \ taken
    BY <2>1, SlotsType
  <2> QED
    BY <1>3, <1>4, <2>2
<1>5. CASE same = {}
  <2>1. free # {}
    <3> SUFFICES ASSUME slots \subseteq taken PROVE FALSE
      OBVIOUS
    <3> DEFINE k == Cardinality(OnPath(list, i))
    <3>1. IsFiniteSet(OnPath(list, i)) /\ i \in OnPath(list, i)
      BY OnPathType
    <3>2. before \subseteq OnPath(list, i) /\ i \notin before
      OBVIOUS
    <3>3. IsFiniteSet(before) /\ Cardinality(before) < k /\ k \in Nat
      <4> HIDE DEF before
      <4>1. IsFiniteSet(before) /\ Cardinality(before) <= k
        BY <3>1, <3>2, FS_Subset
      <4>2. Cardinality(before) # k
        BY <3>1, <3>2, FS_Subset
      <4>3. Cardinality(before) \in Nat /\ k \in Nat
        BY <3>1, <4>1, FS_CardinalityType
      <4> QED
        BY <4>1, <4>2, <4>3
    <3>4. IsFiniteSet(taken) /\ Cardinality(taken) <= Cardinality(before)
      <4> HIDE DEF before
      <4> QED
        BY <3>3, ImageIsSmaller
    <3>5. 0..k - 1 \subseteq taken
      BY SlotsType
    <3> HIDE DEF k, taken, before
    <3>6. Cardinality(0..k - 1) <= Cardinality(taken)
      BY <3>4, <3>5, FS_Subset
    <3>7. Cardinality(0..k - 1) = k
      <4>1. k > 0
        BY <3>3, FS_CardinalityType
      <4> QED
        BY <3>3, <4>1, FS_Interval
    <3>8. Cardinality(taken) \in Nat /\ Cardinality(before) \in Nat
      BY <3>3, <3>4, FS_CardinalityType
    <3> QED
      BY <3>3, <3>4, <3>6, <3>7, <3>8
  <2>2. Min(free) \in free
    <3>1. free \subseteq Nat
      BY SlotsType
    <3> HIDE DEF free
    <3> QED
      BY <2>1, <3>1, MinIsLeast
  <2> QED
    BY <1>3, <1>5, <2>1, <2>2
<1> QED
  BY <1>4, <1>5

\* There are finitely many slots on the paths before.
LEMMA BeforeIsFinite ==
  ASSUME NEW list \in Layouts, NEW readable, NEW i \in 1..Len(list)
  PROVE  IsFiniteSet(SlotsBefore(list, i, readable))
<1> DEFINE S == {k \in OnInterface(list, i) : list[k].path < list[i].path}
           f == [j \in S |-> {list[j].path} \X CollectionSlots(list, j, readable)]
           T == {f[j] : j \in S}
<1>1. IsFiniteSet(S) /\ S \subseteq 1..Len(list)
  <2>1. IsFiniteSet(OnInterface(list, i)) /\ OnInterface(list, i) \subseteq 1..Len(list)
    BY OnPathType
  <2>2. S \subseteq OnInterface(list, i)
    OBVIOUS
  <2> HIDE DEF S
  <2> QED
    BY <2>1, <2>2, FS_Subset
<1>2. \A j \in 1..Len(list) : IsFiniteSet({list[j].path} \X CollectionSlots(list, j, readable))
  <2> TAKE j \in 1..Len(list)
  <2>1. IsFiniteSet(CollectionSlots(list, j, readable))
    BY SlotsType
  <2>2. IsFiniteSet({list[j].path})
    BY FS_Singleton
  <2> QED
    BY <2>1, <2>2, FS_Product
<1>3. \A x \in T : IsFiniteSet(x)
  BY <1>1, <1>2
<1>4. IsFiniteSet(T)
  <2> HIDE DEF S, f
  <2> QED
    BY <1>1, ImageIsSmaller
<1>5. SlotsBefore(list, i, readable) = UNION T
  BY DEF SlotsBefore
<1> HIDE DEF T
<1> QED
  BY <1>3, <1>4, <1>5, FS_UNION

\* On one path the numbers are as far apart as the entries' slots.
LEMMA PathHasOneOffset ==
  ASSUME NEW list, NEW readable, NEW i \in 1..Len(list), NEW j \in OnPath(list, i)
  PROVE  SlotsBefore(list, j, readable) = SlotsBefore(list, i, readable)
<1>1. list[j].path = list[i].path /\ OnInterface(list, j) = OnInterface(list, i)
  BY DEF OnPath, OnInterface
<1> QED
  BY <1>1 DEF SlotsBefore

\* Those of a later path begin after those of an earlier one.
LEMMA LaterPathIsAbove ==
  ASSUME NEW list \in Layouts, NEW readable, NEW i \in 1..Len(list), NEW j \in OnInterface(list, i),
         list[i].path < list[j].path, NEW slot \in CollectionSlots(list, i, readable)
  PROVE  /\ Cardinality(SlotsBefore(list, i, readable)) \in Nat
         /\ Cardinality(SlotsBefore(list, j, readable)) \in Nat
         /\ Cardinality(SlotsBefore(list, i, readable)) + slot < Cardinality(SlotsBefore(list, j, readable))
<1> DEFINE low == SlotsBefore(list, i, readable)
           high == SlotsBefore(list, j, readable)
           mine == {list[i].path} \X (0..slot)
<1>1. j \in 1..Len(list) /\ i \in OnInterface(list, j) /\ OnInterface(list, j) = OnInterface(list, i)
  BY DEF OnInterface
<1>2. \A k \in 1..Len(list) : list[k].path \in Nat
  BY OnPathType
<1>3. IsFiniteSet(low) /\ IsFiniteSet(high)
  BY <1>1, BeforeIsFinite
<1>4. slot \in Nat /\ 0..slot \subseteq CollectionSlots(list, i, readable)
  BY SlotsType
<1>5. mine \subseteq high
  BY <1>1, <1>4 DEF SlotsBefore
<1>6. low \subseteq high
  <2>1. \A k \in OnInterface(list, i) : list[k].path < list[i].path => list[k].path < list[j].path
    BY <1>1, <1>2 DEF OnInterface
  <2> QED
    BY <1>1, <2>1 DEF SlotsBefore
<1>7. low \cap mine = {}
  <2> SUFFICES ASSUME NEW x \in low, x \in mine PROVE FALSE
    OBVIOUS
  <2>1. PICK k \in OnInterface(list, i) :
          list[k].path < list[i].path /\ x \in {list[k].path} \X CollectionSlots(list, k, readable)
    BY DEF SlotsBefore
  <2>2. x[1] = list[k].path /\ x[1] = list[i].path
    BY <2>1
  <2> QED
    BY <1>2, <2>1, <2>2 DEF OnInterface
<1>8. IsFiniteSet(mine) /\ Cardinality(mine) = slot + 1
  <2>1. IsFiniteSet(0..slot) /\ Cardinality(0..slot) = slot + 1
    BY <1>4, FS_Interval
  <2>2. IsFiniteSet({list[i].path}) /\ Cardinality({list[i].path}) = 1
    BY FS_Singleton
  <2>3. Cardinality(mine) = 1 * (slot + 1) /\ IsFiniteSet(mine)
    BY <2>1, <2>2, FS_Product
  <2> QED
    BY <1>4, <2>3
<1> HIDE DEF low, high, mine
<1>9. Cardinality(low) \in Nat /\ Cardinality(high) \in Nat
  BY <1>3, FS_CardinalityType
<1>10. Cardinality(low \cup mine) = Cardinality(low) + slot + 1 /\ IsFiniteSet(low \cup mine)
  <2>1. Cardinality(low \cap mine) = 0
    BY <1>7, FS_EmptySet
  <2>2. /\ IsFiniteSet(low \cup mine)
        /\ Cardinality(low \cup mine)
             = Cardinality(low) + Cardinality(mine) - Cardinality(low \cap mine)
    BY <1>3, <1>8, FS_Union
  <2> QED
    BY <1>4, <1>8, <1>9, <2>1, <2>2
<1>11. Cardinality(low \cup mine) <= Cardinality(high)
  BY <1>3, <1>5, <1>6, FS_Subset
<1> QED
  BY <1>4, <1>9, <1>10, <1>11 DEF low, high

\* No two entries of an interface have one number.
LEMMA NumbersDiffer ==
  ASSUME NEW list \in Layouts, NEW readable, NEW i \in 1..Len(list), NEW j \in OnInterface(list, i), i # j
  PROVE  AssignCollectionIndices(list, readable)[i] # AssignCollectionIndices(list, readable)[j]
<1> DEFINE numbers == AssignCollectionIndices(list, readable)
           local == LocalCollection(list, readable)
           Offset(k) == Cardinality(SlotsBefore(list, k, readable))
<1>1. j \in 1..Len(list) /\ i \in OnInterface(list, j) /\ Len(list) \in Nat
  BY OnPathType DEF OnInterface
<1>2. \A k \in 1..Len(list) : numbers[k] = Offset(k) + local[k]
  BY DEF AssignCollectionIndices
<1>3. \A k \in 1..Len(list) : /\ local[k] \in CollectionSlots(list, k, readable)
                              /\ local[k] \in Nat /\ Offset(k) \in Nat
                              /\ \A l \in OnPath(list, k) : l < k => local[l] # local[k]
  BY LocalNumbersDiffer, SlotsType, BeforeIsFinite, FS_CardinalityType
<1>4. list[i].path \in Nat /\ list[j].path \in Nat
  BY <1>1, OnPathType
<1>5. CASE list[i].path = list[j].path
  <2>1. j \in OnPath(list, i) /\ i \in OnPath(list, j)
    BY <1>1, <1>5 DEF OnPath
  <2>2. Offset(i) = Offset(j)
    BY <2>1, PathHasOneOffset
  <2> HIDE DEF numbers, local, Offset
  <2>3. local[i] # local[j]
    BY <1>1, <1>3, <2>1
  <2>4. numbers[i] # numbers[j]
    BY <1>1, <1>2, <1>3, <2>2, <2>3
  <2> QED
    BY <2>4 DEF numbers
<1>6. CASE list[i].path < list[j].path
  <2>1. Offset(i) + local[i] < Offset(j)
    BY <1>3, <1>6, LaterPathIsAbove
  <2> HIDE DEF numbers, local, Offset
  <2>2. numbers[i] # numbers[j]
    BY <1>1, <1>2, <1>3, <2>1
  <2> QED
    BY <2>2 DEF numbers
<1>7. CASE list[j].path < list[i].path
  <2>1. Offset(j) + local[j] < Offset(i)
    BY <1>1, <1>3, <1>7, LaterPathIsAbove
  <2> HIDE DEF numbers, local, Offset
  <2>2. numbers[i] # numbers[j]
    BY <1>1, <1>2, <1>3, <2>1
  <2> QED
    BY <2>2 DEF numbers
<1> QED
  BY <1>4, <1>5, <1>6, <1>7

\* So no two entries of a device have one key.
LEMMA KeysDiffer ==
  ASSUME NEW list \in Layouts, NEW readable, NEW numbers,
         numbers = AssignCollectionIndices(list, readable),
         NEW i \in 1..Len(list), NEW j \in 1..Len(list), list[i].group = list[j].group,
         EndpointKey(list[i], numbers[i]) = EndpointKey(list[j], numbers[j])
  PROVE  i = j
<1>1. list[i].interface = list[j].interface /\ numbers[i] = numbers[j]
  BY DEF EndpointKey
<1>2. j \in OnInterface(list, i)
  BY <1>1 DEF OnInterface
<1> QED
  BY <1>1, <1>2, NumbersDiffer

\* The two enumerations of a device number its collections alike.
LEMMA NumbersStable ==
  ASSUME NEW list \in Layouts, Scripts(list) > 0,
         NEW r \in Readings(list), NEW s \in Readings(list)
  PROVE  AssignCollectionIndices(list, r) = AssignCollectionIndices(list, s)
<1>1. CASE r = s
  BY <1>1
<1>2. CASE r # s
  <2>1. \A i \in 1..Len(list) :
          /\ OnPath(list, i) = {i}
          /\ \A n \in 1..Len(Descriptor[list[i].path]) : Descriptor[list[i].path][n].collection = 0
    BY <1>2, ReadingsAssumption
  <2>2. \A i \in 1..Len(list) : \A readable : CollectionSlots(list, i, readable) = {0}
    <3> TAKE i \in 1..Len(list)
    <3> TAKE readable
    <3> DEFINE parsed == Parsed(list[i].path, readable)
    <3>1. Cardinality(OnPath(list, i)) - 1 = 0
      <4>1. Cardinality(OnPath(list, i)) = 1
        BY <2>1, FS_Singleton
      <4> QED
        BY <4>1
    <3>2. \A n \in 1..Len(parsed) : parsed[n].collection = 0
      BY <2>1 DEF Parsed
    <3> HIDE DEF parsed
    <3>3. 0..0 = {0}
      OBVIOUS
    <3>4. UNION {0..parsed[n].collection : n \in 1..Len(parsed)} \subseteq {0}
      BY <3>2, <3>3
    <3> QED
      BY <3>1, <3>3, <3>4 DEF CollectionSlots, parsed
  <2>3. \A i \in 1..Len(list) : \A readable : LocalCollection(list, readable)[i] = 0
    BY <2>2, LocalNumbersDiffer
  <2>4. \A i \in 1..Len(list) : SlotsBefore(list, i, r) = SlotsBefore(list, i, s)
    <3> TAKE i \in 1..Len(list)
    <3>1. OnInterface(list, i) \subseteq 1..Len(list)
      BY DEF OnInterface
    <3> QED
      BY <2>2, <3>1 DEF SlotsBefore
  <2> QED
    BY <2>3, <2>4 DEF AssignCollectionIndices
<1> QED
  BY <1>1, <1>2

\* The numbers the descriptor of its path has for the usage of an entry.
Place(list, i) ==
  {Descriptor[list[i].path][n].collection : n \in {m \in 1..Len(Descriptor[list[i].path]) :
     /\ Descriptor[list[i].path][m].usage = list[i].usage
     /\ Descriptor[list[i].path][m].page = list[i].page}}

\* They are finitely many.
LEMMA PlaceIsFinite ==
  ASSUME NEW list \in Layouts, NEW i \in 1..Len(list)
  PROVE  IsFiniteSet(Place(list, i)) /\ Place(list, i) \subseteq Nat
<1> DEFINE descriptor == Descriptor[list[i].path]
           S == {m \in 1..Len(descriptor) : descriptor[m].usage = list[i].usage
                                            /\ descriptor[m].page = list[i].page}
           f == [n \in S |-> descriptor[n].collection]
<1>0. list[i].path \in DOMAIN Descriptor
  BY LayoutsAssumption
<1>1. Len(descriptor) \in Nat /\ \A n \in 1..Len(descriptor) : descriptor[n].collection \in Nat
  <2> HIDE DEF S, f
  <2> QED
    BY <1>0, DescriptorAssumption
<1>2. IsFiniteSet(S)
  <2>0. \A m \in Nat : IsFiniteSet(1..m)
    BY FS_Interval
  <2>1. IsFiniteSet(1..Len(descriptor))
    BY <1>1, <2>0
  <2>2. S \subseteq 1..Len(descriptor)
    OBVIOUS
  <2> HIDE DEF S
  <2> QED
    BY <2>1, <2>2, FS_Subset
<1>3. Place(list, i) = {f[n] : n \in S}
  BY DEF Place
<1>4. IsFiniteSet({f[n] : n \in S})
  <2> HIDE DEF S, f
  <2> QED
    BY <1>2, ImageIsSmaller
<1>5. Place(list, i) \subseteq Nat
  BY <1>1 DEF Place
<1> QED
  BY <1>3, <1>4, <1>5

\* Where the descriptor is read and says which collection an entry is, that is
\* the number of the entry on its path.
LEMMA ClearIsFollowed ==
  ASSUME NEW list \in Layouts, NEW readable, NEW entry \in 1..Len(list),
         list[entry].path \in readable,
         \A i \in OnPath(list, entry) : Cardinality(Place(list, i)) = 1,
         \A i, j \in OnPath(list, entry) : i # j => Place(list, i) # Place(list, j)
  PROVE  \A i \in OnPath(list, entry) : LocalCollection(list, readable)[i] \in Place(list, i)
<1> DEFINE local == LocalCollection(list, readable)
           onPath == OnPath(list, entry)
           Bad == {i \in onPath : local[i] \notin Place(list, i)}
<1> SUFFICES ASSUME Bad # {} PROVE FALSE
  OBVIOUS
<1>1. onPath \subseteq 1..Len(list) /\ Len(list) \in Nat
  BY OnPathType
<1>2. PICK i \in Bad : \A m \in Bad : i <= m
  <2>1. Bad \subseteq Nat
    BY <1>1
  <2> HIDE DEF Bad
  <2> QED
    BY <2>1, LeastNumber
<1>3. i \in 1..Len(list) /\ i \in onPath
  BY <1>1
<1>4. list[i].path = list[entry].path /\ OnPath(list, i) = onPath
  BY <1>3 DEF OnPath, OnInterface
<1>5. \A j \in onPath : \E m : Place(list, j) = {m}
  <2> TAKE j \in onPath
  <2>1. IsFiniteSet(Place(list, j)) /\ Cardinality(Place(list, j)) = 1
    BY <1>1, PlaceIsFinite
  <2> QED
    BY <2>1, FS_Singleton
<1> DEFINE parsed == Parsed(list[i].path, readable)
           taken == {local[j] : j \in OnPath(list, i) \cap 1..i - 1}
           same == {n \in 1..Len(parsed) : /\ parsed[n].usage = list[i].usage
                                           /\ parsed[n].page = list[i].page
                                           /\ parsed[n].collection \notin taken}
<1>6. parsed = Descriptor[list[i].path]
  BY <1>4 DEF Parsed
<1>7. PICK m : Place(list, i) = {m}
  BY <1>3, <1>5
<1>8. \A j \in OnPath(list, i) \cap 1..i - 1 : local[j] # m
  <2> TAKE j \in OnPath(list, i) \cap 1..i - 1
  <2>1. j \in onPath /\ j # i /\ j < i
    BY <1>1, <1>3, <1>4
  <2>2. local[j] \in Place(list, j)
    BY <1>1, <1>2, <1>3, <2>1
  <2>3. Place(list, j) # Place(list, i)
    BY <1>3, <2>1
  <2>4. PICK l : Place(list, j) = {l}
    BY <1>5, <2>1
  <2> HIDE DEF local
  <2> QED
    BY <1>7, <2>2, <2>3, <2>4
<1>9. m \notin taken
  BY <1>8
<1>10. PICK n \in 1..Len(parsed) : /\ parsed[n].usage = list[i].usage
                                   /\ parsed[n].page = list[i].page
                                   /\ parsed[n].collection = m
  <2>1. m \in Place(list, i)
    BY <1>7
  <2> QED
    BY <1>6, <2>1 DEF Place
<1>11. same # {} /\ same \subseteq Nat
  <2> HIDE DEF taken, parsed
  <2>1. n \in same
    BY <1>9, <1>10
  <2> QED
    BY <2>1
<1>12. Min(same) \in same
  <2> HIDE DEF same
  <2> QED
    BY <1>11, MinIsLeast
<1>13. local[i] = parsed[Min(same)].collection
  <2>1. local[i] = LocalNumber(list, readable, local, i)
    BY <1>3, LocalNumbersDiffer
  <2> QED
    BY <1>11, <2>1 DEF LocalNumber
<1>14. parsed[Min(same)].collection \in Place(list, i)
  BY <1>6, <1>12 DEF Place
<1> QED
  BY <1>13, <1>14

\* Then the numbers are as far apart as the collections.
LEMMA ApartAsDescribed ==
  ASSUME NEW list \in Layouts, NEW readable, NEW entry \in 1..Len(list),
         list[entry].path \in readable,
         \A i \in OnPath(list, entry) : Cardinality(Place(list, i)) = 1,
         \A i, j \in OnPath(list, entry) : i # j => Place(list, i) # Place(list, j),
         NEW i \in OnPath(list, entry), NEW j \in OnPath(list, entry),
         NEW m \in Place(list, i), NEW n \in Place(list, j)
  PROVE  AssignCollectionIndices(list, readable)[i]
           - AssignCollectionIndices(list, readable)[j] = m - n
<1> DEFINE numbers == AssignCollectionIndices(list, readable)
           local == LocalCollection(list, readable)
           Offset(k) == Cardinality(SlotsBefore(list, k, readable))
<1>1. i \in 1..Len(list) /\ j \in 1..Len(list)
  BY OnPathType
<1>2. numbers[i] = Offset(i) + local[i] /\ numbers[j] = Offset(j) + local[j]
  BY <1>1 DEF AssignCollectionIndices
<1>3. Offset(i) = Offset(entry) /\ Offset(j) = Offset(entry)
  BY PathHasOneOffset
<1>4. Offset(entry) \in Nat
  BY BeforeIsFinite, FS_CardinalityType
<1>5. local[i] = m /\ local[j] = n
  <2>1. local[i] \in Place(list, i) /\ local[j] \in Place(list, j)
    BY ClearIsFollowed
  <2>2. \A k \in {i, j} : IsFiniteSet(Place(list, k)) /\ Cardinality(Place(list, k)) = 1
    BY <1>1, PlaceIsFinite
  <2>3. \A k \in {i, j} : \E x : Place(list, k) = {x}
    BY <2>2, FS_Singleton
  <2> HIDE DEF local
  <2> QED
    BY <2>1, <2>3
<1>6. m \in Nat /\ n \in Nat
  BY <1>1, PlaceIsFinite
<1> HIDE DEF numbers, local, Offset
<1>7. numbers[i] - numbers[j] = m - n
  BY <1>2, <1>3, <1>4, <1>5, <1>6
<1> QED
  BY <1>7 DEF numbers

-----------------------------------------------------------------------------
(* The endpoints scripts are told of.                                      *)

\* The key the discovery gave an entry, and the entries of a controller's device.
Key(i) == EndpointKey(devices[i], collections[i])
Members(c) == {i \in 1..Len(devices) : devices[i].group = Group(c)}
MemberKeys(c) == {Key(i) : i \in Members(c)}

\* The discovery numbered the list by one of the readings.
NumbersOK ==
  collections # <<>> =>
    \E readable \in Readings(devices) : collections = AssignCollectionIndices(devices, readable)

\* What is listed and what is still to be opened are together what the device has.
ListedOK(s, keys) ==
  /\ s.phase \in {"none", "opening", "collecting"} => s.advertised = {} /\ s.todo = {}
  /\ s.phase = "endpoints" => s.advertised \cup {item.key : item \in s.todo} = keys
  /\ s.phase \in Running => s.advertised = keys

NamedTodo(c) == \A item \in session[c].todo : item.entry \in Members(c) /\ item.key = Key(item.entry)

\* A handle is open on the entry whose key it has.
NamedHandles(c) ==
  \A key \in DOMAIN session[c].handles : key = Key(table[session[c].handles[key]])

ListsOK == \A c \in Rounds : /\ ListedOK(session[c], MemberKeys(c))
                             /\ NamedTodo(c) /\ NamedHandles(c)

EndpointsInv == NumbersOK /\ ListsOK

\* A step that keeps the lists and numbers keeps what is derived from them.
LEMMA KeysStay ==
  ASSUME UNCHANGED <<devices, collections>>
  PROVE  /\ Rounds' = Rounds /\ NumbersOK' = NumbersOK
         /\ \A i : Key(i)' = Key(i)
         /\ \A c : Members(c)' = Members(c) /\ MemberKeys(c)' = MemberKeys(c)
                   /\ PrimaryKey(c)' = PrimaryKey(c)
<1>1. Rounds' = Rounds /\ NumbersOK' = NumbersOK
  BY DEF Rounds, LastRound, NumbersOK
<1>2. (\A i : Key(i)' = Key(i)) /\ \A c : PrimaryKey(c)' = PrimaryKey(c)
  BY DEF Key, PrimaryKey, Entry
<1>3. \A c : Members(c)' = Members(c)
  BY DEF Members, Group, Entry
<1> QED
  BY <1>1, <1>2, <1>3 DEF MemberKeys

\* A controller whose lists and handles stay has the endpoints it had.
LEMMA ListsStay ==
  ASSUME IInv, ListsOK, UNCHANGED <<devices, collections>>, NEW c \in Rounds,
         session'[c].handles = session[c].handles,
         session'[c].advertised = session[c].advertised, session'[c].todo = session[c].todo,
         ListedOK(session'[c], MemberKeys(c)),
         \A h \in DOMAIN table : Owns(c, h) => table'[h] = table[h]
  PROVE  ListedOK(session'[c], MemberKeys(c)') /\ NamedTodo(c)' /\ NamedHandles(c)'
<1>1. MemberKeys(c)' = MemberKeys(c) /\ Members(c)' = Members(c) /\ \A i : Key(i)' = Key(i)
  BY KeysStay
<1>2. \A key \in DOMAIN session[c].handles :
        LET h == session[c].handles[key] IN h \in DOMAIN table /\ Owns(c, h)
  BY DEF IInv, HandlesOK, Owns
<1>3. NamedTodo(c)'
  BY <1>1 DEF ListsOK, NamedTodo
<1>4. NamedHandles(c)'
  BY <1>1, <1>2 DEF ListsOK, NamedHandles
<1> QED
  BY <1>1, <1>3, <1>4

\* So have the others, when one controller opens or closes an endpoint.
LEMMA OthersKeepLists ==
  ASSUME IInv, ListsOK, UNCHANGED <<devices, collections>>, NEW c \in Rounds,
         \A d \in Rounds \ {c} : session'[d] = session[d],
         \A d \in Rounds \ {c} : \A h \in DOMAIN table : Owns(d, h) => table'[h] = table[h]
  PROVE  \A d \in Rounds \ {c} :
           ListedOK(session'[d], MemberKeys(d)') /\ NamedTodo(d)' /\ NamedHandles(d)'
<1> TAKE d \in Rounds \ {c}
<1>1. ListedOK(session'[d], MemberKeys(d))
  BY DEF ListsOK
<1> QED
  BY <1>1, ListsStay

\* The invariant after the step of a controller.
LEMMA ListsAfter ==
  ASSUME EndpointsInv, UNCHANGED <<devices, collections>>, NEW c \in Rounds,
         \A d \in Rounds : ListedOK(session'[d], MemberKeys(d)') /\ NamedTodo(d)' /\ NamedHandles(d)'
  PROVE  EndpointsInv'
<1>1. Rounds' = Rounds /\ NumbersOK' = NumbersOK
  BY KeysStay
<1> QED
  BY <1>1 DEF EndpointsInv, ListsOK

-----------------------------------------------------------------------------
\* The steps that neither list nor open nor close an endpoint.
LEMMA ListsKept ==
  ASSUME IInv, EndpointsInv, UNCHANGED <<devices, collections>>, NEW c \in Rounds,
         table' = table,
         \A d \in Rounds \ {c} : session'[d] = session[d],
         session'[c].handles = session[c].handles,
         session'[c].advertised = session[c].advertised, session'[c].todo = session[c].todo,
         ListedOK(session'[c], MemberKeys(c))
  PROVE  EndpointsInv'
<1>1. ListedOK(session'[c], MemberKeys(c)') /\ NamedTodo(c)' /\ NamedHandles(c)'
  BY ListsStay DEF EndpointsInv
<1>2. \A d \in Rounds \ {c} :
        ListedOK(session'[d], MemberKeys(d)') /\ NamedTodo(d)' /\ NamedHandles(d)'
  BY OthersKeepLists DEF EndpointsInv
<1> QED
  BY <1>1, <1>2, ListsAfter

\* Such are those of the script, its construction and its end.
LEMMA ScriptKeepsLists ==
  ASSUME IInv, EndpointsInv, NEW c \in Rounds,
         \/ StartScript(c) \/ Registered(c) \/ ConstructionFails(c) \/ OpenPrimaryFails(c)
         \/ Delete(c) \/ ShutdownEnds(c) \/ HidClose(c)
         \/ BeginCall(c) \/ EndCall(c) \/ SetEndpoint(c) \/ BeginTransfer(c)
         \/ Transfer(c) \/ TransferEnds(c)
  PROVE  EndpointsInv'
<1>1. /\ session = [d \in Rounds |-> session[d]] /\ IsSession(session[c])
      /\ ListedOK(session[c], MemberKeys(c)) /\ PhaseOK(c)
  BY DEF IInv, Shape, PhasesOK, EndpointsInv, ListsOK
<1>2. UNCHANGED <<devices, collections, table>>
  BY DEF StartScript, Registered, ConstructionFails, OpenPrimaryFails, Delete, ShutdownEnds,
     HidClose, BeginCall, EndCall, SetEndpoint, BeginTransfer, Transfer, TransferEnds, backend
<1>3. \A d \in Rounds \ {c} : session'[d] = session[d]
  BY <1>1 DEF StartScript, Registered, ConstructionFails, OpenPrimaryFails, Delete, ShutdownEnds,
     HidClose, BeginCall, EndCall, SetEndpoint, BeginTransfer, Transfer, TransferEnds
<1>4. /\ session'[c].handles = session[c].handles
      /\ session'[c].advertised = session[c].advertised /\ session'[c].todo = session[c].todo
      /\ \/ session'[c].phase = session[c].phase
         \/ session'[c].phase \in {"closing", "gone"}
         \/ session'[c].phase \in Running /\ session[c].phase \in Running
         \/ session'[c].phase \in Running /\ session[c].phase = "endpoints" /\ session[c].todo = {}
  <2> USE <1>1 DEF IsSession, Running
  <2>1. CASE StartScript(c)
    BY <2>1 DEF StartScript
  <2>2. CASE Registered(c)
    BY <2>2 DEF Registered
  <2>3. CASE ConstructionFails(c)
    BY <2>3 DEF ConstructionFails
  <2>4. CASE OpenPrimaryFails(c)
    BY <2>4 DEF OpenPrimaryFails
  <2>5. CASE Delete(c)
    BY <2>5 DEF Delete
  <2>6. CASE ShutdownEnds(c)
    BY <2>6 DEF ShutdownEnds
  <2>7. CASE HidClose(c)
    BY <2>7 DEF HidClose
  <2>8. CASE BeginCall(c) \/ EndCall(c) \/ BeginTransfer(c) \/ Transfer(c) \/ TransferEnds(c)
    BY <2>8 DEF BeginCall, EndCall, BeginTransfer, Transfer, TransferEnds
  <2>9. CASE SetEndpoint(c)
    BY <2>9 DEF SetEndpoint
  <2> QED
    BY <2>1, <2>2, <2>3, <2>4, <2>5, <2>6, <2>7, <2>8, <2>9
<1>5. ListedOK(session'[c], MemberKeys(c))
  BY <1>1, <1>4 DEF ListedOK, Running
<1> QED
  BY <1>2, <1>3, <1>4, <1>5, ListsKept

\* The steps of the loops.
LEMMA LoopsKeepLists ==
  ASSUME IInv, EndpointsInv, Enumerate \/ PassOver \/ Construct \/ Abort
  PROVE  EndpointsInv'
<1>1. CASE Enumerate
  <2>1. \A c \in Rounds : session[c].phase = "none" /\ session[c].handles = <<>>
                          /\ session[c].advertised = {} /\ session[c].todo = {}
    BY <1>1 DEF Enumerate, IInv, LoopsOK, PhasesOK, PhaseOK, EndpointsInv, ListsOK, ListedOK
  <2>2. UNCHANGED <<devices, session, table>>
    BY <1>1 DEF Enumerate, backend
  <2>3. NumbersOK'
    BY <1>1, <2>2 DEF Enumerate, NumbersOK
  <2>4. Rounds' = Rounds
    BY <2>2 DEF Rounds, LastRound
  <2>5. ListsOK'
    BY <2>1, <2>2, <2>4 DEF ListsOK, ListedOK, NamedTodo, NamedHandles, Running
  <2> QED
    BY <2>3, <2>5 DEF EndpointsInv
<1>2. CASE PassOver \/ Abort
  <2>1. UNCHANGED <<devices, collections, session, table>>
    BY <1>2 DEF PassOver, Abort, backend
  <2>2. /\ Rounds' = Rounds /\ NumbersOK' = NumbersOK /\ \A i : Key(i)' = Key(i)
        /\ \A c : Members(c)' = Members(c) /\ MemberKeys(c)' = MemberKeys(c)
    BY <2>1, KeysStay
  <2> QED
    BY <2>1, <2>2 DEF EndpointsInv, ListsOK, NamedTodo, NamedHandles
<1>3. CASE Construct
  <2>1. PICK c \in Rounds : c = position
    BY <1>3 DEF Construct, Matches
  <2>2. UNCHANGED <<devices, collections, table>>
    BY <1>3 DEF Construct, backend
  <2>3. session[c].phase = "none" /\ IsSession(session[c]) /\ session = [d \in Rounds |-> session[d]]
    BY <1>3, <2>1 DEF Construct, Matches, IInv, LoopsOK, Shape
  <2>4. session' = [session EXCEPT ![c].phase = "opening"]
    BY <1>3, <2>1 DEF Construct
  <2>5. /\ \A d \in Rounds \ {c} : session'[d] = session[d]
        /\ session'[c].handles = session[c].handles
        /\ session'[c].advertised = session[c].advertised /\ session'[c].todo = session[c].todo
        /\ session'[c].phase = "opening"
    BY <2>3, <2>4 DEF IsSession
  <2>6. ListedOK(session'[c], MemberKeys(c))
    BY <2>3, <2>5 DEF EndpointsInv, ListsOK, ListedOK, Running
  <2> QED
    BY <2>2, <2>5, <2>6, ListsKept
<1> QED
  BY <1>1, <1>2, <1>3

\* The primary device is opened under its own key.
LEMMA OpenPrimaryLists ==
  ASSUME IInv, EndpointsInv, NEW c \in Rounds, OpenPrimary(c)
  PROVE  EndpointsInv'
<1>1. /\ session = [d \in Rounds |-> session[d]] /\ IsSession(session[c])
      /\ ListedOK(session[c], MemberKeys(c)) /\ NamedTodo(c)
  BY DEF IInv, Shape, EndpointsInv, ListsOK
<1>2. /\ UNCHANGED <<devices, collections>> /\ OpenPath(Entry(c))
      /\ session[c].phase = "opening"
      /\ session' = [session EXCEPT ![c].phase = "collecting",
                                    ![c].handles = WithHandle(<<>>, PrimaryKey(c))]
  BY DEF OpenPrimary
<1>3. /\ session'[c].handles = WithHandle(<<>>, PrimaryKey(c))
      /\ session'[c].advertised = session[c].advertised /\ session'[c].todo = session[c].todo
      /\ session'[c].phase = "collecting"
      /\ \A d \in Rounds \ {c} : session'[d] = session[d]
  <2> DEFINE one == [session[c] EXCEPT !.phase = "collecting"]
             handles == WithHandle(<<>>, PrimaryKey(c))
  <2>1. IsSession(one) /\ one.phase = "collecting" /\ one.advertised = session[c].advertised
        /\ one.todo = session[c].todo
    BY <1>1 DEF IsSession
  <2>2. session' = [session EXCEPT ![c] = [one EXCEPT !.handles = handles]]
    BY <1>1, <1>2
  <2> HIDE DEF one, handles
  <2>3. /\ session'[c].handles = handles /\ session'[c].advertised = one.advertised
        /\ session'[c].todo = one.todo /\ session'[c].phase = one.phase
        /\ \A d \in Rounds \ {c} : session'[d] = session[d]
    BY <1>1, <2>1, <2>2 DEF IsSession
  <2> QED
    BY <2>1, <2>3 DEF handles
<1>4. next_handle \notin DOMAIN table
  BY DEF IInv, HandlesOK
<1>5. table'[next_handle] = Entry(c) /\ \A h \in DOMAIN table : table'[h] = table[h]
  BY <1>2, <1>4 DEF OpenPath
<1>6. \A d \in Rounds \ {c} :
        ListedOK(session'[d], MemberKeys(d)') /\ NamedTodo(d)' /\ NamedHandles(d)'
  BY <1>2, <1>3, <1>5, OthersKeepLists DEF EndpointsInv
<1>7. MemberKeys(c)' = MemberKeys(c) /\ Members(c)' = Members(c) /\ \A i : Key(i)' = Key(i)
  BY <1>2, KeysStay
<1>8. ListedOK(session'[c], MemberKeys(c)') /\ NamedTodo(c)'
  BY <1>1, <1>2, <1>3, <1>7 DEF ListedOK, NamedTodo, Running
<1>9. NamedHandles(c)'
  <2>1. PrimaryKey(c) = Key(Entry(c)) /\ DOMAIN <<>> = {}
    BY DEF PrimaryKey, Key
  <2>2. \A key \in DOMAIN session'[c].handles :
          key = PrimaryKey(c) /\ session'[c].handles[key] = next_handle
    BY <1>3, <2>1 DEF WithHandle
  <2> QED
    BY <1>5, <1>7, <2>1, <2>2 DEF NamedHandles
<1> QED
  BY <1>2, <1>6, <1>8, <1>9, ListsAfter

\* An endpoint is listed, and open under the key of its entry if at all.
LEMMA OpenEndpointLists ==
  ASSUME IInv, EndpointsInv, NEW c \in Rounds, OpenEndpoint(c) \/ OpenEndpointFails(c)
  PROVE  EndpointsInv'
<1>1. /\ session = [d \in Rounds |-> session[d]] /\ IsSession(session[c])
      /\ ListedOK(session[c], MemberKeys(c)) /\ NamedTodo(c) /\ NamedHandles(c)
  BY DEF IInv, Shape, EndpointsInv, ListsOK
<1>2. PICK item \in session[c].todo :
        /\ IsNext(c, item) /\ UNCHANGED <<devices, collections>>
        /\ \/ session' = [session EXCEPT ![c] = Listed(c, item)] /\ UNCHANGED backend
           \/ /\ OpenPath(item.entry)
              /\ session' = [session EXCEPT ![c] =
                   [Listed(c, item) EXCEPT !.handles = WithHandle(@, item.key)]]
  BY DEF OpenEndpoint, OpenEndpointFails
<1> DEFINE new == Listed(c, item)
<1>3. /\ IsSession(new) /\ new.phase = "endpoints" /\ new.handles = session[c].handles
      /\ new.advertised = session[c].advertised \cup {item.key}
      /\ new.todo = session[c].todo \ {item}
  <2>1. ListedKeeps(c, item)
    BY <1>1, ListedFields
  <2>2. session[c].phase = "endpoints"
    BY <1>2 DEF IsNext
  <2> QED
    BY <2>1, <2>2 DEF ListedKeeps
<1> HIDE DEF new
<1>4. next_handle \notin DOMAIN table
  BY DEF IInv, HandlesOK
<1>5. /\ session'[c].phase = "endpoints" /\ session'[c].advertised = new.advertised
      /\ session'[c].todo = new.todo
      /\ \A d \in Rounds \ {c} : session'[d] = session[d]
      /\ \/ session'[c].handles = session[c].handles /\ table' = table
         \/ session'[c].handles = WithHandle(session[c].handles, item.key) /\ OpenPath(item.entry)
  <2>1. CASE session' = [session EXCEPT ![c] = Listed(c, item)] /\ UNCHANGED backend
    BY <1>1, <1>3, <2>1 DEF new, backend
  <2>2. CASE /\ OpenPath(item.entry)
             /\ session' = [session EXCEPT ![c] =
                  [Listed(c, item) EXCEPT !.handles = WithHandle(@, item.key)]]
    <3>1. PICK handles : handles = WithHandle(session[c].handles, item.key)
      OBVIOUS
    <3> DEFINE two == [new EXCEPT !.handles = handles]
    <3>2. session' = [session EXCEPT ![c] = two]
      BY <1>3, <2>2, <3>1 DEF new, IsSession
    <3>3. /\ two.phase = new.phase /\ two.advertised = new.advertised /\ two.todo = new.todo
          /\ two.handles = handles
      BY <1>3 DEF IsSession
    <3> HIDE DEF two
    <3>4. session'[c] = two /\ \A d \in Rounds \ {c} : session'[d] = session[d]
      BY <1>1, <3>2
    <3> QED
      BY <1>3, <2>2, <3>1, <3>3, <3>4
  <2> QED
    BY <1>2, <2>1, <2>2
<1>6. \A h \in DOMAIN table : table'[h] = table[h]
  BY <1>4, <1>5 DEF OpenPath
<1>7. \A d \in Rounds \ {c} :
        ListedOK(session'[d], MemberKeys(d)') /\ NamedTodo(d)' /\ NamedHandles(d)'
  BY <1>2, <1>5, <1>6, OthersKeepLists DEF EndpointsInv
<1>8. MemberKeys(c)' = MemberKeys(c) /\ Members(c)' = Members(c) /\ \A i : Key(i)' = Key(i)
  BY <1>2, KeysStay
<1>9. NamedTodo(c)'
  BY <1>1, <1>3, <1>5, <1>8 DEF NamedTodo
<1>10. ListedOK(session'[c], MemberKeys(c)')
  <2>1. session[c].phase = "endpoints"
    BY <1>2 DEF IsNext
  <2>2. session[c].advertised \cup {other.key : other \in session[c].todo} = MemberKeys(c)
    BY <1>1, <2>1 DEF ListedOK
  <2>3. new.advertised \cup {other.key : other \in new.todo}
          = session[c].advertised \cup {other.key : other \in session[c].todo}
    BY <1>2, <1>3
  <2> QED
    BY <1>5, <1>8, <2>2, <2>3 DEF ListedOK, Running
<1>11. NamedHandles(c)'
  <2>1. \A key \in DOMAIN session[c].handles :
          /\ session[c].handles[key] \in DOMAIN table
          /\ key = Key(table[session[c].handles[key]])
    BY <1>1 DEF IInv, HandlesOK, NamedHandles
  <2>2. CASE session'[c].handles = session[c].handles /\ table' = table
    BY <1>8, <2>1, <2>2 DEF NamedHandles
  <2>3. CASE session'[c].handles = WithHandle(session[c].handles, item.key) /\ OpenPath(item.entry)
    <3>1. table'[next_handle] = item.entry /\ item.key = Key(item.entry)
      BY <1>1, <1>2, <2>3 DEF OpenPath, NamedTodo
    <3>2. \A key \in DOMAIN session'[c].handles :
            \/ key = item.key /\ session'[c].handles[key] = next_handle
            \/ key \in DOMAIN session[c].handles
               /\ session'[c].handles[key] = session[c].handles[key]
      BY <2>3 DEF WithHandle
    <3>3. \A key \in DOMAIN session'[c].handles : key = Key(table'[session'[c].handles[key]])
      BY <1>6, <2>1, <3>1, <3>2
    <3> QED
      BY <1>8, <3>3 DEF NamedHandles
  <2> QED
    BY <1>5, <2>2, <2>3
<1> QED
  BY <1>2, <1>7, <1>9, <1>10, <1>11, ListsAfter

\* A handle is closed: the others are what they were.
LEMMA CloseNextLists ==
  ASSUME IInv, EndpointsInv, NEW c \in Rounds, CloseNext(c)
  PROVE  EndpointsInv'
<1>1. /\ session = [d \in Rounds |-> session[d]] /\ IsSession(session[c])
      /\ ListedOK(session[c], MemberKeys(c)) /\ NamedTodo(c) /\ NamedHandles(c)
  BY DEF IInv, Shape, EndpointsInv, ListsOK
<1>2. PICK key \in DOMAIN session[c].handles :
        /\ session' = [session EXCEPT
             ![c].closing = session[c].handles[key],
             ![c].handles = Restrict(@, DOMAIN @ \ {key})]
        /\ table' = Restrict(table, DOMAIN table \ {session[c].handles[key]})
        /\ UNCHANGED <<devices, collections>> /\ session[c].phase = "closing"
  BY DEF CloseNext
<1>3. PICK handle, kept : /\ handle = session[c].handles[key]
                          /\ kept = Restrict(session[c].handles, DOMAIN session[c].handles \ {key})
  OBVIOUS
<1>4. /\ session'[c].phase = "closing" /\ session'[c].advertised = session[c].advertised
      /\ session'[c].todo = session[c].todo /\ session'[c].handles = kept
      /\ \A d \in Rounds \ {c} : session'[d] = session[d]
  <2> DEFINE one == [session[c] EXCEPT !.closing = handle]
  <2>1. IsSession(one) /\ one.phase = "closing" /\ one.advertised = session[c].advertised
        /\ one.todo = session[c].todo /\ one.handles = session[c].handles
    BY <1>1, <1>2 DEF IsSession
  <2>2. session' = [session EXCEPT ![c] = [one EXCEPT !.handles = kept]]
    <3>1. session' = [session EXCEPT ![c].closing = handle, ![c].handles = kept]
      BY <1>1, <1>2, <1>3 DEF IsSession
    <3> QED
      BY <1>1, <3>1
  <2> HIDE DEF one
  <2> QED
    BY <1>1, <2>1, <2>2 DEF IsSession
<1>5. \A h \in DOMAIN table : h # handle => table'[h] = table[h]
  BY <1>2, <1>3 DEF Restrict
<1>6. /\ \A d \in Rounds : \A h : Owns(d, h) /\ h = handle => d = c
      /\ \A k \in DOMAIN session[c].handles : session[c].handles[k] = handle => k = key
      /\ \A k \in DOMAIN session[c].handles : session[c].handles[k] \in DOMAIN table
  BY <1>3 DEF IInv, HandlesOK, Owns
<1>7. \A d \in Rounds \ {c} :
        ListedOK(session'[d], MemberKeys(d)') /\ NamedTodo(d)' /\ NamedHandles(d)'
  BY <1>2, <1>4, <1>5, <1>6, OthersKeepLists DEF EndpointsInv
<1>8. MemberKeys(c)' = MemberKeys(c) /\ Members(c)' = Members(c) /\ \A i : Key(i)' = Key(i)
  BY <1>2, KeysStay
<1>9. ListedOK(session'[c], MemberKeys(c)') /\ NamedTodo(c)'
  BY <1>1, <1>4, <1>8 DEF ListedOK, NamedTodo, Running
<1>10. NamedHandles(c)'
  <2>1. \A k \in DOMAIN kept : /\ k \in DOMAIN session[c].handles /\ k # key
                               /\ kept[k] = session[c].handles[k]
    BY <1>3 DEF Restrict
  <2>2. \A k \in DOMAIN kept : k = Key(table'[kept[k]])
    BY <1>1, <1>5, <1>6, <2>1 DEF NamedHandles
  <2> QED
    BY <1>4, <1>8, <2>2 DEF NamedHandles
<1> QED
  BY <1>2, <1>7, <1>9, <1>10, ListsAfter

\* The session ends.
LEMMA ClosedLists ==
  ASSUME IInv, EndpointsInv, NEW c \in Rounds, Closed(c)
  PROVE  EndpointsInv'
<1>1. session = [d \in Rounds |-> session[d]]
  BY DEF IInv, Shape
<1>2. /\ UNCHANGED <<devices, collections, table>>
      /\ session' = [session EXCEPT ![c] = [NoSession EXCEPT !.phase = "gone"]]
  BY DEF Closed, backend
<1>3. /\ session'[c].phase = "gone" /\ session'[c].todo = {} /\ session'[c].handles = <<>>
      /\ \A d \in Rounds \ {c} : session'[d] = session[d]
  BY <1>1, <1>2 DEF NoSession
<1>4. \A d \in Rounds \ {c} :
        ListedOK(session'[d], MemberKeys(d)') /\ NamedTodo(d)' /\ NamedHandles(d)'
  BY <1>2, <1>3, OthersKeepLists DEF EndpointsInv
<1>5. ListedOK(session'[c], MemberKeys(c)') /\ NamedTodo(c)' /\ NamedHandles(c)'
  BY <1>3 DEF ListedOK, NamedTodo, NamedHandles, Running
<1> QED
  BY <1>2, <1>4, <1>5, ListsAfter

\* Two entries of a device have two keys.
LEMMA MembersHaveKeys ==
  ASSUME IInv, EndpointsInv, collections # <<>>, NEW c \in Rounds,
         NEW i \in Members(c), NEW j \in Members(c), Key(i) = Key(j)
  PROVE  i = j
<1>1. PICK readable : collections = AssignCollectionIndices(devices, readable)
  BY DEF EndpointsInv, NumbersOK
<1>2. devices \in Layouts /\ i \in 1..Len(devices) /\ j \in 1..Len(devices)
      /\ devices[i].group = devices[j].group
  BY DEF IInv, Shape, Members
<1> QED
  BY <1>1, <1>2, KeysDiffer DEF Key

\* The session's enumeration finds the primary device and the others.
LEMMA CollectLists ==
  ASSUME IInv, EndpointsInv, NEW c \in Rounds, CollectEndpoints(c)
  PROVE  EndpointsInv'
<1>1. /\ session = [d \in Rounds |-> session[d]] /\ IsSession(session[c])
      /\ ListedOK(session[c], MemberKeys(c)) /\ NamedHandles(c) /\ devices \in Layouts
  BY DEF IInv, Shape, EndpointsInv, ListsOK
<1>2. UNCHANGED <<devices, collections, table>> /\ session[c].phase = "collecting"
  BY DEF CollectEndpoints, backend
<1>3. PICK readable \in Readings(devices) :
        LET numbers == AssignCollectionIndices(devices, readable)
            K(i) == EndpointKey(devices[i], numbers[i])
            added == {i \in 1..Len(devices) :
                        /\ devices[i].group = Group(c) /\ K(i) # PrimaryKey(c)
                        /\ \A j \in 1..i - 1 : devices[j].group = Group(c) => K(j) # K(i)}
        IN session' = [session EXCEPT ![c].phase = "endpoints",
                         ![c].todo = {Primary(c)} \cup {Endpoint(i, K(i)) : i \in added}]
  BY DEF CollectEndpoints
<1>4. collections # <<>>
  BY <1>2 DEF IInv, LoopsOK
<1>5. AssignCollectionIndices(devices, readable) = collections
  <2>1. PICK first \in Readings(devices) : collections = AssignCollectionIndices(devices, first)
    BY <1>4 DEF EndpointsInv, NumbersOK
  <2>2. Scripts(devices) > 0
    <3>1. Scripts(devices) \in Nat /\ Len(devices) \in Nat
      BY <1>1, ScriptsAssumption, LayoutsAssumption
    <3>2. LastRound > 0
      BY <1>1, RoundsAreNumbers
    <3>3. CASE Scripts(devices) = 0
      BY <3>1, <3>2, <3>3 DEF LastRound
    <3> QED
      BY <3>1, <3>3
  <2> QED
    BY <1>1, <2>1, <2>2, NumbersStable
<1> DEFINE e == Entry(c)
           added == {i \in 1..Len(devices) :
                       /\ devices[i].group = Group(c) /\ Key(i) # PrimaryKey(c)
                       /\ \A j \in 1..i - 1 : devices[j].group = Group(c) => Key(j) # Key(i)}
           todo == {Primary(c)} \cup {Endpoint(i, Key(i)) : i \in added}
<1>6. session' = [session EXCEPT ![c].phase = "endpoints", ![c].todo = todo]
  BY <1>3, <1>5 DEF Key
<1>7. e \in Members(c) /\ PrimaryKey(c) = Key(e)
  BY <1>1, EntryIsListed DEF Members, Group, PrimaryKey, Key
<1>8. added = Members(c) \ {e}
  <2>1. Len(devices) \in Nat
    BY <1>1, LayoutsAssumption
  <2>2. \A i, j \in Members(c) : Key(i) = Key(j) => i = j
    BY <1>4, MembersHaveKeys
  <2>3. \A i \in added : i \in Members(c) /\ i # e
    BY <1>7 DEF Members
  <2>4. ASSUME NEW i \in Members(c), i # e PROVE i \in added
    <3>1. i \in 1..Len(devices) /\ devices[i].group = Group(c)
      BY DEF Members
    <3>2. Key(i) # PrimaryKey(c)
      BY <1>7, <2>2, <2>4
    <3>3. ASSUME NEW j \in 1..i - 1, devices[j].group = Group(c) PROVE Key(j) # Key(i)
      <4>1. j \in Members(c) /\ j # i
        BY <2>1, <3>1, <3>3 DEF Members
      <4> QED
        BY <2>2, <2>4, <4>1
    <3> QED
      BY <3>1, <3>2, <3>3
  <2> HIDE DEF added, e
  <2> QED
    BY <2>3, <2>4
<1>9. \A item \in todo : item.entry \in Members(c) /\ item.key = Key(item.entry)
  <2> HIDE DEF added, e
  <2>1. Primary(c).entry = e /\ Primary(c).key = Key(e)
    BY <1>7 DEF Primary, e
  <2>2. \A i \in added : Endpoint(i, Key(i)).entry = i /\ Endpoint(i, Key(i)).key = Key(i)
    BY DEF Endpoint
  <2> QED
    BY <1>7, <1>8, <2>1, <2>2
<1>10. {item.key : item \in todo} = MemberKeys(c)
  <2> HIDE DEF added, e
  <2>1. Primary(c).key = Key(e)
    BY <1>7 DEF Primary, e
  <2>2. \A i \in added : Endpoint(i, Key(i)).key = Key(i)
    BY DEF Endpoint
  <2>3. \A k \in MemberKeys(c) : \E item \in todo : item.key = k
    <3> TAKE k \in MemberKeys(c)
    <3>1. PICK i \in Members(c) : k = Key(i)
      BY DEF MemberKeys
    <3>2. CASE i = e
      BY <2>1, <3>1, <3>2
    <3>3. CASE i # e
      BY <1>8, <2>2, <3>1, <3>3
    <3> QED
      BY <3>2, <3>3
  <2>4. \A item \in todo : item.key \in MemberKeys(c)
    BY <1>9 DEF MemberKeys
  <2> HIDE DEF todo
  <2> QED
    BY <2>3, <2>4
<1> HIDE DEF todo, added, e
<1>11. /\ session'[c].phase = "endpoints" /\ session'[c].todo = todo
       /\ session'[c].advertised = session[c].advertised
       /\ session'[c].handles = session[c].handles
       /\ \A d \in Rounds \ {c} : session'[d] = session[d]
  <2> DEFINE one == [session[c] EXCEPT !.phase = "endpoints"]
  <2>1. IsSession(one) /\ one.phase = "endpoints" /\ one.advertised = session[c].advertised
        /\ one.handles = session[c].handles
    BY <1>1 DEF IsSession
  <2>2. session' = [session EXCEPT ![c] = [one EXCEPT !.todo = todo]]
    BY <1>1, <1>6
  <2> HIDE DEF one
  <2> QED
    BY <1>1, <2>1, <2>2 DEF IsSession
<1>12. \A d \in Rounds \ {c} :
         ListedOK(session'[d], MemberKeys(d)') /\ NamedTodo(d)' /\ NamedHandles(d)'
  BY <1>2, <1>11, OthersKeepLists DEF EndpointsInv
<1>13. MemberKeys(c)' = MemberKeys(c) /\ Members(c)' = Members(c) /\ \A i : Key(i)' = Key(i)
  BY <1>2, KeysStay
<1>14. ListedOK(session'[c], MemberKeys(c)')
  <2>1. session[c].advertised = {}
    BY <1>1, <1>2 DEF ListedOK
  <2> QED
    BY <1>10, <1>11, <1>13, <2>1 DEF ListedOK, Running
<1>15. NamedTodo(c)' /\ NamedHandles(c)'
  BY <1>1, <1>2, <1>9, <1>11, <1>13 DEF NamedTodo, NamedHandles
<1> QED
  BY <1>2, <1>12, <1>14, <1>15, ListsAfter

\* No endpoint is listed at first.
LEMMA EndpointsInit == Init => EndpointsInv
<1> SUFFICES ASSUME Init PROVE EndpointsInv
  OBVIOUS
<1>1. collections = <<>> /\ \A c \in Rounds : session[c] = NoSession
  BY DEF Init
<1>2. \A c \in Rounds : /\ session[c].phase = "none" /\ session[c].handles = <<>>
                         /\ session[c].advertised = {} /\ session[c].todo = {}
  BY <1>1 DEF NoSession
<1>3. ListsOK
  BY <1>2 DEF ListsOK, ListedOK, NamedTodo, NamedHandles, Running
<1> QED
  BY <1>1, <1>3 DEF EndpointsInv, NumbersOK

\* Every step keeps the lists of the controllers.
LEMMA EndpointsStep == IInv /\ EndpointsInv /\ [Next]_vars => EndpointsInv'
<1> SUFFICES ASSUME IInv, EndpointsInv, [Next]_vars PROVE EndpointsInv'
  OBVIOUS
<1>1. CASE UNCHANGED vars
  <2>1. UNCHANGED <<devices, collections, session, table>>
    BY <1>1 DEF vars
  <2>2. /\ Rounds' = Rounds /\ NumbersOK' = NumbersOK /\ \A i : Key(i)' = Key(i)
        /\ \A c : Members(c)' = Members(c) /\ MemberKeys(c)' = MemberKeys(c)
    BY <2>1, KeysStay
  <2> QED
    BY <2>1, <2>2 DEF EndpointsInv, ListsOK, NamedTodo, NamedHandles
<1>2. CASE Enumerate \/ PassOver \/ Construct \/ Abort
  BY <1>2, LoopsKeepLists
<1>3. ASSUME NEW c \in Rounds, Controller(c) PROVE EndpointsInv'
  BY <1>3, OpenPrimaryLists, CollectLists, OpenEndpointLists, CloseNextLists, ClosedLists,
     ScriptKeepsLists DEF Controller, UnderMutex
<1> QED
  BY <1>1, <1>2, <1>3 DEF Next

\* So they are always right.
LEMMA EndpointsInvariance == Spec => []EndpointsInv
BY EndpointsInit, EndpointsStep, Invariance, PTL DEF Spec

\* A running script was told of every collection of its device, once, and each
\* handle of its session is open on an entry of its own, for every descriptor and
\* order of the list (CollectEndpoints, AssignCollectionIndices).
THEOREM EndpointsComplete == Spec => []EndpointsAreComplete
<1>1. IInv /\ EndpointsInv => EndpointsAreComplete
  <2> SUFFICES ASSUME IInv, EndpointsInv, NEW c \in Rounds, session[c].phase \in Running
               PROVE  /\ Cardinality(session[c].advertised) = Cardinality(Members(c))
                      /\ IsInjective([h \in Range(session[c].handles) |-> table[h]])
    BY DEF EndpointsAreComplete, Members
  <2>1. collections # <<>>
    BY DEF IInv, LoopsOK, Running
  <2>2. session[c].advertised = MemberKeys(c)
    BY DEF EndpointsInv, ListsOK, ListedOK
  <2>3. Cardinality(MemberKeys(c)) = Cardinality(Members(c))
    <3> DEFINE f == [i \in Members(c) |-> Key(i)]
    <3>1. f \in Bijection(Members(c), MemberKeys(c))
      <4>1. \A i, j \in Members(c) : Key(i) = Key(j) => i = j
        BY <2>1, MembersHaveKeys
      <4> QED
        BY <4>1 DEF Bijection, Injection, Surjection, IsInjective, MemberKeys
    <3>2. IsFiniteSet(Members(c))
      <4>1. Len(devices) \in Nat
        BY LayoutsAssumption DEF IInv, Shape
      <4>2. IsFiniteSet(1..Len(devices))
        BY <4>1, FS_Interval
      <4>3. Members(c) \subseteq 1..Len(devices)
        BY DEF Members
      <4> QED
        BY <4>2, <4>3, FS_Subset
    <3>3. ExistsBijection(Members(c), MemberKeys(c))
      BY <3>1 DEF ExistsBijection
    <3> QED
      BY <3>2, <3>3, FS_Bijection
  <2>4. ASSUME NEW h \in Range(session[c].handles), NEW g \in Range(session[c].handles),
               table[h] = table[g]
        PROVE  h = g
    <3>1. PICK k \in DOMAIN session[c].handles : session[c].handles[k] = h
      BY DEF Range
    <3>2. PICK l \in DOMAIN session[c].handles : session[c].handles[l] = g
      BY DEF Range
    <3>3. k = Key(table[h]) /\ l = Key(table[g])
      BY <3>1, <3>2 DEF EndpointsInv, ListsOK, NamedHandles
    <3> QED
      BY <2>4, <3>1, <3>2, <3>3
  <2> QED
    BY <2>2, <2>3, <2>4 DEF IsInjective
<1> QED
  BY <1>1, Invariance, EndpointsInvariance, PTL

\* The numbers of a path whose descriptor is read are as far apart as its
\* collections, in whatever order they are listed (AssignCollectionIndices).
THEOREM NumbersFollow == Spec => []NumbersFollowDescriptors
<1>1. IInv /\ EndpointsInv => NumbersFollowDescriptors
  <2> SUFFICES ASSUME IInv, EndpointsInv, collections # <<>> PROVE NumbersFollowDescriptors
    BY DEF NumbersFollowDescriptors
  <2>1. PICK readable \in Readings(devices) :
          collections = AssignCollectionIndices(devices, readable)
    BY DEF EndpointsInv, NumbersOK
  <2>2. devices \in Layouts
    BY DEF IInv, Shape
  <2>3. ASSUME NEW entry \in 1..Len(devices),
               \A reading \in Readings(devices) : devices[entry].path \in reading,
               \A i \in OnPath(devices, entry) : Cardinality(Place(devices, i)) = 1,
               \A i, j \in OnPath(devices, entry) : i # j => Place(devices, i) # Place(devices, j),
               NEW i \in OnPath(devices, entry), NEW j \in OnPath(devices, entry),
               NEW m \in Place(devices, i), NEW n \in Place(devices, j)
        PROVE  collections[i] - collections[j] = m - n
    BY <2>1, <2>2, <2>3, ApartAsDescribed
  <2> SUFFICES ASSUME NEW entry \in 1..Len(devices)
               PROVE  LET path == devices[entry].path
                          onPath == OnPath(devices, entry)
                          descriptor == Descriptor[path]
                          place == [i \in onPath |->
                                      {descriptor[n].collection : n \in {m \in 1..Len(descriptor) :
                                         /\ descriptor[m].usage = devices[i].usage
                                         /\ descriptor[m].page = devices[i].page}}]
                          clear == /\ \A reading \in Readings(devices) : path \in reading
                                   /\ \A i \in onPath : Cardinality(place[i]) = 1
                                   /\ \A i, j \in onPath : i # j => place[i] # place[j]
                      IN clear => \A i, j \in onPath : \A m \in place[i], n \in place[j] :
                                    collections[i] - collections[j] = m - n
    BY DEF NumbersFollowDescriptors
  <2> DEFINE onPath == OnPath(devices, entry)
             descriptor == Descriptor[devices[entry].path]
             place == [i \in onPath |->
                         {descriptor[n].collection : n \in {m \in 1..Len(descriptor) :
                            /\ descriptor[m].usage = devices[i].usage
                            /\ descriptor[m].page = devices[i].page}}]
  <2>4. \A i \in onPath : place[i] = Place(devices, i)
    <3> TAKE i \in onPath
    <3>1. devices[i].path = devices[entry].path
      BY DEF OnPath
    <3> QED
      BY <3>1 DEF Place
  <2> HIDE DEF place, onPath
  <2> SUFFICES ASSUME \A reading \in Readings(devices) : devices[entry].path \in reading,
                      \A i \in onPath : Cardinality(place[i]) = 1,
                      \A i, j \in onPath : i # j => place[i] # place[j],
                      NEW i \in onPath, NEW j \in onPath,
                      NEW m \in place[i], NEW n \in place[j]
               PROVE  collections[i] - collections[j] = m - n
    BY DEF place, onPath
  <2> QED
    BY <2>3, <2>4 DEF onPath
<1> QED
  BY <1>1, Invariance, EndpointsInvariance, PTL

=============================================================================
