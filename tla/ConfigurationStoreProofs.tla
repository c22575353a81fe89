----------------------- MODULE ConfigurationStoreProofs -----------------------
(* Theorems about ConfigurationStore, for every value of its constants.    *)
EXTENDS ConfigurationStore, TLAPS

\* The names of the steps of an edit are not the name of no edit.
EditOf(k, p, v) == [step |-> "save", key |-> k, parameter |-> p, value |-> v]

-----------------------------------------------------------------------------
(* Types.                                                                  *)

\* The empty store is a store.
LEMMA EmptyType == Empty \in [Stored -> Settings] /\ Empty[Script] \in Settings
  BY DEF Empty, Stored, Settings

\* A configuration merged from settings is settings.
LEMMA ConfigurationType ==
  ASSUME NEW stored \in [Stored -> Settings], NEW key \in Keys
  PROVE  ConfigurationForDevice(stored, key) \in Settings
  <1>1. stored[key] \in Settings /\ stored[Script] \in Settings  BY DEF Stored
  <1> QED  BY <1>1 DEF ConfigurationForDevice, Settings

\* No edit is none of the edits.
LEMMA NoEditIsNone == NoEdit \notin Edits /\ NoEdit.step = "none"
  BY DEF NoEdit, Edits

\* A setting changed in a store leaves a store.
LEMMA StoreTypeKept ==
  ASSUME NEW stored \in [Stored -> Settings], NEW k \in Keys, NEW p \in Parameters,
         NEW v \in Values
  PROVE  [stored EXCEPT ![k][p] = v] \in [Stored -> Settings]
  BY DEF Stored, Settings

\* TypeOK is an invariant: every step of the module keeps the types.
THEOREM TypeCorrect == Spec => []TypeOK
  <1>1. Init => TypeOK
    BY EmptyType DEF Init, TypeOK
  <1>2. TypeOK /\ [Next]_vars => TypeOK'
    <2> SUFFICES ASSUME TypeOK, [Next]_vars PROVE TypeOK'  OBVIOUS
    <2> USE DEF TypeOK
    <2>1. CASE Load  BY <2>1, EmptyType DEF Load
    <2>2. CASE Unload  BY <2>2, EmptyType DEF Unload, Forget
    <2>3. CASE Crash  BY <2>3, EmptyType DEF Crash, Forget
    <2>4. CASE StartScan  BY <2>4 DEF StartScan
    <2>5. CASE ClearPages  BY <2>5 DEF ClearPages
    <2>6. CASE DeleteControllers  BY <2>6 DEF DeleteControllers
    <2>7. CASE CreateController
      <3>1. PICK d \in Devices \ listed :
              building' = [device |-> d, conf |-> ConfigurationForDevice(store, KeyOf[d])]
        BY <2>7 DEF CreateController
      <3>2. ConfigurationForDevice(store, KeyOf[d]) \in Settings
        BY ConfigurationType, KeyOfAssumption
      <3> QED  BY <2>7, <3>1, <3>2 DEF CreateController
    <2>8. CASE Register  BY <2>8 DEF Register
    <2>9. CASE CreateFails  BY <2>9 DEF CreateFails
    <2>10. CASE EndScan  BY <2>10 DEF EndScan
    <2>11. CASE ShowPages  BY <2>11, KeyOfAssumption DEF ShowPages
    <2>12. CASE SetDeviceConfigurationValue
      <3>1. PICK k \in pages, p \in Parameters, v \in Values :
              /\ store' = [store EXCEPT ![k][p] = v]
              /\ edit' = EditOf(k, p, v)
        BY <2>12 DEF SetDeviceConfigurationValue, EditOf
      <3>2. store' \in [Stored -> Settings]  BY <3>1, StoreTypeKept
      <3>3. edit' \in Edits  BY <3>1 DEF Edits, EditOf
      <3> QED  BY <2>12, <3>2, <3>3 DEF SetDeviceConfigurationValue
    <2>13. CASE Save
      <3>1. edit \in Edits  BY <2>13, NoEditIsNone DEF Save
      <3>2. edit' \in Edits  BY <2>13, <3>1 DEF Save, ToApply, Edits
      <3> QED  BY <2>13, <3>2 DEF Save
    <2>14. CASE ApplyConfiguration
      <3>1. edit \in Edits  BY <2>14, NoEditIsNone DEF ApplyConfiguration
      <3>2. \A d \in Devices :
              [conf[d] EXCEPT ![edit.parameter] = edit.value] \in Settings
        BY <3>1 DEF Edits, Settings
      <3>3. conf' \in [Devices -> Settings]  BY <2>14, <3>2 DEF ApplyConfiguration
      <3> QED  BY <2>14, <3>3 DEF ApplyConfiguration
    <2>15. CASE UNCHANGED vars  BY <2>15 DEF vars
    <2> QED
      BY <2>1, <2>2, <2>3, <2>4, <2>5, <2>6, <2>7, <2>8, <2>9, <2>10, <2>11, <2>12,
         <2>13, <2>14, <2>15 DEF Next
  <1> QED  BY <1>1, <1>2, PTL DEF Spec

-----------------------------------------------------------------------------
(* The file.                                                               *)

\* What relates the file to the store at every step: after an edit and before
\* its save the store is the file with the edit, and at any other time the two
\* are equal, unless the last access to the file failed.
FileInv ==
  /\ ~up => edit = NoEdit /\ ~unsaved
  /\ up /\ ~unsaved /\ edit.step # "save" => disk = store
  /\ up /\ ~unsaved /\ edit.step = "save" =>
       store = [disk EXCEPT ![edit.key][edit.parameter] = edit.value]

\* FileInv is inductive, given the types.
LEMMA FileInvStep ==
  ASSUME TypeOK, FileInv, [Next]_vars
  PROVE  FileInv'
  <1> USE NoEditIsNone DEF FileInv
  <1>1. CASE Load  BY <1>1 DEF Load
  <1>2. CASE Unload  BY <1>2 DEF Unload, Forget
  <1>3. CASE Crash  BY <1>3 DEF Crash, Forget
  <1>4. CASE StartScan  BY <1>4 DEF StartScan
  <1>5. CASE ClearPages  BY <1>5 DEF ClearPages
  <1>6. CASE DeleteControllers  BY <1>6 DEF DeleteControllers
  <1>7. CASE CreateController  BY <1>7 DEF CreateController
  <1>8. CASE Register  BY <1>8 DEF Register
  <1>9. CASE CreateFails  BY <1>9 DEF CreateFails
  <1>10. CASE EndScan  BY <1>10 DEF EndScan
  <1>11. CASE ShowPages  BY <1>11 DEF ShowPages
  <1>12. CASE SetDeviceConfigurationValue
    <2>1. PICK k \in pages, p \in Parameters, v \in Values :
            /\ store' = [store EXCEPT ![k][p] = v]
            /\ edit' = EditOf(k, p, v)
      BY <1>12 DEF SetDeviceConfigurationValue, EditOf
    <2>2. edit'.step = "save" /\ edit'.key = k /\ edit'.parameter = p /\ edit'.value = v
      BY <2>1 DEF EditOf
    <2>3. up /\ up' /\ unsaved' = unsaved /\ disk' = disk /\ edit.step # "save"
      BY <1>12 DEF SetDeviceConfigurationValue
    <2> QED  BY <2>1, <2>2, <2>3
  <1>13. CASE Save
    <2>2. edit'.step = "apply"  BY <1>13 DEF Save, ToApply
    <2>3. up /\ up'  BY <1>13 DEF Save
    <2> QED  BY <1>13, <2>2, <2>3 DEF Save
  <1>14. CASE ApplyConfiguration  BY <1>14 DEF ApplyConfiguration
  <1>15. CASE UNCHANGED vars  BY <1>15 DEF vars
  <1> QED
    BY <1>1, <1>2, <1>3, <1>4, <1>5, <1>6, <1>7, <1>8, <1>9, <1>10, <1>11, <1>12,
       <1>13, <1>14, <1>15 DEF Next

\* FileFollowsStore holds of every behaviour: the file holds what the pages
\* have set whenever no change is on its way.
THEOREM FileFollowsStoreHolds == Spec => []FileFollowsStore
  <1>1. Init => FileInv  BY NoEditIsNone DEF Init, FileInv
  <1>2. TypeOK /\ FileInv /\ [Next]_vars => FileInv'  BY FileInvStep
  <1>3. FileInv => FileFollowsStore  BY NoEditIsNone DEF FileInv, FileFollowsStore
  <1> QED  BY <1>1, <1>2, <1>3, TypeCorrect, PTL DEF Spec

\* FileChangesWithOneEdit holds of every behaviour: what is written differs from
\* the file by the one change being made.
THEOREM FileChangesWithOneEditHolds == Spec => FileChangesWithOneEdit
  <1> DEFINE OneEdit ==
        disk' # disk /\ ~unsaved =>
          /\ edit.step = "save"
          /\ disk' = [disk EXCEPT ![edit.key][edit.parameter] = edit.value]
  <1>1. TypeOK /\ FileInv /\ [Next]_vars => [OneEdit]_vars
    <2> SUFFICES ASSUME FileInv, [Next]_vars, disk' # disk, ~unsaved
                 PROVE  /\ edit.step = "save"
                        /\ disk' = [disk EXCEPT ![edit.key][edit.parameter] = edit.value]
      OBVIOUS
    <2>1. Save
      BY DEF Next, vars, Load, Unload, Crash, Forget, StartScan, ClearPages,
             DeleteControllers, CreateController, Register, CreateFails, EndScan,
             ShowPages, SetDeviceConfigurationValue, ApplyConfiguration
    <2> QED  BY <2>1, NoEditIsNone DEF Save, FileInv
  <1>2. Init => FileInv  BY NoEditIsNone DEF Init, FileInv
  <1>3. TypeOK /\ FileInv /\ [Next]_vars => FileInv'  BY FileInvStep
  <1> QED  BY <1>1, <1>2, <1>3, TypeCorrect, PTL DEF Spec, FileChangesWithOneEdit

-----------------------------------------------------------------------------
(* The settings of others.                                                 *)

\* No setting of the file is missing from the store.
NoneMissing ==
  up => \A k \in Stored, p \in Parameters : disk[k][p] # None => store[k][p] # None

\* NoneMissing is inductive where the file can always be read.
LEMMA NoneMissingStep ==
  ASSUME ~ReadsFail, TypeOK, NoneMissing, [Next]_vars
  PROVE  NoneMissing'
  <1> USE DEF NoneMissing
  <1>1. CASE Load  BY <1>1 DEF Load
  <1>2. CASE Unload  BY <1>2 DEF Unload, Forget
  <1>3. CASE Crash  BY <1>3 DEF Crash, Forget
  <1>4. CASE SetDeviceConfigurationValue
    <2>1. PICK k \in pages, p \in Parameters, v \in Values :
            store' = [store EXCEPT ![k][p] = v]
      BY <1>4 DEF SetDeviceConfigurationValue
    <2>2. store \in [Stored -> [Parameters -> Values \cup {None}]] /\ k \in Stored
      BY DEF TypeOK, Settings, Stored
    <2>3. \A key \in Stored, q \in Parameters :
            store[key][q] # None => store'[key][q] # None
      BY <2>1, <2>2, NoneAssumption
    <2> QED  BY <1>4, <2>3 DEF SetDeviceConfigurationValue
  <1>5. CASE Save  BY <1>5 DEF Save
  <1>6. CASE UNCHANGED <<up, disk, store>>  BY <1>6
  <1> QED
    BY <1>1, <1>2, <1>3, <1>4, <1>5, <1>6
    DEF Next, vars, StartScan, ClearPages, DeleteControllers, CreateController, Register,
        CreateFails, EndScan, ShowPages, ApplyConfiguration

\* SettingsSurvive holds of every behaviour in which the file can be read: no
\* sequence of changes, failed saves, discoveries and crashes takes a setting
\* out of the file.
THEOREM SettingsSurviveReads == ~ReadsFail => (Spec => SettingsSurvive)
  <1> SUFFICES ASSUME ~ReadsFail PROVE Spec => SettingsSurvive  OBVIOUS
  <1> DEFINE Survives ==
        \A k \in Stored, p \in Parameters : disk[k][p] # None => disk'[k][p] # None
  <1>1. Init => NoneMissing  BY DEF Init, NoneMissing
  <1>2. TypeOK /\ NoneMissing /\ [Next]_vars => NoneMissing'  BY NoneMissingStep
  <1>3. TypeOK /\ FileInv /\ NoneMissing /\ [Next]_vars => [Survives]_vars
    <2> SUFFICES ASSUME FileInv, NoneMissing, Next PROVE Survives  BY DEF vars
    <2>1. CASE Save
      <3>1. up  BY <2>1, NoEditIsNone DEF Save, FileInv
      <3> QED  BY <2>1, <3>1 DEF Save, NoneMissing
    <2>2. CASE disk' = disk  BY <2>2
    <2> QED
      BY <2>1, <2>2
      DEF Next, Load, Unload, Crash, Forget, StartScan, ClearPages, DeleteControllers,
          CreateController, Register, CreateFails, EndScan, ShowPages,
          SetDeviceConfigurationValue, ApplyConfiguration
  <1>4. Init => FileInv  BY NoEditIsNone DEF Init, FileInv
  <1>5. TypeOK /\ FileInv /\ [Next]_vars => FileInv'  BY FileInvStep
  <1> HIDE DEF Survives
  <1>6. Spec => [][Survives]_vars
    BY <1>1, <1>2, <1>3, <1>4, <1>5, TypeCorrect, PTL DEF Spec
  <1> QED  BY <1>6 DEF SettingsSurvive, Survives

-----------------------------------------------------------------------------
(* The controllers.                                                        *)

Configured(d) == ConfigurationForDevice(store, KeyOf[d])

\* Pages are shown only while the worker has not got past the controllers of
\* the last discovery, and only of controllers that are listed.
PagesInv ==
  /\ ~up => pages = {} /\ edit = NoEdit /\ listed = {} /\ worker = "idle"
  /\ edit # NoEdit => edit.key \in pages
  /\ pages # {} => listed # {} /\ worker \in {"idle", "starting"}
  /\ pages # {} /\ worker = "starting" => clearing

\* A controller of the list, or one about to be, has the configuration the store
\* has for its device, or will have when the change on its way has been applied.
ConfInv ==
  /\ worker = "building" => building.conf = Configured(building.device)
  /\ edit = NoEdit => \A d \in listed : conf[d] = Configured(d)
  /\ edit # NoEdit =>
       \A d \in listed :
         Configured(d) = IF KeyOf[d] = edit.key
                           THEN [conf[d] EXCEPT ![edit.parameter] = edit.value] ELSE conf[d]

\* A change of one parameter of a key changes that parameter in the
\* configurations of the key's devices, and nothing else.
LEMMA ChangedConfiguration ==
  ASSUME TypeOK, NEW k \in Keys, NEW p \in Parameters, NEW v \in Values,
         store' = [store EXCEPT ![k][p] = v], NEW d \in Devices
  PROVE  Configured(d)' =
           IF KeyOf[d] = k THEN [Configured(d) EXCEPT ![p] = v] ELSE Configured(d)
  <1>1. store \in [Stored -> [Parameters -> Values \cup {None}]]
    BY DEF TypeOK, Settings
  <1>2. k \in Stored /\ KeyOf[d] \in Stored /\ Script \in Stored /\ k # Script
    BY KeyOfAssumption, ScriptAssumption DEF Stored
  <1>3. v # None  BY NoneAssumption
  <1>4. CASE KeyOf[d] = k
    <2> DEFINE Merged(q) == IF store[k][q] # None THEN store[k][q] ELSE store[Script][q]
    <2>1. \A q \in Parameters :
            /\ store'[k][q] = IF q = p THEN v ELSE store[k][q]
            /\ store'[Script][q] = store[Script][q]
      BY <1>1, <1>2
    <2>2. Configured(d) = [q \in Parameters |-> Merged(q)]
      BY <1>4 DEF Configured, ConfigurationForDevice
    <2>3. Configured(d)' =
            [q \in Parameters |-> IF store'[k][q] # None THEN store'[k][q] ELSE store'[Script][q]]
      BY <1>4 DEF Configured, ConfigurationForDevice
    <2>4. Configured(d)' = [q \in Parameters |-> IF q = p THEN v ELSE Merged(q)]
      BY <2>1, <2>3, <1>3
    <2> HIDE DEF Merged
    <2>5. [Configured(d) EXCEPT ![p] = v] = [q \in Parameters |-> IF q = p THEN v ELSE Merged(q)]
      BY <2>2
    <2> QED  BY <2>4, <2>5, <1>4
  <1>5. CASE KeyOf[d] # k
    <2>1. store'[KeyOf[d]] = store[KeyOf[d]] /\ store'[Script] = store[Script]
      BY <1>1, <1>2, <1>5
    <2> QED  BY <2>1, <1>5 DEF Configured, ConfigurationForDevice
  <1> QED  BY <1>4, <1>5

\* PagesInv is inductive with an API 5 host.
LEMMA PagesInvStep ==
  ASSUME Api = 5, TypeOK, PagesInv, [Next]_vars
  PROVE  PagesInv'
  <1> USE NoEditIsNone DEF PagesInv
  <1>1. CASE Load  BY <1>1 DEF Load
  <1>2. CASE Unload  BY <1>2 DEF Unload, Forget
  <1>3. CASE Crash  BY <1>3 DEF Crash, Forget
  <1>4. CASE StartScan  BY <1>4 DEF StartScan
  <1>5. CASE ClearPages  BY <1>5 DEF ClearPages
  <1>6. CASE DeleteControllers  BY <1>6 DEF DeleteControllers, HostServes
  <1>7. CASE CreateController  BY <1>7 DEF CreateController
  <1>8. CASE Register  BY <1>8 DEF Register
  <1>9. CASE CreateFails  BY <1>9 DEF CreateFails
  <1>10. CASE EndScan  BY <1>10 DEF EndScan
  <1>11. CASE ShowPages  BY <1>11 DEF ShowPages
  <1>12. CASE SetDeviceConfigurationValue  BY <1>12 DEF SetDeviceConfigurationValue
  <1>13. CASE Save
    <2>1. edit # NoEdit /\ edit'.key = edit.key  BY <1>13 DEF Save, ToApply
    <2> QED  BY <1>13, <2>1 DEF Save
  <1>14. CASE ApplyConfiguration  BY <1>14 DEF ApplyConfiguration
  <1>15. CASE UNCHANGED vars  BY <1>15 DEF vars
  <1> QED
    BY <1>1, <1>2, <1>3, <1>4, <1>5, <1>6, <1>7, <1>8, <1>9, <1>10, <1>11, <1>12,
       <1>13, <1>14, <1>15 DEF Next

\* ConfInv is inductive, given PagesInv.
LEMMA ConfInvStep ==
  ASSUME TypeOK, PagesInv, ConfInv, [Next]_vars
  PROVE  ConfInv'
  <1> USE NoEditIsNone DEF ConfInv
  <1>1. CASE Load  BY <1>1 DEF Load, PagesInv
  <1>2. CASE Unload  BY <1>2 DEF Unload, Forget
  <1>3. CASE Crash  BY <1>3 DEF Crash, Forget
  <1>4. CASE StartScan  BY <1>4 DEF StartScan, Configured
  <1>5. CASE ClearPages  BY <1>5 DEF ClearPages, Configured
  <1>6. CASE DeleteControllers  BY <1>6 DEF DeleteControllers, Configured
  <1>7. CASE CreateController
    <2>1. PICK d \in Devices \ listed :
            building' = [device |-> d, conf |-> ConfigurationForDevice(store, KeyOf[d])]
      BY <1>7 DEF CreateController
    <2>2. building'.device = d /\ building'.conf = Configured(d)
      BY <2>1 DEF Configured
    <2> QED  BY <1>7, <2>2 DEF CreateController, Configured
  <1>8. CASE Register
    <2>1. building \in [device : Devices, conf : Settings] /\ conf \in [Devices -> Settings]
      BY DEF TypeOK
    <2>2. edit = NoEdit  BY <1>8 DEF Register, PagesInv
    <2>3. \A d \in listed' : conf'[d] = Configured(d)
      BY <1>8, <2>1, <2>2 DEF Register, TypeOK
    <2> QED  BY <1>8, <2>2, <2>3 DEF Register, Configured
  <1>9. CASE CreateFails  BY <1>9 DEF CreateFails, Configured
  <1>10. CASE EndScan  BY <1>10 DEF EndScan, Configured
  <1>11. CASE ShowPages  BY <1>11 DEF ShowPages, Configured
  <1>12. CASE SetDeviceConfigurationValue
    <2>1. PICK k \in pages, p \in Parameters, v \in Values :
            /\ store' = [store EXCEPT ![k][p] = v]
            /\ edit' = EditOf(k, p, v)
      BY <1>12 DEF SetDeviceConfigurationValue, EditOf
    <2>2. /\ edit' # NoEdit /\ edit'.key = k /\ edit'.parameter = p /\ edit'.value = v
          /\ k \in Keys
      BY <2>1 DEF EditOf, NoEdit, TypeOK
    <2>3. /\ edit = NoEdit /\ worker' # "building"
          /\ listed' = listed /\ conf' = conf /\ listed \subseteq Devices
      BY <1>12, <2>1 DEF SetDeviceConfigurationValue, PagesInv, TypeOK
    <2>4. \A d \in listed :
            Configured(d)' = IF KeyOf[d] = k THEN [conf[d] EXCEPT ![p] = v] ELSE conf[d]
      <3> SUFFICES ASSUME NEW d \in listed
                   PROVE  Configured(d)' =
                            IF KeyOf[d] = k THEN [conf[d] EXCEPT ![p] = v] ELSE conf[d]
        OBVIOUS
      <3>1. d \in Devices /\ conf[d] = Configured(d)  BY <2>3
      <3>2. Configured(d)' =
              IF KeyOf[d] = k THEN [Configured(d) EXCEPT ![p] = v] ELSE Configured(d)
        BY <2>1, <2>2, <3>1, ChangedConfiguration
      <3> QED  BY <3>1, <3>2
    <2> QED  BY <2>2, <2>3, <2>4
  <1>13. CASE Save
    <2>1. edit # NoEdit /\ edit' # NoEdit  BY <1>13 DEF Save, ToApply
    <2>2. edit'.key = edit.key /\ edit'.parameter = edit.parameter /\ edit'.value = edit.value
      BY <1>13 DEF Save, ToApply
    <2> QED  BY <1>13, <2>1, <2>2 DEF Save, Configured
  <1>14. CASE ApplyConfiguration
    <2>1. edit # NoEdit /\ edit' = NoEdit /\ store' = store /\ listed' = listed
      BY <1>14 DEF ApplyConfiguration
    <2>2. \A d \in listed : conf'[d] = Configured(d)
      BY <1>14, <2>1 DEF ApplyConfiguration, TypeOK
    <2> QED  BY <1>14, <2>1, <2>2 DEF ApplyConfiguration, Configured
  <1>15. CASE UNCHANGED vars  BY <1>15 DEF vars, Configured
  <1> QED
    BY <1>1, <1>2, <1>3, <1>4, <1>5, <1>6, <1>7, <1>8, <1>9, <1>10, <1>11, <1>12,
       <1>13, <1>14, <1>15 DEF Next

\* ControllersFollowStore holds of every behaviour with an API 5 host: such a
\* host's calls wait for the status that clears the pages, so that no change can
\* be made between the reading of a configuration and its registration.
THEOREM ControllersFollowStoreHolds == Api = 5 => (Spec => []ControllersFollowStore)
  <1> SUFFICES ASSUME Api = 5 PROVE Spec => []ControllersFollowStore  OBVIOUS
  <1>1. Init => PagesInv /\ ConfInv
    BY NoEditIsNone DEF Init, PagesInv, ConfInv
  <1>2. TypeOK /\ PagesInv /\ [Next]_vars => PagesInv'  BY PagesInvStep
  <1>3. TypeOK /\ PagesInv /\ ConfInv /\ [Next]_vars => ConfInv'  BY ConfInvStep
  <1>4. ConfInv => ControllersFollowStore
    BY DEF ConfInv, ControllersFollowStore, Configured
  <1> QED  BY <1>1, <1>2, <1>3, <1>4, TypeCorrect, PTL DEF Spec

=============================================================================
