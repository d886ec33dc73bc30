------------------------- MODULE VpnSession_proofs -------------------------
(***************************************************************************)
(* Proofs about VpnSession for all values of its constants.                *)
(*                                                                         *)
(* IInv is inductive, in three parts: the types (lemmas Type...), the busy *)
(* flags against the handlers (lemmas Flags...), and what the snapshot     *)
(* claims against the core (lemmas Claims...).  HeldInv adds what a start  *)
(* owns at each of its awaits (lemmas Held...).                            *)
(***************************************************************************)
EXTENDS VpnSession, TLAPS

\* What the wants the UI builds, and the wants the extension takes, look like.
LEMMA WantTypes ==
    /\ \A p \in Profiles : ConnectWant(p) \in Want
    /\ DisconnectWant \in Want
    /\ \A w \in Want : w.command = "connect" => w.profileId \in Profiles
  BY ConstantsAssumption DEF Want, ConnectWant, DisconnectWant

\* A free handler is one.
LEMMA FreeHandler == Free \in HandlerRec
  BY ConstantsAssumption DEF Free, HandlerRec, HandlerPc, StartPcs, DestroyPcs, Instances

-----------------------------------------------------------------------------
(* Types *)

USE DEF storeVars, uiVars, sysVars, fieldVars, abilityVars, boundVars, histVars, vars

\* The types, with what the bound on faults and the UI add to them.
TypeInv == TypeOK /\ InstancesCounted /\ RequestNamesProfile

\* UiConnect keeps the types.
LEMMA TypeUiConnect ==
    ASSUME TypeInv, NEW p \in Profiles, UiConnect(p)
    PROVE  TypeInv'
<1>1. wants' \in Seq(Want)
  <2>1. wants \in Seq(Want) BY DEF TypeInv, TypeOK
  <2>2. QED BY <2>1, WantTypes DEF UiConnect, IssueWant, Fault, NoFault, Update
<1>2. snap' \in Snapshot
  BY DEF TypeInv, TypeOK, FlagsOK, FieldsOK, UiConnect, IssueWant, Update, Snapshot,
      RuntimeState, CoreState
<1>3. ui' \in UiState /\ shown' \in RuntimeState
  BY <1>2 DEF TypeInv, TypeOK, UiConnect, IssueWant, Fault, NoFault, Update, UiState,
      Snapshot
<1>4. FlagsOK'
  BY DEF TypeInv, TypeOK, FlagsOK, UiConnect, IssueWant, Fault, NoFault
<1>5. InstancesCounted' /\ RequestNamesProfile'
  BY ConstantsAssumption DEF TypeInv, TypeOK, InstancesCounted, Instances,
      RequestNamesProfile, UiConnect, IssueWant, Fault, NoFault
<1>6. QED
  BY ConstantsAssumption, <1>1, <1>2, <1>3, <1>4, <1>5 DEF TypeInv, TypeOK, FieldsOK,
      UiConnect, IssueWant, Fault, NoFault

\* A debug connect keeps the types.
LEMMA TypeMvpConnect ==
    ASSUME TypeInv, NEW p \in Profiles, MvpCommand(ConnectWant(p))
    PROVE  TypeInv'
<1>1. wants' \in Seq(Want)
  <2>1. wants \in Seq(Want) BY DEF TypeInv, TypeOK
  <2>2. QED BY <2>1, WantTypes DEF MvpCommand
<1>2. FlagsOK'
  BY DEF TypeInv, TypeOK, FlagsOK, MvpCommand
<1>3. QED
  BY ConstantsAssumption, <1>1, <1>2 DEF TypeInv, TypeOK, FieldsOK, InstancesCounted,
      RequestNamesProfile, MvpCommand

\* UiDisconnect keeps the types.
LEMMA TypeUiDisconnect ==
    ASSUME TypeInv, UiDisconnect
    PROVE  TypeInv'
<1>1. wants' \in Seq(Want)
  <2>1. wants \in Seq(Want) BY DEF TypeInv, TypeOK
  <2>2. QED BY <2>1, WantTypes DEF UiDisconnect, IssueWant, Fault, NoFault, Update
<1>2. snap' \in Snapshot
  BY DEF TypeInv, TypeOK, FlagsOK, FieldsOK, UiDisconnect, IssueWant, Update, Snapshot,
      RuntimeState, CoreState
<1>3. ui' \in UiState /\ shown' \in RuntimeState
  BY <1>2 DEF TypeInv, TypeOK, UiDisconnect, IssueWant, Fault, NoFault, Update, UiState,
      Snapshot
<1>4. FlagsOK'
  BY DEF TypeInv, TypeOK, FlagsOK, UiDisconnect, IssueWant, Fault, NoFault
<1>5. InstancesCounted' /\ RequestNamesProfile'
  BY ConstantsAssumption DEF TypeInv, TypeOK, InstancesCounted, Instances,
      RequestNamesProfile, UiDisconnect, IssueWant, Fault, NoFault
<1>6. QED
  BY ConstantsAssumption, <1>1, <1>2, <1>3, <1>4, <1>5 DEF TypeInv, TypeOK, FieldsOK,
      UiDisconnect, IssueWant, Fault, NoFault

\* UiAck keeps the types.
LEMMA TypeUiAck ==
    ASSUME TypeInv, UiAck
    PROVE  TypeInv'
<1>1. ui' \in UiState /\ shown' \in RuntimeState
  BY DEF TypeInv, TypeOK, UiAck, UiReturn, UiState, Snapshot
<1>2. FlagsOK'
  BY DEF TypeInv, TypeOK, FlagsOK, UiAck, UiReturn
<1>3. QED
  BY ConstantsAssumption, <1>1, <1>2 DEF TypeInv, TypeOK, FieldsOK, InstancesCounted,
      RequestNamesProfile, UiAck, UiReturn

\* UiRetry keeps the types.
LEMMA TypeUiRetry ==
    ASSUME TypeInv, UiRetry
    PROVE  TypeInv'
<1>1. wants' \in Seq(Want)
  <2>1. wants \in Seq(Want) BY DEF TypeInv, TypeOK
  <2>2. QED BY <2>1, WantTypes DEF UiRetry, IssueWant, Fault, NoFault, TypeInv,
      RequestNamesProfile
<1>2. ui' \in UiState /\ shown' \in RuntimeState
  BY DEF TypeInv, TypeOK, UiRetry, IssueWant, Fault, NoFault, UiState, Snapshot
<1>3. FlagsOK'
  BY DEF TypeInv, TypeOK, FlagsOK, UiRetry, IssueWant, Fault, NoFault
<1>4. InstancesCounted' /\ RequestNamesProfile'
  BY ConstantsAssumption DEF TypeInv, TypeOK, InstancesCounted, Instances,
      RequestNamesProfile, UiRetry, IssueWant, Fault, NoFault
<1>5. QED
  BY ConstantsAssumption, <1>1, <1>2, <1>3, <1>4 DEF TypeInv, TypeOK, FieldsOK, UiRetry,
      IssueWant, Fault, NoFault

\* UiFailPending keeps the types.
LEMMA TypeUiFailPending ==
    ASSUME TypeInv, UiFailPending
    PROVE  TypeInv'
<1>1. snap' \in Snapshot
  BY DEF TypeInv, TypeOK, FlagsOK, FieldsOK, UiFailPending, Update, UpdateDown,
      Snapshot, RuntimeState, CoreState
<1>2. ui' \in UiState /\ shown' \in RuntimeState
  BY <1>1 DEF TypeInv, TypeOK, UiFailPending, RequestStop, Fault, NoFault, Update,
      UpdateDown, UiState, Snapshot
<1>3. InstancesCounted'
  BY ConstantsAssumption DEF TypeInv, TypeOK, InstancesCounted, Instances,
      UiFailPending, RequestStop, Fault, NoFault
<1>4. FlagsOK'
  BY DEF TypeInv, TypeOK, FlagsOK, UiFailPending, RequestStop, Fault, NoFault
<1>5. QED
  BY ConstantsAssumption, <1>1, <1>2, <1>3, <1>4 DEF TypeInv, TypeOK, FieldsOK,
      RequestNamesProfile, UiFailPending, RequestStop, Fault, NoFault, Update,
      UpdateDown

\* UiRejectedSettled keeps the types.
LEMMA TypeUiRejectedSettled ==
    ASSUME TypeInv, UiRejectedSettled
    PROVE  TypeInv'
<1>1. ui' \in UiState /\ shown' \in RuntimeState
  BY DEF TypeInv, TypeOK, UiRejectedSettled, UiReturn, UiState, Snapshot
<1>2. FlagsOK'
  BY DEF TypeInv, TypeOK, FlagsOK, UiRejectedSettled, UiReturn
<1>3. QED
  BY ConstantsAssumption, <1>1, <1>2 DEF TypeInv, TypeOK, FieldsOK, InstancesCounted,
      RequestNamesProfile, UiRejectedSettled, UiReturn

\* UiFailed keeps the types.
LEMMA TypeUiFailed ==
    ASSUME TypeInv, UiFailed
    PROVE  TypeInv'
<1>1. ui' \in UiState /\ shown' \in RuntimeState
  BY DEF TypeInv, TypeOK, UiFailed, UiReturn, UiState, Snapshot
<1>2. FlagsOK'
  BY DEF TypeInv, TypeOK, FlagsOK, UiFailed, UiReturn
<1>3. QED
  BY ConstantsAssumption, <1>1, <1>2 DEF TypeInv, TypeOK, FieldsOK, InstancesCounted,
      RequestNamesProfile, UiFailed, UiReturn

\* UiBackground keeps the types.
LEMMA TypeUiBackground ==
    ASSUME TypeInv, UiBackground
    PROVE  TypeInv'
<1>1. ui' \in UiState /\ shown' \in RuntimeState
  BY DEF TypeInv, TypeOK, UiBackground, UiReturn, UiState, Snapshot
<1>2. FlagsOK'
  BY DEF TypeInv, TypeOK, FlagsOK, UiBackground, UiReturn
<1>3. QED
  BY ConstantsAssumption, <1>1, <1>2 DEF TypeInv, TypeOK, FieldsOK, InstancesCounted,
      RequestNamesProfile, UiBackground, UiReturn

\* UiFinalize keeps the types.
LEMMA TypeUiFinalize ==
    ASSUME TypeInv, UiFinalize
    PROVE  TypeInv'
<1>1. snap' \in Snapshot
  BY DEF TypeInv, TypeOK, FlagsOK, FieldsOK, UiFinalize, UiReturn, Update, UpdateDown,
      Snapshot, RuntimeState, CoreState
<1>2. ui' \in UiState /\ shown' \in RuntimeState
  BY <1>1 DEF TypeInv, TypeOK, UiFinalize, UiReturn, Update, UpdateDown, UiState,
      Snapshot
<1>3. FlagsOK'
  BY DEF TypeInv, TypeOK, FlagsOK, UiFinalize, UiReturn
<1>4. QED
  BY ConstantsAssumption, <1>1, <1>2, <1>3 DEF TypeInv, TypeOK, FieldsOK,
      InstancesCounted, RequestNamesProfile, UiFinalize, UiReturn, Update, UpdateDown

\* UiDisconnectThrows keeps the types.
LEMMA TypeUiDisconnectThrows ==
    ASSUME TypeInv, UiDisconnectThrows
    PROVE  TypeInv'
<1>1. ui' \in UiState /\ shown' \in RuntimeState
  BY DEF TypeInv, TypeOK, UiDisconnectThrows, UiReturn, UiState, Snapshot
<1>2. FlagsOK'
  BY DEF TypeInv, TypeOK, FlagsOK, UiDisconnectThrows, UiReturn
<1>3. QED
  BY ConstantsAssumption, <1>1, <1>2 DEF TypeInv, TypeOK, FieldsOK, InstancesCounted,
      RequestNamesProfile, UiDisconnectThrows, UiReturn

\* UiRestored keeps the types.
LEMMA TypeUiRestored ==
    ASSUME TypeInv, UiRestored
    PROVE  TypeInv'
<1>1. snap' \in Snapshot
  BY DEF TypeInv, TypeOK, FlagsOK, FieldsOK, UiRestored, UiReturn, Update, Snapshot,
      RuntimeState, CoreState
<1>2. ui' \in UiState /\ shown' \in RuntimeState
  BY <1>1 DEF TypeInv, TypeOK, UiRestored, UiReturn, Update, UiState, Snapshot
<1>3. FlagsOK'
  BY DEF TypeInv, TypeOK, FlagsOK, UiRestored, UiReturn
<1>4. QED
  BY ConstantsAssumption, <1>1, <1>2, <1>3 DEF TypeInv, TypeOK, FieldsOK,
      InstancesCounted, RequestNamesProfile, UiRestored, UiReturn, Update

\* UiRefresh keeps the types.
LEMMA TypeUiRefresh ==
    ASSUME TypeInv, UiRefresh
    PROVE  TypeInv'
<1>1. ui' \in UiState /\ shown' \in RuntimeState
  BY DEF TypeInv, TypeOK, UiRefresh, UiState, Snapshot
<1>2. FlagsOK'
  BY DEF TypeInv, TypeOK, FlagsOK, UiRefresh
<1>3. QED
  BY ConstantsAssumption, <1>1, <1>2 DEF TypeInv, TypeOK, FieldsOK, InstancesCounted,
      RequestNamesProfile, UiRefresh

\* UiKilled keeps the types.
LEMMA TypeUiKilled ==
    ASSUME TypeInv, UiKilled
    PROVE  TypeInv'
<1>1. ui' \in UiState /\ shown' \in RuntimeState
  BY DEF TypeInv, TypeOK, UiKilled, Fault, UiState, Snapshot
<1>2. FlagsOK'
  BY DEF TypeInv, TypeOK, FlagsOK, UiKilled, Fault
<1>3. InstancesCounted' /\ RequestNamesProfile'
  BY ConstantsAssumption DEF TypeInv, TypeOK, InstancesCounted, Instances,
      RequestNamesProfile, UiKilled, Fault
<1>4. QED
  BY ConstantsAssumption, <1>1, <1>2, <1>3 DEF TypeInv, TypeOK, FieldsOK, UiKilled,
      Fault

\* A debug disconnect keeps the types.
LEMMA TypeMvpDisconnect ==
    ASSUME TypeInv, MvpCommand(DisconnectWant)
    PROVE  TypeInv'
<1>1. wants' \in Seq(Want)
  <2>1. wants \in Seq(Want) BY DEF TypeInv, TypeOK
  <2>2. QED BY <2>1, WantTypes DEF MvpCommand
<1>2. FlagsOK'
  BY DEF TypeInv, TypeOK, FlagsOK, MvpCommand
<1>3. QED
  BY ConstantsAssumption, <1>1, <1>2 DEF TypeInv, TypeOK, FieldsOK, InstancesCounted,
      RequestNamesProfile, MvpCommand

\* MvpResetRuntime keeps the types.
LEMMA TypeMvpResetRuntime ==
    ASSUME TypeInv, MvpResetRuntime
    PROVE  TypeInv'
<1>1. snap' \in Snapshot
  BY DEF TypeInv, TypeOK, FlagsOK, FieldsOK, MvpResetRuntime, Update, UpdateDown,
      Snapshot, RuntimeState, CoreState
<1>2. FlagsOK'
  BY DEF TypeInv, TypeOK, FlagsOK, MvpResetRuntime
<1>3. QED
  BY ConstantsAssumption, <1>1, <1>2 DEF TypeInv, TypeOK, FieldsOK, InstancesCounted,
      RequestNamesProfile, MvpResetRuntime, Update, UpdateDown

\* OnCreate keeps the types.
LEMMA TypeOnCreate ==
    ASSUME TypeInv, OnCreate
    PROVE  TypeInv'
<1>1. snap' \in Snapshot
  BY DEF TypeInv, TypeOK, FlagsOK, FieldsOK, OnCreate, Reconciled, Update, UpdateDown,
      Snapshot, RuntimeState, CoreState
<1>2. FlagsOK'
  BY DEF TypeInv, TypeOK, FlagsOK, OnCreate
<1>3. QED
  BY ConstantsAssumption, <1>1, <1>2 DEF TypeInv, TypeOK, FieldsOK, InstancesCounted,
      RequestNamesProfile, OnCreate, Reconciled, Update, UpdateDown

\* ExtensionStopped keeps the types.
LEMMA TypeExtensionStopped ==
    ASSUME TypeInv, ExtensionStopped
    PROVE  TypeInv'
<1>1. handler' \in [Slots -> HandlerRec]
  BY FreeHandler DEF TypeInv, TypeOK, ExtensionStopped, ProcessExit, NoFault,
      HandlerRec, HandlerPc, StartPcs, DestroyPcs
<1>2. FieldsOK'
  BY DEF TypeInv, TypeOK, FieldsOK, ExtensionStopped, ProcessExit, NoFault, HandlerRec,
      Blank
<1>3. inst' \in Instances /\ InstancesCounted'
  BY ConstantsAssumption DEF TypeInv, TypeOK, InstancesCounted, Instances,
      ExtensionStopped, ProcessExit, NoFault
<1>4. FlagsOK'
  BY DEF TypeInv, TypeOK, FlagsOK, ExtensionStopped, ProcessExit, NoFault
<1>5. QED
  BY ConstantsAssumption, <1>1, <1>2, <1>3, <1>4 DEF TypeInv, TypeOK,
      RequestNamesProfile, ExtensionStopped, ProcessExit, NoFault

\* VpnCrash keeps the types.
LEMMA TypeVpnCrash ==
    ASSUME TypeInv, VpnCrash
    PROVE  TypeInv'
<1>1. handler' \in [Slots -> HandlerRec]
  BY FreeHandler DEF TypeInv, TypeOK, VpnCrash, ProcessExit, Fault, HandlerRec,
      HandlerPc, StartPcs, DestroyPcs
<1>2. FieldsOK'
  BY DEF TypeInv, TypeOK, FieldsOK, VpnCrash, ProcessExit, Fault, HandlerRec, Blank
<1>3. inst' \in Instances /\ InstancesCounted'
  BY ConstantsAssumption DEF TypeInv, TypeOK, InstancesCounted, Instances, VpnCrash,
      ProcessExit, Fault
<1>4. FlagsOK'
  BY DEF TypeInv, TypeOK, FlagsOK, VpnCrash, ProcessExit, Fault
<1>5. QED
  BY ConstantsAssumption, <1>1, <1>2, <1>3, <1>4 DEF TypeInv, TypeOK,
      RequestNamesProfile, VpnCrash, ProcessExit, Fault

\* OnDestroy keeps the types.
LEMMA TypeOnDestroy ==
    ASSUME TypeInv, OnDestroy
    PROVE  TypeInv'
<1>1. inst' \in Instances /\ InstancesCounted'
  BY ConstantsAssumption DEF TypeInv, TypeOK, InstancesCounted, Instances, OnDestroy,
      Fault
<1>2. FlagsOK'
  BY DEF TypeInv, TypeOK, FlagsOK, OnDestroy, Fault
<1>3. QED
  BY ConstantsAssumption, <1>1, <1>2 DEF TypeInv, TypeOK, FieldsOK, RequestNamesProfile,
      OnDestroy, Fault

\* TrafficSampleFails keeps the types.
LEMMA TypeTrafficSampleFails ==
    ASSUME TypeInv, NEW i \in Instances, TrafficSampleFails(i)
    PROVE  TypeInv'
<1>1. FieldsOK'
  BY DEF TypeInv, TypeOK, FieldsOK, TrafficSampleFails
<1>2. FlagsOK'
  BY DEF TypeInv, TypeOK, FlagsOK, TrafficSampleFails
<1>3. QED
  BY ConstantsAssumption, <1>1, <1>2 DEF TypeInv, TypeOK, InstancesCounted,
      RequestNamesProfile, TrafficSampleFails

\* StartRejected keeps the types.
LEMMA TypeStartRejected ==
    ASSUME TypeInv, NEW s \in Slots, StartRejected(s)
    PROVE  TypeInv'
<1>1. wants' \in Seq(Want) /\ Head(wants) \in Want
  <2>1. wants \in Seq(Want) /\ wants # <<>> BY DEF TypeInv, TypeOK, StartRejected, TakeWant
  <2>2. QED BY <2>1 DEF StartRejected, TakeWant
<1>2. snap' \in Snapshot
  BY DEF TypeInv, TypeOK, FlagsOK, FieldsOK, StartRejected, TakeWant, Update, Snapshot,
      RuntimeState, CoreState
<1>3. inst' \in Instances /\ InstancesCounted'
  BY ConstantsAssumption DEF TypeInv, TypeOK, InstancesCounted, Instances,
      StartRejected, TakeWant, Fault, NoFault, Update
<1>4. FlagsOK'
  BY DEF TypeInv, TypeOK, FlagsOK, StartRejected, TakeWant, Fault, NoFault
<1>5. QED
  BY ConstantsAssumption, <1>1, <1>2, <1>3, <1>4 DEF TypeInv, TypeOK, FieldsOK,
      RequestNamesProfile, StartRejected, TakeWant, Fault, NoFault, Update

\* StartBegin keeps the types.
LEMMA TypeStartBegin ==
    ASSUME TypeInv, NEW s \in Slots, StartBegin(s)
    PROVE  TypeInv'
<1>1. wants' \in Seq(Want) /\ Head(wants) \in Want
  <2>1. wants \in Seq(Want) /\ wants # <<>> BY DEF TypeInv, TypeOK, StartBegin, TakeWant
  <2>2. QED BY <2>1 DEF StartBegin, TakeWant
<1>2. Head(wants).profileId \in Profiles
  BY <1>1, WantTypes DEF StartBegin, TakeWant
<1>3. snap' \in Snapshot
  BY <1>2 DEF TypeInv, TypeOK, FlagsOK, FieldsOK, StartBegin, TakeWant, RecordStart,
      StartAllowed, Update, UpdateDown, Snapshot, RuntimeState, CoreState
<1>4. handler' \in [Slots -> HandlerRec]
  BY <1>2 DEF TypeInv, TypeOK, StartBegin, TakeWant, Enter, HandlerRec, HandlerPc,
      StartPcs, DestroyPcs
<1>5. FieldsOK'
  BY DEF TypeInv, TypeOK, FieldsOK, StartBegin, TakeWant, RecordStart, StartAllowed,
      BeginDestroy, SkipDestroy, Enter, HandlerRec
<1>6. FlagsOK'
  BY DEF TypeInv, TypeOK, FlagsOK, StartBegin, TakeWant, RecordStart, StartAllowed,
      BeginDestroy, SkipDestroy, Enter
<1>7. QED
  BY ConstantsAssumption, <1>1, <1>2, <1>3, <1>4, <1>5, <1>6 DEF TypeInv, TypeOK,
      InstancesCounted, RequestNamesProfile, StartBegin, TakeWant, RecordStart,
      StartAllowed, BeginDestroy, SkipDestroy, Enter, Update, UpdateDown

\* StopBegin keeps the types.
LEMMA TypeStopBegin ==
    ASSUME TypeInv, NEW s \in Slots, StopBegin(s)
    PROVE  TypeInv'
<1>1. wants' \in Seq(Want) /\ Head(wants) \in Want
  <2>1. wants \in Seq(Want) /\ wants # <<>> BY DEF TypeInv, TypeOK, StopBegin, TakeWant
  <2>2. QED BY <2>1 DEF StopBegin, TakeWant
<1>2. snap' \in Snapshot
  BY DEF TypeInv, TypeOK, FlagsOK, FieldsOK, StopBegin, TakeWant, StopFinish, Update,
      UpdateDown, Snapshot, RuntimeState, CoreState
<1>3. handler' \in [Slots -> HandlerRec]
  BY DEF TypeInv, TypeOK, StopBegin, TakeWant, StopFinish, RequestStop, Enter,
      TeardownOverlaps, Fault, NoFault, HandlerRec, HandlerPc, StartPcs, DestroyPcs
<1>4. FieldsOK'
  BY DEF TypeInv, TypeOK, FieldsOK, StopBegin, TakeWant, BeginDestroy, StopFinish,
      RequestStop, Enter, TeardownOverlaps, Fault, NoFault, HandlerRec
<1>5. inst' \in Instances /\ InstancesCounted'
  BY ConstantsAssumption DEF TypeInv, TypeOK, InstancesCounted, Instances, StopBegin,
      TakeWant, BeginDestroy, StopFinish, RequestStop, Enter, TeardownOverlaps, Fault,
      NoFault, Update, UpdateDown
<1>6. FlagsOK'
  BY DEF TypeInv, TypeOK, FlagsOK, StopBegin, TakeWant, BeginDestroy, StopFinish,
      RequestStop, Enter, TeardownOverlaps, Fault, NoFault
<1>7. QED
  BY ConstantsAssumption, <1>1, <1>2, <1>3, <1>4, <1>5, <1>6 DEF TypeInv, TypeOK,
      RequestNamesProfile, StopBegin, TakeWant, BeginDestroy, StopFinish, RequestStop,
      Enter, TeardownOverlaps, Fault, NoFault, Update, UpdateDown

\* StartOldDestroyed keeps the types.
LEMMA TypeStartOldDestroyed ==
    ASSUME TypeInv, NEW s \in Slots, StartOldDestroyed(s)
    PROVE  TypeInv'
<1>1. handler' \in [Slots -> HandlerRec]
  BY DEF TypeInv, TypeOK, StartOldDestroyed, StartStep, Goto, HandlerRec, HandlerPc,
      StartPcs, DestroyPcs
<1>2. FieldsOK'
  BY DEF TypeInv, TypeOK, FieldsOK, StartOldDestroyed, StartStep, Goto, EndDestroy,
      HandlerRec
<1>3. FlagsOK'
  BY DEF TypeInv, TypeOK, FlagsOK, StartOldDestroyed, StartStep, Goto, EndDestroy
<1>4. QED
  BY ConstantsAssumption, <1>1, <1>2, <1>3 DEF TypeInv, TypeOK, InstancesCounted,
      RequestNamesProfile, StartOldDestroyed, StartStep, Goto, EndDestroy

\* StartGeoReady keeps the types.
LEMMA TypeStartGeoReady ==
    ASSUME TypeInv, NEW s \in Slots, StartGeoReady(s)
    PROVE  TypeInv'
<1>1. handler' \in [Slots -> HandlerRec]
  BY DEF TypeInv, TypeOK, StartGeoReady, StartStep, Goto, HandlerRec, HandlerPc,
      StartPcs, DestroyPcs
<1>2. FieldsOK'
  BY DEF TypeInv, TypeOK, FieldsOK, StartGeoReady, StartStep, Goto, HandlerRec
<1>3. FlagsOK'
  BY DEF TypeInv, TypeOK, FlagsOK, StartGeoReady, StartStep, Goto
<1>4. QED
  BY ConstantsAssumption, <1>1, <1>2, <1>3 DEF TypeInv, TypeOK, InstancesCounted,
      RequestNamesProfile, StartGeoReady, StartStep, Goto

\* StartCreated keeps the types.
LEMMA TypeStartCreated ==
    ASSUME TypeInv, NEW s \in Slots, StartCreated(s)
    PROVE  TypeInv'
<1>1. snap' \in Snapshot
  BY DEF TypeInv, TypeOK, FlagsOK, FieldsOK, StartCreated, StartStep, Snapshot,
      RuntimeState, CoreState
<1>2. handler' \in [Slots -> HandlerRec]
  BY DEF TypeInv, TypeOK, StartCreated, StartStep, Goto, HandlerRec, HandlerPc,
      StartPcs, DestroyPcs
<1>3. FieldsOK'
  BY DEF TypeInv, TypeOK, FieldsOK, StartCreated, StartStep, Goto, HandlerRec
<1>4. FlagsOK'
  BY DEF TypeInv, TypeOK, FlagsOK, StartCreated, StartStep, Goto
<1>5. QED
  BY ConstantsAssumption, <1>1, <1>2, <1>3, <1>4 DEF TypeInv, TypeOK, InstancesCounted,
      RequestNamesProfile, StartCreated, StartStep, Goto

\* StartLoaded keeps the types.
LEMMA TypeStartLoaded ==
    ASSUME TypeInv, NEW s \in Slots, StartLoaded(s)
    PROVE  TypeInv'
<1>1. snap' \in Snapshot
  BY DEF TypeInv, TypeOK, FlagsOK, FieldsOK, StartLoaded, StartStep, Snapshot,
      RuntimeState, CoreState
<1>2. handler' \in [Slots -> HandlerRec]
  BY DEF TypeInv, TypeOK, StartLoaded, StartStep, Goto, HandlerRec, HandlerPc, StartPcs,
      DestroyPcs
<1>3. FlagsOK'
  BY DEF TypeInv, TypeOK, FlagsOK, StartLoaded, StartStep, Goto
<1>4. QED
  BY ConstantsAssumption, <1>1, <1>2, <1>3 DEF TypeInv, TypeOK, FieldsOK,
      InstancesCounted, RequestNamesProfile, StartLoaded, StartStep, Goto

\* StartCore keeps the types.
LEMMA TypeStartCore ==
    ASSUME TypeInv, NEW s \in Slots, StartCore(s)
    PROVE  TypeInv'
<1>1. handler' \in [Slots -> HandlerRec]
  BY DEF TypeInv, TypeOK, StartCore, StartStep, Goto, HandlerRec, HandlerPc, StartPcs,
      DestroyPcs
<1>2. coreProfile' \in Profiles \cup {NoProfile}
  BY DEF TypeInv, TypeOK, HandlerRec, StartCore, StartStep, Goto
<1>3. FlagsOK'
  BY DEF TypeInv, TypeOK, FlagsOK, StartCore, StartStep, Goto
<1>4. QED
  BY ConstantsAssumption, <1>1, <1>2, <1>3 DEF TypeInv, TypeOK, FieldsOK,
      InstancesCounted, RequestNamesProfile, StartCore, StartStep, Goto

\* StartConnected keeps the types.
LEMMA TypeStartConnected ==
    ASSUME TypeInv, NEW s \in Slots, StartConnected(s)
    PROVE  TypeInv'
<1>1. snap' \in Snapshot
  BY DEF TypeInv, TypeOK, FlagsOK, FieldsOK, StartConnected, StartStep, Snapshot,
      RuntimeState, CoreState, HandlerRec
<1>2. handler' \in [Slots -> HandlerRec]
  BY DEF TypeInv, TypeOK, StartConnected, StartStep, Goto, HandlerRec, HandlerPc,
      StartPcs, DestroyPcs
<1>3. FieldsOK'
  BY DEF TypeInv, TypeOK, FieldsOK, StartConnected, StartStep, Goto, HandlerRec
<1>4. FlagsOK'
  BY DEF TypeInv, TypeOK, FlagsOK, StartConnected, StartStep, Goto
<1>5. QED
  BY ConstantsAssumption, <1>1, <1>2, <1>3, <1>4 DEF TypeInv, TypeOK, InstancesCounted,
      RequestNamesProfile, StartConnected, StartStep, Goto

\* StartDone keeps the types.
LEMMA TypeStartDone ==
    ASSUME TypeInv, NEW s \in Slots, StartDone(s)
    PROVE  TypeInv'
<1>1. handler' \in [Slots -> HandlerRec]
  BY FreeHandler DEF TypeInv, TypeOK, StartDone, StartStep, Done, HandlerRec, HandlerPc,
      StartPcs, DestroyPcs
<1>2. FieldsOK'
  BY DEF TypeInv, TypeOK, FieldsOK, StartDone, StartStep, Done, HandlerRec
<1>3. FlagsOK'
  BY DEF TypeInv, TypeOK, FlagsOK, StartDone, StartStep, Done
<1>4. QED
  BY ConstantsAssumption, <1>1, <1>2, <1>3 DEF TypeInv, TypeOK, InstancesCounted,
      RequestNamesProfile, StartDone, StartStep, Done

\* StartFailed keeps the types.
LEMMA TypeStartFailed ==
    ASSUME TypeInv, NEW s \in Slots, StartFailed(s)
    PROVE  TypeInv'
<1>1. snap' \in Snapshot
  BY DEF TypeInv, TypeOK, FlagsOK, FieldsOK, StartFailed, StartStep, Update, Snapshot,
      RuntimeState, CoreState
<1>2. handler' \in [Slots -> HandlerRec]
  BY FreeHandler DEF TypeInv, TypeOK, StartFailed, StartStep, Goto, Done, HandlerRec,
      HandlerPc, StartPcs, DestroyPcs
<1>3. FieldsOK'
  BY DEF TypeInv, TypeOK, FieldsOK, StartFailed, StartStep, Goto, Done, BeginDestroy,
      SkipDestroy, HandlerRec
<1>4. FlagsOK'
  BY DEF TypeInv, TypeOK, FlagsOK, StartFailed, StartStep, Goto, Done, BeginDestroy,
      SkipDestroy
<1>5. QED
  BY ConstantsAssumption, <1>1, <1>2, <1>3, <1>4 DEF TypeInv, TypeOK, InstancesCounted,
      RequestNamesProfile, StartFailed, StartStep, Goto, Done, BeginDestroy,
      SkipDestroy, Update

\* StartFailDestroyed keeps the types.
LEMMA TypeStartFailDestroyed ==
    ASSUME TypeInv, NEW s \in Slots, StartFailDestroyed(s)
    PROVE  TypeInv'
<1>1. handler' \in [Slots -> HandlerRec]
  BY FreeHandler DEF TypeInv, TypeOK, StartFailDestroyed, StartStep, Done, HandlerRec,
      HandlerPc, StartPcs, DestroyPcs
<1>2. FieldsOK'
  BY DEF TypeInv, TypeOK, FieldsOK, StartFailDestroyed, StartStep, Done, EndDestroy,
      HandlerRec
<1>3. FlagsOK'
  BY DEF TypeInv, TypeOK, FlagsOK, StartFailDestroyed, StartStep, Done, EndDestroy
<1>4. QED
  BY ConstantsAssumption, <1>1, <1>2, <1>3 DEF TypeInv, TypeOK, InstancesCounted,
      RequestNamesProfile, StartFailDestroyed, StartStep, Done, EndDestroy

\* StopDestroyed keeps the types.
LEMMA TypeStopDestroyed ==
    ASSUME TypeInv, NEW s \in Slots, StopDestroyed(s)
    PROVE  TypeInv'
<1>1. snap' \in Snapshot
  BY DEF TypeInv, TypeOK, FlagsOK, FieldsOK, StopDestroyed, StopFinish, Update,
      UpdateDown, Snapshot, RuntimeState, CoreState
<1>2. handler' \in [Slots -> HandlerRec]
  BY DEF TypeInv, TypeOK, StopDestroyed, StopFinish, RequestStop, Goto, Fault, NoFault,
      HandlerRec, HandlerPc, StartPcs, DestroyPcs
<1>3. FieldsOK'
  BY DEF TypeInv, TypeOK, FieldsOK, StopDestroyed, EndDestroy, StopFinish, RequestStop,
      Goto, Fault, NoFault, HandlerRec
<1>4. inst' \in Instances /\ InstancesCounted'
  BY ConstantsAssumption DEF TypeInv, TypeOK, InstancesCounted, Instances,
      StopDestroyed, EndDestroy, StopFinish, RequestStop, Goto, Fault, NoFault, Update,
      UpdateDown
<1>5. FlagsOK'
  BY DEF TypeInv, TypeOK, FlagsOK, StopDestroyed, EndDestroy, StopFinish, RequestStop,
      Goto, Fault, NoFault
<1>6. QED
  BY ConstantsAssumption, <1>1, <1>2, <1>3, <1>4, <1>5 DEF TypeInv, TypeOK,
      RequestNamesProfile, StopDestroyed, EndDestroy, StopFinish, RequestStop, Goto,
      Fault, NoFault, Update, UpdateDown

\* StopDone keeps the types.
LEMMA TypeStopDone ==
    ASSUME TypeInv, NEW s \in Slots, StopDone(s)
    PROVE  TypeInv'
<1>1. handler' \in [Slots -> HandlerRec]
  BY FreeHandler DEF TypeInv, TypeOK, StopDone, Done, HandlerRec, HandlerPc, StartPcs,
      DestroyPcs
<1>2. FlagsOK'
  BY DEF TypeInv, TypeOK, FlagsOK, StopDone, Done
<1>3. QED
  BY ConstantsAssumption, <1>1, <1>2 DEF TypeInv, TypeOK, FieldsOK, InstancesCounted,
      RequestNamesProfile, StopDone, Done

\* OnDisconnected keeps the types.
LEMMA TypeOnDisconnected ==
    ASSUME TypeInv, NEW s \in Slots, OnDisconnected(s)
    PROVE  TypeInv'
<1>1. snap' \in Snapshot
  BY DEF TypeInv, TypeOK, FlagsOK, FieldsOK, OnDisconnected, Update, UpdateDown,
      Snapshot, RuntimeState, CoreState
<1>2. handler' \in [Slots -> HandlerRec]
  BY FreeHandler DEF TypeInv, TypeOK, OnDisconnected, Done, HandlerRec, HandlerPc,
      StartPcs, DestroyPcs
<1>3. FieldsOK'
  BY DEF TypeInv, TypeOK, FieldsOK, OnDisconnected, EndDestroy, Done, HandlerRec
<1>4. FlagsOK'
  BY DEF TypeInv, TypeOK, FlagsOK, OnDisconnected, EndDestroy, Done
<1>5. QED
  BY ConstantsAssumption, <1>1, <1>2, <1>3, <1>4 DEF TypeInv, TypeOK, InstancesCounted,
      RequestNamesProfile, OnDisconnected, EndDestroy, Done, Update, UpdateDown

\* OnDisconnect keeps the types.
LEMMA TypeOnDisconnect ==
    ASSUME TypeInv, NEW s \in Slots, OnDisconnect(s)
    PROVE  TypeInv'
<1>1. snap' \in Snapshot
  BY DEF TypeInv, TypeOK, FlagsOK, FieldsOK, OnDisconnect, Update, UpdateDown, Snapshot,
      RuntimeState, CoreState
<1>2. handler' \in [Slots -> HandlerRec]
  BY DEF TypeInv, TypeOK, OnDisconnect, Enter, TeardownOverlaps, Fault, HandlerRec,
      HandlerPc, StartPcs, DestroyPcs
<1>3. FieldsOK'
  BY DEF TypeInv, TypeOK, FieldsOK, OnDisconnect, BeginDestroy, SkipDestroy, Enter,
      TeardownOverlaps, Fault, HandlerRec
<1>4. inst' \in Instances /\ InstancesCounted'
  BY ConstantsAssumption DEF TypeInv, TypeOK, InstancesCounted, Instances, OnDisconnect,
      BeginDestroy, SkipDestroy, Enter, TeardownOverlaps, Fault, Update, UpdateDown
<1>5. FlagsOK'
  BY DEF TypeInv, TypeOK, FlagsOK, OnDisconnect, BeginDestroy, SkipDestroy, Enter,
      TeardownOverlaps, Fault
<1>6. QED
  BY ConstantsAssumption, <1>1, <1>2, <1>3, <1>4, <1>5 DEF TypeInv, TypeOK,
      RequestNamesProfile, OnDisconnect, BeginDestroy, SkipDestroy, Enter,
      TeardownOverlaps, Fault, Update, UpdateDown

\* A stuttering step keeps the types.
LEMMA TypeStutter == ASSUME TypeInv, UNCHANGED vars PROVE TypeInv'
  BY DEF TypeInv, TypeOK, FlagsOK, FieldsOK, InstancesCounted, RequestNamesProfile

\* The steps outside the extension: UI, debug wants.
OutsideStep ==
    \/ \E p \in Profiles : UiConnect(p) \/ MvpCommand(ConnectWant(p))
    \/ UiDisconnect \/ UiStep \/ UiRefresh \/ UiKilled \/ UiRestored
    \/ MvpCommand(DisconnectWant) \/ MvpResetRuntime

\* The types are kept by every step.
LEMMA NextTypes == TypeInv /\ [Next]_vars => TypeInv'
<1> SUFFICES ASSUME TypeInv, [Next]_vars PROVE TypeInv'
  OBVIOUS
<1>1. CASE UiStep
  BY <1>1, TypeUiAck, TypeUiRetry, TypeUiFailPending, TypeUiRejectedSettled, TypeUiFailed,
     TypeUiBackground, TypeUiFinalize, TypeUiDisconnectThrows DEF UiStep
<1>2. CASE OutsideStep
  BY <1>1, <1>2, TypeUiConnect, TypeMvpConnect, TypeUiDisconnect, TypeUiRefresh, TypeUiKilled,
     TypeUiRestored, TypeMvpDisconnect, TypeMvpResetRuntime DEF OutsideStep
<1>3. CASE OnCreate \/ ExtensionStopped \/ VpnCrash \/ OnDestroy
  BY <1>3, TypeOnCreate, TypeExtensionStopped, TypeVpnCrash, TypeOnDestroy
<1>4. ASSUME NEW i \in Instances, TrafficSampleFails(i) PROVE TypeInv'
  BY <1>4, TypeTrafficSampleFails
<1>5. ASSUME NEW s \in Slots, Deliver(s) \/ OnDisconnect(s) PROVE TypeInv'
  BY <1>5, TypeStartRejected, TypeStartBegin, TypeStopBegin, TypeOnDisconnect DEF Deliver
<1>6. ASSUME NEW s \in Slots, HandlerStep(s) PROVE TypeInv'
  BY <1>6, TypeStartOldDestroyed, TypeStartGeoReady, TypeStartCreated, TypeStartLoaded,
     TypeStartCore, TypeStartConnected, TypeStartDone, TypeStartFailed,
     TypeStartFailDestroyed, TypeStopDestroyed, TypeStopDone, TypeOnDisconnected
     DEF HandlerStep
<1>7. QED
  BY <1>2, <1>3, <1>4, <1>5, <1>6, TypeStutter DEF Next, OutsideStep

-----------------------------------------------------------------------------
(* The busy flags *)

\* F says of each instance whether one of its handlers is at one of the awaits P, and
\* at most one is.
Excl(P, F, H) ==
    /\ \A s, t \in Slots : H[s].pc \in P /\ H[t].pc \in P /\ H[s].inst = H[t].inst => s = t
    /\ \A i \in Instances : F[i] <=> \E s \in Slots : H[s].pc \in P /\ H[s].inst = i

\* Handler s moves, and the flag of its instance follows it.
Follows(s, P, F, H, F2, H2) ==
    /\ \A t \in Slots : t # s => H2[t] = H[t]
    /\ \/ /\ F2 = F /\ (H2[s].pc \in P <=> H[s].pc \in P)
          /\ H2[s].pc \in P => H2[s].inst = H[s].inst
       \/ /\ H[s].pc \notin P /\ H2[s].pc \in P /\ ~F[H2[s].inst]
          /\ F2 = [F EXCEPT ![H2[s].inst] = TRUE]
       \/ /\ H[s].pc \in P /\ H2[s].pc \notin P
          /\ F2 = [F EXCEPT ![H[s].inst] = FALSE]

\* A flag that follows every move of a handler stays exclusive.
LEMMA FollowsKeepsExcl ==
    ASSUME NEW s \in Slots, NEW P,
           NEW F \in [Instances -> BOOLEAN], NEW H \in [Slots -> HandlerRec],
           NEW F2, NEW H2 \in [Slots -> HandlerRec],
           Excl(P, F, H), Follows(s, P, F, H, F2, H2)
    PROVE  Excl(P, F2, H2)
<1>1. H[s].inst \in Instances /\ H2[s].inst \in Instances
  BY DEF HandlerRec
<1>2. CASE /\ F2 = F /\ (H2[s].pc \in P <=> H[s].pc \in P)
           /\ H2[s].pc \in P => H2[s].inst = H[s].inst
  BY <1>2 DEF Excl, Follows
<1>3. CASE /\ H[s].pc \notin P /\ H2[s].pc \in P /\ ~F[H2[s].inst]
           /\ F2 = [F EXCEPT ![H2[s].inst] = TRUE]
  BY <1>1, <1>3 DEF Excl, Follows
<1>4. CASE /\ H[s].pc \in P /\ H2[s].pc \notin P
           /\ F2 = [F EXCEPT ![H[s].inst] = FALSE]
  BY <1>1, <1>4 DEF Excl, Follows
<1>5. QED
  BY <1>2, <1>3, <1>4 DEF Follows

FlagInv == StartExclusive /\ DestroyExclusive

\* Both busy flags follow handler s.
FlagsFollow(s) ==
    /\ Follows(s, StartPcs, startInProgress, handler, startInProgress', handler')
    /\ Follows(s, DestroyPcs, destroyInProgress, handler, destroyInProgress', handler')

\* If they do, both stay exclusive.
LEMMA FlagsFollowed ==
    ASSUME TypeInv, TypeInv', FlagInv, NEW s \in Slots, FlagsFollow(s)
    PROVE  FlagInv'
<1>1. /\ handler \in [Slots -> HandlerRec] /\ handler' \in [Slots -> HandlerRec]
      /\ startInProgress \in [Instances -> BOOLEAN]
      /\ destroyInProgress \in [Instances -> BOOLEAN]
  BY DEF TypeInv, TypeOK, FieldsOK
<1>2. /\ Excl(StartPcs, startInProgress, handler)
      /\ Excl(DestroyPcs, destroyInProgress, handler)
  BY DEF FlagInv, StartExclusive, DestroyExclusive, Starting, Destroying, Excl
<1>3. Excl(StartPcs, startInProgress', handler')
  BY <1>1, <1>2, FollowsKeepsExcl DEF FlagsFollow
<1>4. Excl(DestroyPcs, destroyInProgress', handler')
  BY <1>1, <1>2, FollowsKeepsExcl DEF FlagsFollow
<1>5. QED
  BY <1>3, <1>4 DEF FlagInv, StartExclusive, DestroyExclusive, Starting, Destroying, Excl

\* The flags follow a handler that is taken up.
LEMMA FlagsDelivered ==
    ASSUME TypeInv, NEW s \in Slots, StartBegin(s) \/ StopBegin(s) \/ OnDisconnect(s)
    PROVE  FlagsFollow(s)
<1>1. /\ handler \in [Slots -> HandlerRec] /\ inst \in Instances
      /\ handler[s].pc = "free"
  BY DEF TypeInv, TypeOK, StartBegin, StopBegin, OnDisconnect, TakeWant
<1>2. CASE StartBegin(s)
  <2> DEFINE p == Head(wants).profileId
  <2>1. /\ startInProgress[inst] = FALSE
        /\ startInProgress' = [startInProgress EXCEPT ![inst] = TRUE]
    BY <1>1, <1>2 DEF TypeInv, TypeOK, FieldsOK, StartBegin, StartAllowed
  <2>2. \/ /\ Enter(s, "oldDestroy", p) /\ ~destroyInProgress[inst]
           /\ destroyInProgress' = [destroyInProgress EXCEPT ![inst] = TRUE]
        \/ Enter(s, "geo", p) /\ destroyInProgress' = destroyInProgress
    BY <1>2 DEF StartBegin, BeginDestroy, SkipDestroy, DestroyWaits
  <2> HIDE DEF p
  <2>3. Follows(s, StartPcs, startInProgress, handler, startInProgress', handler')
    <3>1. /\ \A t \in Slots : t # s => handler'[t] = handler[t]
          /\ handler'[s].pc \in StartPcs /\ handler'[s].inst = inst
      BY <1>1, <2>2 DEF Enter, StartPcs
    <3>2. handler[s].pc \notin StartPcs
      BY <1>1 DEF StartPcs
    <3>3. QED
      BY <2>1, <3>1, <3>2 DEF Follows
  <2>4. Follows(s, DestroyPcs, destroyInProgress, handler, destroyInProgress', handler')
    BY <1>1, <2>2 DEF Follows, Enter, DestroyPcs
  <2>5. QED
    BY <2>3, <2>4 DEF FlagsFollow
<1>3. CASE StopBegin(s)
  BY <1>1, <1>3 DEF StopBegin, BeginDestroy, DestroyWaits, Enter, FlagsFollow, Follows,
     StartPcs, DestroyPcs
<1>4. CASE OnDisconnect(s)
  BY <1>1, <1>4 DEF OnDisconnect, BeginDestroy, SkipDestroy, DestroyWaits, Enter,
     FlagsFollow, Follows, StartPcs, DestroyPcs
<1>5. QED
  BY <1>2, <1>3, <1>4

\* The flags follow a start.
LEMMA FlagsStart ==
    ASSUME TypeInv, NEW s \in Slots,
           \/ StartOldDestroyed(s) \/ StartGeoReady(s) \/ StartCreated(s) \/ StartLoaded(s)
           \/ StartCore(s) \/ StartConnected(s) \/ StartDone(s) \/ StartFailDestroyed(s)
    PROVE  FlagsFollow(s)
<1>1. handler \in [Slots -> HandlerRec]
  BY DEF TypeInv, TypeOK
<1>2. CASE StartOldDestroyed(s)
  BY <1>1, <1>2 DEF StartOldDestroyed, StartStep, EndDestroy, Goto, FlagsFollow, Follows,
     StartPcs, DestroyPcs, HandlerRec
<1>3. CASE StartGeoReady(s) \/ StartCreated(s) \/ StartLoaded(s)
  BY <1>1, <1>3 DEF StartGeoReady, StartCreated, StartLoaded, StartStep, Goto, FlagsFollow,
     Follows, StartPcs, DestroyPcs, HandlerRec
<1>4. CASE StartCore(s) \/ StartConnected(s)
  BY <1>1, <1>4 DEF StartCore, StartConnected, StartStep, Goto, FlagsFollow, Follows,
     StartPcs, DestroyPcs, HandlerRec
<1>5. CASE StartDone(s)
  BY <1>1, <1>5 DEF StartDone, StartStep, Done, Free, FlagsFollow, Follows, StartPcs,
     DestroyPcs, HandlerRec
<1>6. CASE StartFailDestroyed(s)
  BY <1>1, <1>6 DEF StartFailDestroyed, StartStep, EndDestroy, Done, Free, FlagsFollow,
     Follows, StartPcs, DestroyPcs, HandlerRec
<1>7. QED
  BY <1>2, <1>3, <1>4, <1>5, <1>6

\* The flags follow a start that fails.
LEMMA FlagsStartFailed ==
    ASSUME TypeInv, NEW s \in Slots, StartFailed(s)
    PROVE  FlagsFollow(s)
<1>1. /\ handler \in [Slots -> HandlerRec]
      /\ handler[s].pc \in StartPcs \ DestroyPcs
  BY DEF TypeInv, TypeOK, StartFailed, StartStep, StartPcs, DestroyPcs
<1>2. \/ /\ ~destroyInProgress[handler[s].inst]
         /\ destroyInProgress' = [destroyInProgress EXCEPT ![handler[s].inst] = TRUE]
         /\ Goto(s, "failDestroy") /\ startInProgress' = startInProgress
      \/ /\ destroyInProgress' = destroyInProgress
         /\ startInProgress' = [startInProgress EXCEPT ![handler[s].inst] = FALSE]
         /\ Done(s)
  BY DEF StartFailed, DestroyWaits, BeginDestroy, SkipDestroy
<1>3. QED
  BY <1>1, <1>2 DEF Goto, Done, Free, FlagsFollow, Follows, StartPcs, DestroyPcs, HandlerRec

\* The flags follow a stop and a system disconnect.
LEMMA FlagsStop ==
    ASSUME TypeInv, NEW s \in Slots, StopDestroyed(s) \/ StopDone(s) \/ OnDisconnected(s)
    PROVE  FlagsFollow(s)
<1>1. handler \in [Slots -> HandlerRec]
  BY DEF TypeInv, TypeOK
<1>2. CASE StopDestroyed(s)
  BY <1>1, <1>2 DEF StopDestroyed, EndDestroy, Goto, FlagsFollow, Follows, StartPcs,
     DestroyPcs, HandlerRec
<1>3. CASE StopDone(s)
  BY <1>1, <1>3 DEF StopDone, Done, Free, FlagsFollow, Follows, StartPcs, DestroyPcs
<1>4. CASE OnDisconnected(s)
  BY <1>1, <1>4 DEF OnDisconnected, EndDestroy, Done, Free, FlagsFollow, Follows, StartPcs,
     DestroyPcs
<1>5. QED
  BY <1>2, <1>3, <1>4

\* The end of the process clears flags and handlers alike.
LEMMA FlagsExit == ASSUME ProcessExit PROVE FlagInv'
  BY DEF ProcessExit, FlagInv, StartExclusive, DestroyExclusive, Starting, Destroying,
     Blank, Free, StartPcs, DestroyPcs

\* Other steps touch neither.
LEMMA FlagsSame ==
    ASSUME FlagInv, handler' = handler, startInProgress' = startInProgress,
           destroyInProgress' = destroyInProgress
    PROVE  FlagInv'
  BY DEF FlagInv, StartExclusive, DestroyExclusive, Starting, Destroying

\* What the steps outside the extension leave alone.
LEMMA OutsideKeeps ==
    ASSUME OutsideStep
    PROVE  UNCHANGED <<ext, inst, fieldVars, handler, tunnel, coreProfile, overlapped, crossed>>
<1>1. CASE \E p \in Profiles : UiConnect(p) \/ MvpCommand(ConnectWant(p))
  BY <1>1 DEF UiConnect, MvpCommand
<1>2. CASE UiDisconnect \/ UiRefresh \/ UiKilled \/ UiRestored
  BY <1>2 DEF UiDisconnect, UiRefresh, UiKilled, UiRestored
<1>3. CASE UiStep
  BY <1>3 DEF UiStep, UiAck, UiRetry, UiFailPending, UiRejectedSettled, UiFailed,
     UiBackground, UiFinalize, UiDisconnectThrows
<1>4. CASE MvpCommand(DisconnectWant) \/ MvpResetRuntime
  BY <1>4 DEF MvpCommand, MvpResetRuntime
<1>5. QED
  BY <1>1, <1>2, <1>3, <1>4 DEF OutsideStep

\* The busy flags are kept by every step.
LEMMA NextFlags == TypeInv /\ FlagInv /\ [Next]_vars => FlagInv'
<1> SUFFICES ASSUME TypeInv, FlagInv, [Next]_vars PROVE FlagInv'
  OBVIOUS
<1>0. TypeInv'
  BY NextTypes
<1>1. CASE OutsideStep
  BY <1>1, OutsideKeeps, FlagsSame
<1>2. CASE OnCreate \/ OnDestroy
  BY <1>2, FlagsSame DEF OnCreate, OnDestroy
<1>3. CASE ExtensionStopped \/ VpnCrash
  BY <1>3, FlagsExit DEF ExtensionStopped, VpnCrash
<1>4. ASSUME NEW i \in Instances, TrafficSampleFails(i) PROVE FlagInv'
  BY <1>4, FlagsSame DEF TrafficSampleFails
<1>5. ASSUME NEW s \in Slots, StartRejected(s) PROVE FlagInv'
  BY <1>5, FlagsSame DEF StartRejected
<1>6. ASSUME NEW s \in Slots, StartBegin(s) \/ StopBegin(s) \/ OnDisconnect(s)
      PROVE  FlagInv'
  BY <1>0, <1>6, FlagsDelivered, FlagsFollowed
<1>7. ASSUME NEW s \in Slots, HandlerStep(s) PROVE FlagInv'
  BY <1>0, <1>7, FlagsStart, FlagsStartFailed, FlagsStop, FlagsFollowed DEF HandlerStep
<1>8. CASE UNCHANGED vars
  BY <1>8, FlagsSame
<1>9. QED
  BY <1>1, <1>2, <1>3, <1>4, <1>5, <1>6, <1>7, <1>8 DEF Next, OutsideStep, Deliver

-----------------------------------------------------------------------------
(* The claims in the snapshot *)

ClaimInv == StartKnowsProfile /\ StartsAgree /\ ClaimNamesCore /\ RunningClaimBacked

\* A step makes no claim that was not there.
NoNewClaim == ClaimsRunning(snap') =>
                  ClaimsRunning(snap) /\ snap'.activeProfileId = snap.activeProfileId

\* A step neither begins a start nor takes one past its core start.
NoNewStart ==
    \A t \in Slots :
        /\ handler'[t].pc \in StartPcs =>
               handler[t].pc \in StartPcs /\ handler'[t].profileId = handler[t].profileId
        /\ handler'[t].pc \in EarlyPcs => handler[t].pc \in EarlyPcs
        /\ handler'[t].pc = "select" => handler[t].pc = "select"

\* Such a step, which leaves the core alone and creates no instance, keeps the claims.
LEMMA ClaimsKept ==
    ASSUME ClaimInv, NoNewClaim, NoNewStart, coreProfile' = coreProfile,
           crossed' = crossed, ext' => ext
    PROVE  ClaimInv'
<1>1. EarlyPcs \subseteq StartPcs
  BY DEF EarlyPcs, StartPcs
<1>2. StartKnowsProfile'
  BY DEF ClaimInv, StartKnowsProfile, Starting, NoNewStart
<1>3. StartsAgree'
  <2> SUFFICES ASSUME ~crossed' PROVE StartsAgree'
    BY DEF StartsAgree
  <2>1. StartsAgree /\ ~crossed
    BY DEF ClaimInv
  <2>2. \A t \in Slots : handler'[t].pc \in EarlyPcs =>
            handler[t].pc \in EarlyPcs /\ handler'[t].profileId = handler[t].profileId
    BY <1>1 DEF NoNewStart
  <2>3. \A t \in Slots : handler'[t].pc = "select" =>
            handler[t].pc = "select" /\ handler'[t].profileId = handler[t].profileId
    BY <2>2 DEF NoNewStart, EarlyPcs
  <2>4. QED
    BY <2>1, <2>2, <2>3 DEF StartsAgree, NoNewClaim
<1>4. ClaimNamesCore' /\ RunningClaimBacked'
  BY DEF ClaimInv, ClaimNamesCore, RunningClaimBacked, NoNewClaim
<1>5. QED
  BY <1>2, <1>3, <1>4 DEF ClaimInv

\* A step that leaves the handlers alone begins no start.
LEMMA SameHandlers == ASSUME handler' = handler PROVE NoNewStart
  BY DEF NoNewStart

\* What the UI and a debug reset write claims nothing.
LEMMA OutsideClaims ==
    ASSUME TypeInv, OutsideStep
    PROVE  NoNewClaim
<1>1. snap \in Snapshot
  BY DEF TypeInv, TypeOK
<1>2. CASE \E p \in Profiles : UiConnect(p)
  BY <1>1, <1>2 DEF UiConnect, Update, NoNewClaim, ClaimsRunning, Snapshot
<1>3. CASE UiDisconnect \/ UiRestored \/ MvpResetRuntime
  BY <1>1, <1>3 DEF UiDisconnect, UiRestored, MvpResetRuntime, Update, UpdateDown,
     NoNewClaim, ClaimsRunning, Snapshot
<1>4. CASE UiFailPending \/ UiFinalize
  BY <1>1, <1>4 DEF UiFailPending, UiFinalize, Update, UpdateDown, NoNewClaim,
     ClaimsRunning, Snapshot
<1>5. CASE \/ UiAck \/ UiRetry \/ UiRejectedSettled \/ UiFailed \/ UiBackground
           \/ UiDisconnectThrows
  BY <1>5 DEF UiAck, UiRetry, UiRejectedSettled, UiFailed, UiBackground,
     UiDisconnectThrows, NoNewClaim
<1>6. CASE \/ UiRefresh \/ UiKilled \/ MvpCommand(DisconnectWant)
           \/ \E p \in Profiles : MvpCommand(ConnectWant(p))
  BY <1>6 DEF UiRefresh, UiKilled, MvpCommand, NoNewClaim
<1>7. QED
  BY <1>2, <1>3, <1>4, <1>5, <1>6 DEF OutsideStep, UiStep

\* A want that is rejected, a stop, a disconnect and their ends claim nothing.
LEMMA TeardownClaims ==
    ASSUME TypeInv, NEW s \in Slots,
           \/ StartRejected(s) \/ StopBegin(s) \/ StopDestroyed(s)
           \/ OnDisconnect(s) \/ OnDisconnected(s) \/ StopDone(s)
    PROVE  NoNewClaim /\ NoNewStart
<1>1. snap \in Snapshot /\ handler \in [Slots -> HandlerRec]
  BY DEF TypeInv, TypeOK
<1>2. CASE StartRejected(s)
  BY <1>1, <1>2, SameHandlers DEF StartRejected, Update, NoNewClaim, ClaimsRunning, Snapshot
<1>3. CASE StopBegin(s)
  <2>1. NoNewClaim
    BY <1>1, <1>3 DEF StopBegin, StopFinish, Update, UpdateDown, NoNewClaim, ClaimsRunning,
       Snapshot
  <2>2. Enter(s, "stopDestroy", NoProfile) \/ Enter(s, "stopExt", NoProfile)
    BY <1>3 DEF StopBegin
  <2>3. QED
    BY <1>1, <2>1, <2>2 DEF Enter, NoNewStart, StartPcs, EarlyPcs
<1>4. CASE StopDestroyed(s)
  <2>1. NoNewClaim
    BY <1>1, <1>4 DEF StopDestroyed, StopFinish, Update, UpdateDown, NoNewClaim,
       ClaimsRunning, Snapshot
  <2>2. Goto(s, "stopExt")
    BY <1>4 DEF StopDestroyed
  <2>3. QED
    BY <1>1, <2>1, <2>2 DEF Goto, NoNewStart, StartPcs, EarlyPcs
<1>5. CASE OnDisconnect(s)
  <2>1. NoNewClaim
    BY <1>1, <1>5 DEF OnDisconnect, Update, UpdateDown, NoNewClaim, ClaimsRunning, Snapshot
  <2>2. Enter(s, "discDestroy", NoProfile) \/ handler' = handler
    BY <1>5 DEF OnDisconnect
  <2>3. QED
    BY <1>1, <2>1, <2>2 DEF Enter, NoNewStart, StartPcs, EarlyPcs
<1>6. CASE OnDisconnected(s) \/ StopDone(s)
  <2>1. NoNewClaim
    BY <1>1, <1>6 DEF OnDisconnected, StopDone, Update, UpdateDown, NoNewClaim,
       ClaimsRunning, Snapshot
  <2>2. Done(s)
    BY <1>6 DEF OnDisconnected, StopDone
  <2>3. QED
    BY <1>1, <2>1, <2>2 DEF Done, Free, NoNewStart, StartPcs, EarlyPcs
<1>7. QED
  BY <1>2, <1>3, <1>4, <1>5, <1>6

\* Nor do the steps of a start other than the start of the core and 'connected'.
LEMMA StartClaims ==
    ASSUME TypeInv, NEW s \in Slots,
           \/ StartOldDestroyed(s) \/ StartGeoReady(s) \/ StartCreated(s) \/ StartLoaded(s)
           \/ StartDone(s) \/ StartFailed(s) \/ StartFailDestroyed(s)
    PROVE  NoNewClaim /\ NoNewStart
<1>1. snap \in Snapshot /\ handler \in [Slots -> HandlerRec]
  BY DEF TypeInv, TypeOK
<1>2. NoNewClaim
  <2>1. CASE StartOldDestroyed(s) \/ StartGeoReady(s) \/ StartDone(s) \/ StartFailDestroyed(s)
    BY <2>1 DEF StartOldDestroyed, StartGeoReady, StartDone, StartFailDestroyed, NoNewClaim
  <2>2. CASE StartCreated(s) \/ StartLoaded(s) \/ StartFailed(s)
    BY <1>1, <2>2 DEF StartCreated, StartLoaded, StartFailed, Update, NoNewClaim,
       ClaimsRunning, Snapshot
  <2>3. QED
    BY <2>1, <2>2
<1>3. NoNewStart
  <2>1. CASE \/ handler[s].pc = "oldDestroy" /\ Goto(s, "geo")
             \/ handler[s].pc = "geo" /\ Goto(s, "create")
             \/ handler[s].pc = "create" /\ Goto(s, "load")
             \/ handler[s].pc = "load" /\ Goto(s, "core")
             \/ handler[s].pc \in StartPcs /\ Goto(s, "failDestroy")
    BY <1>1, <2>1 DEF Goto, HandlerRec, NoNewStart, StartPcs, EarlyPcs
  <2>2. CASE Done(s)
    BY <1>1, <2>2 DEF Done, Free, NoNewStart, StartPcs, EarlyPcs
  <2>3. CASE StartFailed(s)
    BY <2>1, <2>2, <2>3 DEF StartFailed, StartStep, StartPcs
  <2>4. QED
    BY <2>1, <2>2, <2>3 DEF StartOldDestroyed, StartGeoReady, StartCreated, StartLoaded,
       StartDone, StartFailDestroyed, StartStep
<1>4. QED
  BY <1>2, <1>3

\* What the steps just named leave alone.
LEMMA CoreKept ==
    ASSUME NEW s \in Slots,
           \/ StartRejected(s) \/ StopBegin(s) \/ StopDestroyed(s)
           \/ OnDisconnect(s) \/ OnDisconnected(s) \/ StopDone(s)
           \/ StartOldDestroyed(s) \/ StartGeoReady(s) \/ StartCreated(s) \/ StartLoaded(s)
           \/ StartDone(s) \/ StartFailed(s) \/ StartFailDestroyed(s)
    PROVE  coreProfile' = coreProfile /\ crossed' = crossed /\ ext' = ext
<1>1. CASE \/ StartRejected(s) \/ StopBegin(s) \/ StopDestroyed(s)
           \/ OnDisconnect(s) \/ OnDisconnected(s) \/ StopDone(s)
  BY <1>1 DEF StartRejected, StopBegin, StopDestroyed, OnDisconnect, OnDisconnected, StopDone
<1>2. CASE \/ StartOldDestroyed(s) \/ StartGeoReady(s) \/ StartCreated(s) \/ StartLoaded(s)
           \/ StartDone(s) \/ StartFailed(s) \/ StartFailDestroyed(s)
  BY <1>2 DEF StartOldDestroyed, StartGeoReady, StartCreated, StartLoaded, StartDone,
     StartFailed, StartFailDestroyed, StartStep
<1>3. QED
  BY <1>1, <1>2

\* A start that begins withdraws every claim; if an unfinished one is for another
\* profile, the two have crossed.
LEMMA ClaimsStartBegin ==
    ASSUME TypeInv, ClaimInv, NEW s \in Slots, StartBegin(s)
    PROVE  ClaimInv'
<1> DEFINE p == Head(wants).profileId
<1>1. p \in Profiles
  <2>1. wants \in Seq(Want) /\ wants # <<>> /\ Head(wants).command = "connect"
    BY DEF TypeInv, TypeOK, StartBegin, TakeWant
  <2>2. Head(wants) \in Want
    BY <2>1
  <2>3. QED
    BY <2>1, <2>2, WantTypes
<1>2. ~ClaimsRunning(snap')
  BY DEF TypeInv, TypeOK, StartBegin, Update, UpdateDown, Snapshot, ClaimsRunning
<1>3. /\ handler \in [Slots -> HandlerRec]
      /\ Enter(s, "oldDestroy", p) \/ Enter(s, "geo", p)
      /\ coreProfile' = coreProfile
  BY DEF TypeInv, TypeOK, StartBegin
<1>4. ~crossed' =>
          /\ ~crossed
          /\ \A t \in Slots : handler[t].pc \in EarlyPcs => handler[t].profileId = p
  BY DEF StartBegin
<1> HIDE DEF p
<1>5. /\ handler'[s].pc \in {"oldDestroy", "geo"} /\ handler'[s].profileId = p
      /\ \A t \in Slots : t # s => handler'[t] = handler[t]
  BY <1>3 DEF Enter
<1>6. StartKnowsProfile'
  BY <1>1, <1>3, <1>5 DEF ClaimInv, StartKnowsProfile, Starting
<1>7. StartsAgree'
  <2> SUFFICES ASSUME ~crossed' PROVE StartsAgree'
    BY DEF StartsAgree
  <2>1. \A t \in Slots : handler'[t].pc \in EarlyPcs => handler'[t].profileId = p
    BY <1>4, <1>5
  <2>2. \A t \in Slots : handler'[t].pc = "select" => handler'[t].profileId = coreProfile'
    BY <1>3, <1>4, <1>5 DEF ClaimInv, StartsAgree
  <2>3. QED
    BY <1>2, <2>1, <2>2 DEF StartsAgree
<1>8. QED
  BY <1>2, <1>6, <1>7 DEF ClaimInv, ClaimNamesCore, RunningClaimBacked

\* Any other unfinished start, and a claim still in the snapshot, is for the profile
\* the core is started with.
LEMMA ClaimsStartCore ==
    ASSUME TypeInv, ClaimInv, NEW s \in Slots, StartCore(s)
    PROVE  ClaimInv'
<1>1. /\ handler \in [Slots -> HandlerRec] /\ handler[s].pc = "core"
      /\ handler' = [handler EXCEPT ![s].pc = "select"]
      /\ coreProfile' = handler[s].profileId
      /\ snap' = snap /\ crossed' = crossed /\ ext' = ext
  BY DEF TypeInv, TypeOK, StartCore, StartStep, Goto
<1>2. /\ handler'[s].pc = "select" /\ handler'[s].profileId = handler[s].profileId
      /\ \A t \in Slots : t # s => handler'[t] = handler[t]
  BY <1>1 DEF HandlerRec
<1>3. handler[s].profileId \in Profiles /\ coreProfile' # NoProfile
  BY <1>1, ConstantsAssumption DEF ClaimInv, StartKnowsProfile, Starting, StartPcs
<1>4. StartKnowsProfile'
  BY <1>1, <1>2, <1>3 DEF ClaimInv, StartKnowsProfile, Starting
<1>5. ~crossed =>
          /\ \A t \in Slots : handler[t].pc \in EarlyPcs
                 => handler[t].profileId = handler[s].profileId
          /\ ClaimsRunning(snap) => handler[s].profileId = snap.activeProfileId
  BY <1>1 DEF ClaimInv, StartsAgree, EarlyPcs
<1>6. StartsAgree'
  <2> SUFFICES ASSUME ~crossed PROVE StartsAgree'
    BY <1>1 DEF StartsAgree
  <2>1. \A t \in Slots : handler'[t].pc \in EarlyPcs
            => handler'[t].profileId = handler[s].profileId
    BY <1>2, <1>5
  <2>2. QED
    BY <1>1, <1>5, <2>1 DEF StartsAgree, EarlyPcs
<1>7. ClaimNamesCore' /\ RunningClaimBacked'
  BY <1>1, <1>3, <1>5 DEF ClaimNamesCore, RunningClaimBacked
<1>8. QED
  BY <1>4, <1>6, <1>7 DEF ClaimInv

\* The claim a start makes names the profile it started the core with.
LEMMA ClaimsStartConnected ==
    ASSUME TypeInv, ClaimInv, NEW s \in Slots, StartConnected(s)
    PROVE  ClaimInv'
<1>1. /\ handler \in [Slots -> HandlerRec] /\ handler[s].pc = "select"
      /\ handler' = [handler EXCEPT ![s].pc = "traffic"]
      /\ snap'.activeProfileId = handler[s].profileId
      /\ coreProfile' = coreProfile /\ crossed' = crossed /\ ext' = ext
  BY DEF TypeInv, TypeOK, StartConnected, StartStep, Goto
<1>2. /\ handler'[s].pc = "traffic" /\ handler'[s].profileId = handler[s].profileId
      /\ \A t \in Slots : t # s => handler'[t] = handler[t]
  BY <1>1 DEF HandlerRec
<1>3. coreProfile # NoProfile
  BY <1>1 DEF ClaimInv, StartKnowsProfile
<1>4. StartKnowsProfile'
  BY <1>1, <1>2 DEF ClaimInv, StartKnowsProfile, Starting, StartPcs
<1>5. ~crossed =>
          /\ \A t \in Slots : handler[t].pc \in EarlyPcs
                 => handler[t].profileId = handler[s].profileId
          /\ coreProfile = handler[s].profileId
  BY <1>1 DEF ClaimInv, StartsAgree, EarlyPcs
<1>6. StartsAgree'
  <2> SUFFICES ASSUME ~crossed PROVE StartsAgree'
    BY <1>1 DEF StartsAgree
  <2>1. \A t \in Slots : handler'[t].pc \in EarlyPcs
            => handler'[t].profileId = handler[s].profileId
    BY <1>2, <1>5 DEF EarlyPcs
  <2>2. QED
    BY <1>1, <1>5, <2>1 DEF StartsAgree, EarlyPcs
<1>7. ClaimNamesCore' /\ RunningClaimBacked'
  BY <1>1, <1>3, <1>5 DEF ClaimNamesCore, RunningClaimBacked
<1>8. QED
  BY <1>4, <1>6, <1>7 DEF ClaimInv

\* A new instance clears a claim no core backs.
LEMMA ClaimsOnCreate ==
    ASSUME TypeInv, ClaimInv, OnCreate
    PROVE  ClaimInv'
<1>1. /\ handler' = handler /\ coreProfile' = coreProfile /\ crossed' = crossed
      /\ NoNewClaim
      /\ ClaimsRunning(snap') => coreProfile # NoProfile
  BY DEF TypeInv, TypeOK, OnCreate, Reconciled, Update, UpdateDown, ClaimsRunning,
     Snapshot, NoNewClaim
<1>2. StartKnowsProfile' /\ StartsAgree'
  BY <1>1 DEF ClaimInv, StartKnowsProfile, Starting, StartsAgree, NoNewClaim
<1>3. ClaimNamesCore' /\ RunningClaimBacked'
  BY <1>1 DEF ClaimInv, ClaimNamesCore, RunningClaimBacked, NoNewClaim
<1>4. QED
  BY <1>2, <1>3 DEF ClaimInv

\* Without a process there is neither a start nor an instance to rely on a claim.
LEMMA ClaimsExit == ASSUME ProcessExit PROVE ClaimInv'
  BY DEF ProcessExit, ClaimInv, StartKnowsProfile, Starting, StartsAgree, ClaimNamesCore,
     RunningClaimBacked, Free, StartPcs, EarlyPcs

\* The claims are kept by every step.
LEMMA NextClaims == TypeInv /\ ClaimInv /\ [Next]_vars => ClaimInv'
<1> SUFFICES ASSUME TypeInv, ClaimInv, [Next]_vars PROVE ClaimInv'
  OBVIOUS
<1>1. CASE OutsideStep
  BY <1>1, OutsideKeeps, OutsideClaims, SameHandlers, ClaimsKept
<1>2. CASE OnDestroy \/ UNCHANGED vars \/ \E i \in Instances : TrafficSampleFails(i)
  BY <1>2, SameHandlers, ClaimsKept DEF OnDestroy, TrafficSampleFails, NoNewClaim
<1>3. CASE OnCreate
  BY <1>3, ClaimsOnCreate
<1>4. CASE ExtensionStopped \/ VpnCrash
  BY <1>4, ClaimsExit DEF ExtensionStopped, VpnCrash
<1>5. ASSUME NEW s \in Slots, StartBegin(s) \/ StartCore(s) \/ StartConnected(s)
      PROVE  ClaimInv'
  BY <1>5, ClaimsStartBegin, ClaimsStartCore, ClaimsStartConnected
<1>6. ASSUME NEW s \in Slots,
             \/ StartRejected(s) \/ StopBegin(s) \/ StopDestroyed(s)
             \/ OnDisconnect(s) \/ OnDisconnected(s) \/ StopDone(s)
      PROVE  ClaimInv'
  BY <1>6, TeardownClaims, CoreKept, ClaimsKept
<1>7. ASSUME NEW s \in Slots,
             \/ StartOldDestroyed(s) \/ StartGeoReady(s) \/ StartCreated(s) \/ StartLoaded(s)
             \/ StartDone(s) \/ StartFailed(s) \/ StartFailDestroyed(s)
      PROVE  ClaimInv'
  BY <1>7, StartClaims, CoreKept, ClaimsKept
<1>8. QED
  BY <1>1, <1>2, <1>3, <1>4, <1>5, <1>6, <1>7 DEF Next, OutsideStep, Deliver, HandlerStep

-----------------------------------------------------------------------------
(* The theorems *)

\* The initial state satisfies the inductive invariant.
LEMMA InitIInv == Init => IInv
<1> SUFFICES ASSUME Init PROVE IInv
  OBVIOUS
<1>1. inst \in Instances /\ FieldsOK /\ FlagsOK
  <2>1. inst \in Instances
    BY ConstantsAssumption DEF Init, Instances
  <2>2. FieldsOK
    BY DEF Init, FieldsOK, Blank
  <2>3. FlagsOK
    BY DEF Init, FlagsOK
  <2>4. QED
    BY <2>1, <2>2, <2>3
<1>2. handler \in [Slots -> HandlerRec]
  BY FreeHandler DEF Init
<1>3. snap \in Snapshot /\ wants \in Seq(Want)
  BY DEF Init, Snapshot, RuntimeState, CoreState
<1>4. TypeOK /\ InstancesCounted /\ RequestNamesProfile
  BY <1>1, <1>2, <1>3, ConstantsAssumption DEF Init, TypeOK, UiState, RuntimeState,
     InstancesCounted, RequestNamesProfile
<1>5. StartExclusive /\ DestroyExclusive
  BY DEF Init, StartExclusive, DestroyExclusive, Starting, Destroying, Free, StartPcs,
     DestroyPcs, Blank
<1>6. StartKnowsProfile /\ StartsAgree /\ ClaimNamesCore /\ RunningClaimBacked
  BY DEF Init, StartKnowsProfile, Starting, StartsAgree, ClaimNamesCore,
     RunningClaimBacked, ClaimsRunning, Free, StartPcs, EarlyPcs
<1>7. QED
  BY <1>4, <1>5, <1>6 DEF IInv

\* Every step keeps it.
LEMMA NextIInv == IInv /\ [Next]_vars => IInv'
<1>1. IInv <=> TypeInv /\ FlagInv /\ ClaimInv
  BY DEF IInv, TypeInv, FlagInv, ClaimInv
<1>2. IInv' <=> TypeInv' /\ FlagInv' /\ ClaimInv'
  BY DEF IInv, TypeInv, FlagInv, ClaimInv
<1>3. QED
  BY <1>1, <1>2, NextTypes, NextFlags, NextClaims

\* The inductive invariant holds in every reachable state.
LEMMA AlwaysIInv == Spec => []IInv
  BY InitIInv, NextIInv, PTL DEF Spec

\* For any profiles, number of handlers, requests and faults: the control state of the
\* two processes and the snapshot they share keep their types, in every instance of the
\* extension.
THEOREM TypeCorrect == Spec => []TypeOK
<1>1. IInv => TypeOK
  BY DEF IInv
<1>2. QED
  BY <1>1, AlwaysIInv, PTL

\* However many wants arrive and however they interleave, also with the starts of
\* destroyed instances, one start of an instance at most is past the busy guard of
\* startVpnForProduct and its startInProgress tells so.
THEOREM StartsExclude == Spec => []StartExclusive
<1>1. IInv => StartExclusive
  BY DEF IInv
<1>2. QED
  BY <1>1, AlwaysIInv, PTL

\* One caller of an instance's destroyVpn at most awaits vpnConnection.destroy(), and
\* destroyInProgress tells so.
THEOREM TeardownsExclude == Spec => []DestroyExclusive
<1>1. IInv => DestroyExclusive
  BY DEF IInv
<1>2. QED
  BY <1>1, AlwaysIInv, PTL

\* While an extension instance exists, a snapshot that claims connected or a running
\* core is backed by a core that runs, and by one that runs the profile it names unless
\* unfinished starts of two profiles have crossed, whichever instance began them
\* (reconcilePersistedRuntimeState and the order of writes in startVpnForProduct).
THEOREM RunningClaimsAreBacked == Spec => []RunningClaimBacked
<1>1. IInv => RunningClaimBacked
  BY DEF IInv
<1>2. QED
  BY <1>1, AlwaysIInv, PTL

-----------------------------------------------------------------------------
(* What a start holds *)

\* Awaits of a start once it has a connection, and once it has a tun fd.
JoinedPcs == {"create", "load", "core", "select", "traffic"}
TunPcs    == {"load", "core", "select", "traffic"}

\* A start is in progress together with no other start and with no teardown.
Alone ==
    \A s, t \in Slots : Starting(s) /\ s # t => ~Starting(t) /\ ~Destroying(t)

\* Handlers belong to instances that have existed.
Born == \A s \in Slots : handler[s].pc # "free" => handler[s].inst <= inst

\* A timer runs for an instance that has a connection it is not destroying.
TimersHold ==
    \A i \in Instances : trafficTimer[i] =>
        /\ i <= inst /\ vpnConnection[i] /\ tunFd[i] /\ ~destroyInProgress[i]
        /\ inst = 1 => tunnel

\* A start has, at each of its awaits, what the steps before it acquired; the snapshot
\* does not say connected before it does.
StartsHold ==
    \A s \in Slots :
        /\ handler[s].pc \in JoinedPcs => vpnConnection[handler[s].inst]
        /\ handler[s].pc \in TunPcs => tunFd[handler[s].inst] /\ tunnel
        /\ handler[s].pc \in EarlyPcs \cup {"failDestroy"} => snap.runtimeState # "connected"

ConnectedHolds == snap.runtimeState = "connected" /\ coreProfile # NoProfile => tunnel

Held    == Alone /\ Born /\ TimersHold /\ StartsHold /\ ConnectedHolds
HeldInv == ~overlapped => Held

\* No step makes the snapshot connected, but the last of a start.
NotConnected == snap'.runtimeState = "connected" => snap.runtimeState = "connected"

\* A step that touches no handler, field, tunnel or core, whatever instance is next.
LEMMA HeldSame ==
    ASSUME TypeInv, Held, NotConnected, UNCHANGED <<fieldVars, handler, tunnel, coreProfile>>,
           inst' = inst \/ inst' = inst + 1
    PROVE  Held'
<1>1. inst \in Nat \ {0} /\ (inst' = 1 => inst = 1) /\ inst <= inst'
  BY ConstantsAssumption DEF TypeInv, TypeOK, Instances
<1>2. Alone'
  BY DEF Held, Alone, Starting, Destroying
<1>3. Born'
  <2>1. \A s \in Slots : handler[s].inst \in Nat
    BY ConstantsAssumption DEF TypeInv, TypeOK, HandlerRec, Instances
  <2>2. QED
    BY <1>1, <2>1 DEF Held, Born
<1>4. TimersHold'
  <2>1. \A i \in Instances : i \in Nat
    BY ConstantsAssumption DEF Instances
  <2>2. QED
    BY <1>1, <2>1 DEF Held, TimersHold
<1>5. StartsHold' /\ ConnectedHolds'
  BY DEF Held, StartsHold, ConnectedHolds, NotConnected
<1>6. QED
  BY <1>2, <1>3, <1>4, <1>5 DEF Held

\* What the steps outside the extension write is not connected.
LEMMA OutsideNotConnected ==
    ASSUME TypeInv, OutsideStep
    PROVE  NotConnected
<1>1. snap \in Snapshot
  BY DEF TypeInv, TypeOK
<1>2. CASE \E p \in Profiles : UiConnect(p)
  BY <1>1, <1>2 DEF UiConnect, Update, NotConnected, Snapshot
<1>3. CASE UiDisconnect \/ UiRestored \/ MvpResetRuntime
  BY <1>1, <1>3 DEF UiDisconnect, UiRestored, MvpResetRuntime, Update, UpdateDown,
     NotConnected, Snapshot
<1>4. CASE UiFailPending \/ UiFinalize
  BY <1>1, <1>4 DEF UiFailPending, UiFinalize, Update, UpdateDown, NotConnected, Snapshot
<1>5. CASE \/ UiAck \/ UiRetry \/ UiRejectedSettled \/ UiFailed \/ UiBackground
           \/ UiDisconnectThrows
  BY <1>5 DEF UiAck, UiRetry, UiRejectedSettled, UiFailed, UiBackground,
     UiDisconnectThrows, NotConnected
<1>6. CASE \/ UiRefresh \/ UiKilled \/ MvpCommand(DisconnectWant)
           \/ \E p \in Profiles : MvpCommand(ConnectWant(p))
  BY <1>6 DEF UiRefresh, UiKilled, MvpCommand, NotConnected
<1>7. QED
  BY <1>2, <1>3, <1>4, <1>5, <1>6 DEF OutsideStep, UiStep

\* A new and a destroyed instance take nothing away.
LEMMA HeldLifecycle ==
    ASSUME TypeInv, Held, OnCreate \/ OnDestroy
    PROVE  Held'
<1>1. NotConnected
  BY DEF TypeInv, TypeOK, OnCreate, OnDestroy, Reconciled, Update, UpdateDown,
     NotConnected, Snapshot
<1>2. QED
  BY <1>1, HeldSame DEF OnCreate, OnDestroy

\* A rejected want takes nothing away.
LEMMA HeldRejected ==
    ASSUME TypeInv, Held, NEW s \in Slots, StartRejected(s)
    PROVE  Held'
<1>1. NotConnected
  BY DEF TypeInv, TypeOK, StartRejected, Update, NotConnected, Snapshot
<1>2. QED
  BY <1>1, HeldSame DEF StartRejected

\* A failed sample stops one timer, and no other thing.
LEMMA HeldSampleFails ==
    ASSUME TypeInv, Held, NEW i \in Instances, TrafficSampleFails(i)
    PROVE  Held'
<1>1. TimersHold'
  BY DEF TypeInv, TypeOK, FieldsOK, Held, TimersHold, TrafficSampleFails
<1>2. Alone' /\ Born' /\ StartsHold' /\ ConnectedHolds'
  BY DEF Held, Alone, Starting, Destroying, Born, StartsHold, ConnectedHolds,
     TrafficSampleFails
<1>3. QED
  BY <1>1, <1>2 DEF Held

\* The timers that go on have what they need when destroyVpn begins,
LEMMA TimersBeginDestroy ==
    ASSUME TypeInv, TimersHold, NEW i \in Instances, BeginDestroy(i), inst' = inst
    PROVE  TimersHold'
  BY DEF TypeInv, TypeOK, FieldsOK, TimersHold, BeginDestroy

\* ... when it has nothing to await.
LEMMA TimersSkipDestroy ==
    ASSUME TypeInv, TimersHold, NEW i \in Instances, SkipDestroy(i), inst' = inst
    PROVE  TimersHold'
  BY DEF TypeInv, TypeOK, FieldsOK, TimersHold, SkipDestroy

\* ... when vpnConnection.destroy() has settled.
LEMMA TimersEndDestroy ==
    ASSUME TypeInv, FlagInv, Born, TimersHold, NEW s \in Slots, Destroying(s),
           EndDestroy(handler[s].inst), inst' = inst
    PROVE  TimersHold'
<1>1. handler[s].inst \in Instances /\ destroyInProgress[handler[s].inst]
  BY DEF TypeInv, TypeOK, HandlerRec, FlagInv, DestroyExclusive
<1>2. handler[s].inst <= inst
  BY DEF Born, Destroying, DestroyPcs
<1>3. ~trafficTimer[handler[s].inst]
  BY <1>1 DEF TimersHold
<1>4. \A i \in Instances : trafficTimer[i] => inst # 1
  <2> SUFFICES ASSUME NEW i \in Instances, trafficTimer[i], inst = 1 PROVE FALSE
    OBVIOUS
  <2>1. i <= 1 /\ handler[s].inst <= 1
    BY <1>2 DEF TimersHold
  <2>2. i = handler[s].inst
    BY <1>1, <2>1, ConstantsAssumption DEF Instances
  <2>3. QED
    BY <1>3, <2>2
<1>5. \A i \in Instances : trafficTimer[i] => i # handler[s].inst
  BY <1>3
<1>6. QED
  BY <1>1, <1>4, <1>5 DEF TypeInv, TypeOK, FieldsOK, TimersHold, EndDestroy

\* Handler s goes on or ends, in its own instance.
GoesOn(s) ==
    /\ \A t \in Slots : t # s => handler'[t] = handler[t]
    /\ handler'[s].pc \in StartPcs => handler[s].pc \in StartPcs
    /\ handler'[s].pc \in DestroyPcs => handler[s].pc \in StartPcs \cup DestroyPcs
    /\ handler'[s].pc # "free" => handler[s].pc # "free" /\ handler'[s].inst = handler[s].inst

\* Each step of a suspended handler is of this kind.
LEMMA HandlerGoesOn ==
    ASSUME TypeInv, NEW s \in Slots, HandlerStep(s)
    PROVE  GoesOn(s) /\ inst' = inst
<1>1. handler \in [Slots -> HandlerRec]
  BY DEF TypeInv, TypeOK
<1>2. inst' = inst
  BY DEF HandlerStep, StartStep, StartOldDestroyed, StartGeoReady, StartCreated,
     StartLoaded, StartCore, StartConnected, StartDone, StartFailed, StartFailDestroyed,
     StopDestroyed, StopDone, OnDisconnected
<1>3. CASE \E pc \in StartPcs : handler[s].pc \in StartPcs /\ Goto(s, pc)
  BY <1>1, <1>2, <1>3 DEF Goto, GoesOn, HandlerRec, StartPcs, DestroyPcs
<1>4. CASE handler[s].pc = "stopDestroy" /\ Goto(s, "stopExt")
  BY <1>1, <1>2, <1>4 DEF Goto, GoesOn, HandlerRec, StartPcs, DestroyPcs
<1>5. CASE Done(s)
  BY <1>1, <1>2, <1>5 DEF Done, Free, GoesOn, StartPcs, DestroyPcs
<1>6. \/ \E pc \in StartPcs : handler[s].pc \in StartPcs /\ Goto(s, pc)
      \/ handler[s].pc = "stopDestroy" /\ Goto(s, "stopExt")
      \/ Done(s)
  <2>1. CASE StartOldDestroyed(s) \/ StartGeoReady(s) \/ StartCreated(s) \/ StartLoaded(s)
    BY <2>1 DEF StartOldDestroyed, StartGeoReady, StartCreated, StartLoaded, StartStep,
       StartPcs
  <2>2. CASE StartCore(s) \/ StartConnected(s) \/ StartFailed(s)
    BY <2>2 DEF StartCore, StartConnected, StartFailed, StartStep, StartPcs
  <2>3. CASE \/ StartDone(s) \/ StartFailDestroyed(s) \/ StopDestroyed(s) \/ StopDone(s)
             \/ OnDisconnected(s)
    BY <2>3 DEF StartDone, StartFailDestroyed, StopDestroyed, StopDone, OnDisconnected
  <2>4. QED
    BY <2>1, <2>2, <2>3 DEF HandlerStep
<1>7. QED
  BY <1>3, <1>4, <1>5, <1>6

\* Such a step keeps a start alone.
LEMMA GoesOnKeeps ==
    ASSUME Alone, Born, NEW s \in Slots, GoesOn(s), inst' = inst
    PROVE  Alone' /\ Born'
<1>1. Alone'
  BY DEF Alone, GoesOn, Starting, Destroying
<1>2. Born'
  BY DEF Born, GoesOn
<1>3. QED
  BY <1>1, <1>2

\* Beside a start no other handler is at one of the awaits StartsHold speaks of, and no
\* instance is being destroyed.
LEMMA BesideStart ==
    ASSUME Alone, FlagInv, NEW s \in Slots, Starting(s)
    PROVE  /\ \A t \in Slots : t # s => handler[t].pc \notin StartPcs
           /\ ~Destroying(s) => \A i \in Instances : ~destroyInProgress[i]
<1>1. \A t \in Slots : t # s => handler[t].pc \notin StartPcs
  BY DEF Alone, Starting
<1>2. ASSUME ~Destroying(s) PROVE \A i \in Instances : ~destroyInProgress[i]
  BY <1>2 DEF Alone, FlagInv, DestroyExclusive
<1>3. QED
  BY <1>1, <1>2

\* What the awaits of StartsHold have in common.
LEMMA HoldingPcs ==
    JoinedPcs \cup TunPcs \cup EarlyPcs \cup {"failDestroy"} \subseteq StartPcs
  BY DEF JoinedPcs, TunPcs, EarlyPcs, StartPcs

\* The steps of a start.  <1>1 gives its place before and after, <1>2 that it is alone.
LEMMA HeldStartOldDestroyed ==
    ASSUME TypeInv, FlagInv, Held, NEW s \in Slots, StartOldDestroyed(s)
    PROVE  TimersHold' /\ StartsHold' /\ ConnectedHolds'
<1>1. /\ handler[s].pc = "oldDestroy" /\ handler'[s].pc = "geo"
      /\ \A t \in Slots : t # s => handler'[t] = handler[t]
      /\ snap' = snap /\ coreProfile' = coreProfile
  BY DEF TypeInv, TypeOK, HandlerRec, StartOldDestroyed, StartStep, Goto
<1>2. \A t \in Slots : t # s => handler[t].pc \notin StartPcs
  BY <1>1, BesideStart DEF Held, Starting, StartPcs
<1>3. TimersHold'
  BY <1>1, TimersEndDestroy DEF Held, Destroying, DestroyPcs, StartOldDestroyed, StartStep
<1>4. snap.runtimeState # "connected"
  BY <1>1 DEF Held, StartsHold, EarlyPcs
<1>5. StartsHold' /\ ConnectedHolds'
  BY <1>1, <1>2, <1>4, HoldingPcs DEF StartsHold, ConnectedHolds, JoinedPcs, TunPcs
<1>6. QED
  BY <1>3, <1>5

\* createVpnConnection gives the instance its connection.
LEMMA HeldStartGeoReady ==
    ASSUME TypeInv, FlagInv, Held, NEW s \in Slots, StartGeoReady(s)
    PROVE  TimersHold' /\ StartsHold' /\ ConnectedHolds'
<1>1. /\ handler[s].pc = "geo" /\ handler'[s].pc = "create"
      /\ handler'[s].inst = handler[s].inst /\ handler[s].inst \in Instances
      /\ \A t \in Slots : t # s => handler'[t] = handler[t]
      /\ snap' = snap /\ coreProfile' = coreProfile
      /\ vpnConnection' = [vpnConnection EXCEPT ![handler[s].inst] = TRUE]
  BY DEF TypeInv, TypeOK, HandlerRec, StartGeoReady, StartStep, Goto
<1>2. \A t \in Slots : t # s => handler[t].pc \notin StartPcs
  BY <1>1, BesideStart DEF Held, Starting, StartPcs
<1>3. vpnConnection \in [Instances -> BOOLEAN]
  BY DEF TypeInv, TypeOK, FieldsOK
<1>4. TimersHold'
  BY <1>1, <1>3 DEF Held, TimersHold, StartGeoReady, StartStep
<1>5. snap.runtimeState # "connected"
  BY <1>1 DEF Held, StartsHold, EarlyPcs
<1>6. StartsHold' /\ ConnectedHolds'
  BY <1>1, <1>2, <1>3, <1>5, HoldingPcs DEF StartsHold, ConnectedHolds, TunPcs
<1>7. QED
  BY <1>4, <1>6

\* create() gives it the tun fd, and the tunnel.
LEMMA HeldStartCreated ==
    ASSUME TypeInv, FlagInv, Held, NEW s \in Slots, StartCreated(s)
    PROVE  TimersHold' /\ StartsHold' /\ ConnectedHolds'
<1>1. /\ handler[s].pc = "create" /\ handler'[s].pc = "load"
      /\ handler'[s].inst = handler[s].inst /\ handler[s].inst \in Instances
      /\ \A t \in Slots : t # s => handler'[t] = handler[t]
      /\ tunFd' = [tunFd EXCEPT ![handler[s].inst] = TRUE] /\ tunnel' = TRUE
      /\ vpnConnection' = vpnConnection
  BY DEF TypeInv, TypeOK, HandlerRec, StartCreated, StartStep, Goto
<1>2. \A t \in Slots : t # s => handler[t].pc \notin StartPcs
  BY <1>1, BesideStart DEF Held, Starting, StartPcs
<1>3. tunFd \in [Instances -> BOOLEAN]
  BY DEF TypeInv, TypeOK, FieldsOK
<1>4. TimersHold'
  BY <1>1, <1>3 DEF Held, TimersHold, StartCreated, StartStep
<1>5. snap'.runtimeState # "connected"
  BY <1>1 DEF TypeInv, TypeOK, Snapshot, Held, StartsHold, EarlyPcs, StartCreated
<1>6. vpnConnection[handler[s].inst]
  BY <1>1 DEF Held, StartsHold, JoinedPcs
<1>7. StartsHold' /\ ConnectedHolds'
  BY <1>1, <1>2, <1>3, <1>5, <1>6, HoldingPcs DEF StartsHold, ConnectedHolds
<1>8. QED
  BY <1>4, <1>7

\* The core is loaded and started with that fd.
LEMMA HeldStartLoaded ==
    ASSUME TypeInv, FlagInv, Held, NEW s \in Slots, StartLoaded(s) \/ StartCore(s)
    PROVE  TimersHold' /\ StartsHold' /\ ConnectedHolds'
<1>1. /\ handler[s].pc \in {"load", "core"} /\ handler'[s].pc \in {"core", "select"}
      /\ handler'[s].inst = handler[s].inst
      /\ \A t \in Slots : t # s => handler'[t] = handler[t]
      /\ UNCHANGED <<fieldVars, tunnel, inst>>
  BY DEF TypeInv, TypeOK, HandlerRec, StartLoaded, StartCore, StartStep, Goto
<1>2. \A t \in Slots : t # s => handler[t].pc \notin StartPcs
  BY <1>1, BesideStart DEF Held, Starting, StartPcs
<1>3. TimersHold'
  BY <1>1 DEF Held, TimersHold
<1>4. snap'.runtimeState # "connected"
  BY <1>1 DEF TypeInv, TypeOK, Snapshot, Held, StartsHold, EarlyPcs, StartLoaded, StartCore
<1>5. vpnConnection[handler[s].inst] /\ tunFd[handler[s].inst] /\ tunnel
  BY <1>1 DEF Held, StartsHold, JoinedPcs, TunPcs
<1>6. StartsHold' /\ ConnectedHolds'
  BY <1>1, <1>2, <1>4, <1>5, HoldingPcs DEF StartsHold, ConnectedHolds
<1>7. QED
  BY <1>3, <1>6

\* connected is written with the tunnel up, and by the only start.
LEMMA HeldStartConnected ==
    ASSUME TypeInv, FlagInv, Held, NEW s \in Slots, StartConnected(s)
    PROVE  TimersHold' /\ StartsHold' /\ ConnectedHolds'
<1>1. /\ handler[s].pc = "select" /\ handler'[s].pc = "traffic"
      /\ handler'[s].inst = handler[s].inst /\ handler[s].inst \in Instances
      /\ \A t \in Slots : t # s => handler'[t] = handler[t]
      /\ trafficTimer' = [trafficTimer EXCEPT ![handler[s].inst] = FALSE]
      /\ UNCHANGED <<vpnConnection, tunFd, destroyInProgress, tunnel, inst>>
  BY DEF TypeInv, TypeOK, HandlerRec, StartConnected, StartStep, Goto
<1>2. \A t \in Slots : t # s => handler[t].pc \notin StartPcs
  BY <1>1, BesideStart DEF Held, Starting, StartPcs
<1>3. TimersHold'
  BY <1>1 DEF TypeInv, TypeOK, FieldsOK, Held, TimersHold
<1>4. vpnConnection[handler[s].inst] /\ tunFd[handler[s].inst] /\ tunnel
  BY <1>1 DEF Held, StartsHold, JoinedPcs, TunPcs
<1>5. StartsHold' /\ ConnectedHolds'
  BY <1>1, <1>2, <1>4, HoldingPcs DEF StartsHold, ConnectedHolds, EarlyPcs
<1>6. QED
  BY <1>3, <1>5

\* The timer is set while the connection of its instance is not being destroyed.
LEMMA HeldStartDone ==
    ASSUME TypeInv, FlagInv, Held, NEW s \in Slots, StartDone(s)
    PROVE  TimersHold' /\ StartsHold' /\ ConnectedHolds'
<1>1. /\ handler[s].pc = "traffic" /\ handler'[s].pc = "free"
      /\ handler[s].inst \in Instances
      /\ \A t \in Slots : t # s => handler'[t] = handler[t]
      /\ \E b \in BOOLEAN : trafficTimer' = [trafficTimer EXCEPT ![handler[s].inst] = b]
      /\ UNCHANGED <<snap, coreProfile, vpnConnection, tunFd, destroyInProgress, tunnel, inst>>
  BY DEF TypeInv, TypeOK, HandlerRec, StartDone, StartStep, Done, Free
<1>2. /\ \A t \in Slots : t # s => handler[t].pc \notin StartPcs
      /\ \A i \in Instances : ~destroyInProgress[i]
  BY <1>1, BesideStart DEF Held, Starting, Destroying, StartPcs, DestroyPcs
<1>3. /\ handler[s].inst <= inst
      /\ vpnConnection[handler[s].inst] /\ tunFd[handler[s].inst] /\ tunnel
  BY <1>1 DEF Held, Born, StartsHold, JoinedPcs, TunPcs
<1>4. trafficTimer \in [Instances -> BOOLEAN]
  BY DEF TypeInv, TypeOK, FieldsOK
<1>5. TimersHold'
  BY <1>1, <1>2, <1>3, <1>4 DEF Held, TimersHold
<1>6. StartsHold' /\ ConnectedHolds'
  BY <1>1, <1>2, <1>3, HoldingPcs DEF StartsHold, ConnectedHolds, StartPcs
<1>7. QED
  BY <1>5, <1>6

\* A start that fails withdraws connected before it destroys.
LEMMA HeldStartFailed ==
    ASSUME TypeInv, FlagInv, Held, NEW s \in Slots, StartFailed(s)
    PROVE  TimersHold' /\ StartsHold' /\ ConnectedHolds'
<1>1. /\ handler[s].pc \in StartPcs /\ handler'[s].pc \in {"failDestroy", "free"}
      /\ handler[s].inst \in Instances
      /\ \A t \in Slots : t # s => handler'[t] = handler[t]
      /\ inst' = inst
  BY DEF TypeInv, TypeOK, HandlerRec, StartFailed, StartStep, Goto, Done, Free, StartPcs
<1>2. \A t \in Slots : t # s => handler[t].pc \notin StartPcs
  BY <1>1, BesideStart DEF Held, Starting
<1>3. BeginDestroy(handler[s].inst) \/ SkipDestroy(handler[s].inst)
  BY DEF StartFailed
<1>4. TimersHold'
  BY <1>1, <1>3, TimersBeginDestroy, TimersSkipDestroy DEF Held
<1>5. snap'.runtimeState # "connected"
  BY DEF TypeInv, TypeOK, Snapshot, StartFailed, Update
<1>6. StartsHold' /\ ConnectedHolds'
  BY <1>1, <1>2, <1>5, HoldingPcs DEF StartsHold, ConnectedHolds, JoinedPcs, TunPcs
<1>7. QED
  BY <1>4, <1>6

\* ... and ends when that has settled.
LEMMA HeldStartFailDestroyed ==
    ASSUME TypeInv, FlagInv, Held, NEW s \in Slots, StartFailDestroyed(s)
    PROVE  TimersHold' /\ StartsHold' /\ ConnectedHolds'
<1>1. /\ handler[s].pc = "failDestroy" /\ handler'[s].pc = "free"
      /\ \A t \in Slots : t # s => handler'[t] = handler[t]
      /\ snap' = snap /\ coreProfile' = coreProfile
  BY DEF TypeInv, TypeOK, StartFailDestroyed, StartStep, Done, Free
<1>2. \A t \in Slots : t # s => handler[t].pc \notin StartPcs
  BY <1>1, BesideStart DEF Held, Starting, StartPcs
<1>3. TimersHold'
  BY <1>1, TimersEndDestroy DEF Held, Destroying, DestroyPcs, StartFailDestroyed, StartStep
<1>4. snap.runtimeState # "connected"
  BY <1>1 DEF Held, StartsHold
<1>5. StartsHold' /\ ConnectedHolds'
  BY <1>1, <1>2, <1>4, HoldingPcs DEF StartsHold, ConnectedHolds, StartPcs
<1>6. QED
  BY <1>3, <1>5

\* The ends of a stop and of a system disconnect: no start is in progress beside them.
LEMMA HeldTeardownEnds ==
    ASSUME TypeInv, FlagInv, Held, NEW s \in Slots, StopDestroyed(s) \/ OnDisconnected(s)
    PROVE  TimersHold' /\ StartsHold' /\ ConnectedHolds'
<1>1. /\ handler[s].pc \in {"stopDestroy", "discDestroy"}
      /\ handler'[s].pc \in {"stopExt", "free"}
      /\ \A t \in Slots : t # s => handler'[t] = handler[t]
      /\ EndDestroy(handler[s].inst) /\ inst' = inst
  BY DEF TypeInv, TypeOK, HandlerRec, StopDestroyed, OnDisconnected, Goto, Done, Free
<1>2. \A t \in Slots : t # s => handler[t].pc \notin StartPcs
  <2> SUFFICES ASSUME NEW t \in Slots, t # s, Starting(t) PROVE FALSE
    BY DEF Starting
  <2>1. ~Destroying(s)
    BY DEF Held, Alone
  <2>2. QED
    BY <1>1, <2>1 DEF Destroying, DestroyPcs
<1>3. TimersHold'
  BY <1>1, TimersEndDestroy DEF Held, Destroying, DestroyPcs
<1>4. snap'.runtimeState # "connected"
  BY DEF TypeInv, TypeOK, Snapshot, StopDestroyed, OnDisconnected, StopFinish, Update,
     UpdateDown
<1>5. StartsHold' /\ ConnectedHolds'
  BY <1>1, <1>2, <1>4, HoldingPcs DEF StartsHold, ConnectedHolds, StartPcs
<1>6. QED
  BY <1>3, <1>5

\* The end of stopVpnExtensionAbility touches nothing.
LEMMA HeldStopDone ==
    ASSUME TypeInv, Held, NEW s \in Slots, StopDone(s)
    PROVE  TimersHold' /\ StartsHold' /\ ConnectedHolds'
<1>1. /\ handler'[s].pc = "free"
      /\ \A t \in Slots : t # s => handler'[t] = handler[t]
      /\ UNCHANGED <<snap, fieldVars, tunnel, inst, coreProfile>>
  BY DEF TypeInv, TypeOK, StopDone, Done, Free
<1>2. TimersHold' /\ ConnectedHolds'
  BY <1>1 DEF Held, TimersHold, ConnectedHolds
<1>3. StartsHold'
  BY <1>1 DEF Held, StartsHold, JoinedPcs, TunPcs, EarlyPcs
<1>4. QED
  BY <1>2, <1>3

\* A start that is taken up while nothing is in progress.
LEMMA HeldStartBegin ==
    ASSUME TypeInv, Held, NEW s \in Slots, StartBegin(s), ~overlapped'
    PROVE  Held'
<1>1. \A t \in Slots : ~Starting(t) /\ ~Destroying(t)
  BY DEF StartBegin
<1>2. \/ Enter(s, "oldDestroy", Head(wants).profileId)
      \/ Enter(s, "geo", Head(wants).profileId)
  BY DEF StartBegin
<1>3. /\ handler'[s].pc \in {"oldDestroy", "geo"} /\ handler'[s].inst = inst
      /\ \A t \in Slots : t # s => handler'[t] = handler[t]
  BY <1>2 DEF TypeInv, TypeOK, Enter
<1>4. inst \in Instances /\ inst' = inst /\ inst <= inst
  BY ConstantsAssumption DEF TypeInv, TypeOK, Instances, StartBegin
<1>5. Alone'
  BY <1>1, <1>3 DEF Alone, Starting, Destroying
<1>6. Born'
  BY <1>3, <1>4 DEF Held, Born
<1>7. TimersHold'
  <2>1. CASE BeginDestroy(inst) \/ SkipDestroy(inst)
    BY <1>4, <2>1, TimersBeginDestroy, TimersSkipDestroy DEF Held
  <2>2. CASE UNCHANGED <<vpnConnection, tunFd, destroyInProgress, trafficTimer, tunnel>>
    BY <1>4, <2>2 DEF Held, TimersHold
  <2>3. QED
    BY <2>1, <2>2 DEF StartBegin
<1>8. snap'.runtimeState # "connected"
  BY DEF TypeInv, TypeOK, Snapshot, StartBegin, Update, UpdateDown
<1>9. StartsHold' /\ ConnectedHolds'
  BY <1>1, <1>3, <1>8, HoldingPcs DEF Starting, StartsHold, ConnectedHolds, JoinedPcs, TunPcs
<1>10. QED
  BY <1>5, <1>6, <1>7, <1>9 DEF Held

\* A stop or a system disconnect while no start is in progress.
LEMMA HeldTeardownBegins ==
    ASSUME TypeInv, Held, NEW s \in Slots, StopBegin(s) \/ OnDisconnect(s), ~overlapped'
    PROVE  Held'
<1>1. \A t \in Slots : ~Starting(t)
  BY DEF StopBegin, OnDisconnect, TeardownOverlaps
<1>2. \/ Enter(s, "stopDestroy", NoProfile) \/ Enter(s, "stopExt", NoProfile)
      \/ Enter(s, "discDestroy", NoProfile) \/ handler' = handler
  BY DEF StopBegin, OnDisconnect
<1>3. inst \in Instances /\ inst' = inst /\ inst <= inst
  BY ConstantsAssumption DEF TypeInv, TypeOK, Instances, StopBegin, OnDisconnect
<1>4. /\ handler'[s].pc \notin StartPcs
      /\ handler'[s].inst = inst \/ handler'[s] = handler[s]
      /\ \A t \in Slots : t # s => handler'[t] = handler[t]
  BY <1>1, <1>2 DEF TypeInv, TypeOK, Enter, Starting, StartPcs
<1>5. Alone' /\ Born'
  BY <1>1, <1>3, <1>4 DEF Held, Alone, Starting, Born
<1>6. TimersHold'
  <2>1. CASE BeginDestroy(inst) \/ SkipDestroy(inst)
    BY <1>3, <2>1, TimersBeginDestroy, TimersSkipDestroy DEF Held
  <2>2. CASE /\ trafficTimer' = [trafficTimer EXCEPT ![inst] = FALSE]
             /\ tunFd' = [tunFd EXCEPT ![inst] = destroyInProgress[inst] /\ @]
             /\ UNCHANGED <<vpnConnection, destroyInProgress, tunnel>>
    BY <1>3, <2>2 DEF TypeInv, TypeOK, FieldsOK, Held, TimersHold
  <2>3. QED
    BY <2>1, <2>2 DEF StopBegin, OnDisconnect
<1>7. NotConnected /\ tunnel' = tunnel /\ coreProfile' = coreProfile
  BY DEF TypeInv, TypeOK, Snapshot, NotConnected, StopBegin, OnDisconnect, StopFinish,
     BeginDestroy, SkipDestroy, Update, UpdateDown
<1>8. StartsHold' /\ ConnectedHolds'
  BY <1>1, <1>4, <1>7, HoldingPcs DEF Held, Starting, StartsHold, ConnectedHolds, NotConnected
<1>9. QED
  BY <1>5, <1>6, <1>8 DEF Held

\* The end of the process leaves nothing that holds anything.
LEMMA HeldExit == ASSUME ProcessExit PROVE Held'
  BY DEF ProcessExit, Held, Alone, Starting, Born, TimersHold, StartsHold, ConnectedHolds,
     Blank, Free, StartPcs, JoinedPcs, TunPcs, EarlyPcs

\* A suspended handler goes on.
LEMMA HeldHandlerStep ==
    ASSUME TypeInv, FlagInv, Held, NEW s \in Slots, HandlerStep(s)
    PROVE  Held'
<1>1. Alone' /\ Born'
  BY HandlerGoesOn, GoesOnKeeps DEF Held
<1>2. TimersHold' /\ StartsHold' /\ ConnectedHolds'
  BY HeldStartOldDestroyed, HeldStartGeoReady, HeldStartCreated, HeldStartLoaded,
     HeldStartConnected, HeldStartDone, HeldStartFailed, HeldStartFailDestroyed,
     HeldTeardownEnds, HeldStopDone DEF HandlerStep
<1>3. QED
  BY <1>1, <1>2 DEF Held

\* An overlap is forgotten only when the process ends.
LEMMA OverlapStays ==
    ASSUME Next, ~ProcessExit, ~overlapped'
    PROVE  ~overlapped
<1>1. CASE OutsideStep
  BY <1>1, OutsideKeeps
<1>2. CASE OnCreate \/ OnDestroy \/ \E i \in Instances : TrafficSampleFails(i)
  BY <1>2 DEF OnCreate, OnDestroy, TrafficSampleFails
<1>3. CASE \E s \in Slots : StartRejected(s) \/ StartBegin(s) \/ StopBegin(s) \/ OnDisconnect(s)
  BY <1>3 DEF StartRejected, StartBegin, StopBegin, OnDisconnect, TeardownOverlaps
<1>4. ASSUME NEW s \in Slots, HandlerStep(s) PROVE ~overlapped
  <2>1. CASE StopDestroyed(s) \/ StopDone(s) \/ OnDisconnected(s)
    BY <2>1 DEF StopDestroyed, StopDone, OnDisconnected
  <2>2. QED
    BY <1>4, <2>1 DEF HandlerStep, StartOldDestroyed, StartGeoReady, StartCreated,
       StartLoaded, StartCore, StartConnected, StartDone, StartFailed, StartFailDestroyed,
       StartStep
<1>5. CASE ExtensionStopped \/ VpnCrash
  BY <1>5 DEF ExtensionStopped, VpnCrash
<1>6. QED
  BY <1>1, <1>2, <1>3, <1>4, <1>5 DEF Next, OutsideStep, Deliver

\* Nothing holds anything at first.
LEMMA InitHeld == Init => HeldInv
  BY DEF Init, HeldInv, Held, Alone, Starting, Born, TimersHold, StartsHold,
     ConnectedHolds, Blank, Free, StartPcs, JoinedPcs, TunPcs, EarlyPcs

\* HeldInv is kept by every step.
LEMMA NextHeld == IInv /\ HeldInv /\ [Next]_vars => HeldInv'
<1> SUFFICES ASSUME IInv, HeldInv, [Next]_vars, ~overlapped' PROVE Held'
  BY DEF HeldInv
<1>1. TypeInv /\ FlagInv
  BY DEF IInv, TypeInv, FlagInv
<1>2. CASE ProcessExit
  BY <1>2, HeldExit
<1>3. CASE UNCHANGED vars
  BY <1>1, <1>3, HeldSame DEF HeldInv, NotConnected
<1>4. CASE Next /\ ~ProcessExit
  <2>1. Held
    BY <1>4, OverlapStays DEF HeldInv
  <2>2. CASE OutsideStep
    BY <1>1, <2>1, <2>2, OutsideKeeps, OutsideNotConnected, HeldSame
  <2>3. CASE OnCreate \/ OnDestroy
    BY <1>1, <2>1, <2>3, HeldLifecycle
  <2>4. ASSUME NEW i \in Instances, TrafficSampleFails(i) PROVE Held'
    BY <1>1, <2>1, <2>4, HeldSampleFails
  <2>5. ASSUME NEW s \in Slots, Deliver(s) \/ OnDisconnect(s) PROVE Held'
    BY <1>1, <2>1, <2>5, HeldRejected, HeldStartBegin, HeldTeardownBegins DEF Deliver
  <2>6. ASSUME NEW s \in Slots, HandlerStep(s) PROVE Held'
    BY <1>1, <2>1, <2>6, HeldHandlerStep
  <2>7. CASE ExtensionStopped \/ VpnCrash
    BY <1>2, <2>7 DEF ExtensionStopped, VpnCrash
  <2>8. QED
    BY <1>4, <2>2, <2>3, <2>4, <2>5, <2>6, <2>7 DEF Next, OutsideStep
<1>5. QED
  BY <1>2, <1>3, <1>4

\* As long as no overlap has happened in the process, starts hold what they acquired.
LEMMA AlwaysHeld == Spec => []HeldInv
  BY AlwaysIInv, InitHeld, NextHeld, PTL DEF Spec

\* Unless a start was in progress together with a teardown or another start, a settled
\* extension that reports connected has its tunnel up: failed starts, replaced
\* connections, rejected destructions, crashes and instances destroyed in the middle of
\* a start or a teardown do not leave 'connected' behind without it.
THEOREM ConnectedHasTunnel == Spec => []ConnectedIsTruthful
<1>1. IInv /\ HeldInv => ConnectedIsTruthful
  BY DEF IInv, RunningClaimBacked, ClaimsRunning, HeldInv, Held, ConnectedHolds,
     ConnectedIsTruthful
<1>2. QED
  BY <1>1, AlwaysIInv, AlwaysHeld, PTL

\* Unless such an overlap happened, a traffic timer, also of a destroyed instance, runs
\* for an instance with a connection and a tun fd, whichever caller of destroyVpn gave up
\* what went before; that of the process's first instance also with the tunnel.
THEOREM SamplingHasConnection == Spec => []SamplingOnlyConnected
<1>1. HeldInv => SamplingOnlyConnected
  BY DEF HeldInv, Held, TimersHold, SamplingOnlyConnected
<1>2. QED
  BY <1>1, AlwaysHeld, PTL

=============================================================================
