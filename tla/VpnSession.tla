----------------------------- MODULE VpnSession -----------------------------
(***************************************************************************)
(* The control plane of one VPN session.                                   *)
(*                                                                         *)
(* Two processes share the persisted runtime snapshot: the UI (Index.ets   *)
(* and VpnControlService) and the VPN extension (MihomoPocVpnAbility).     *)
(* The UI sends wants through the platform; the extension handles each     *)
(* want in an asynchronous handler.  JavaScript runs to completion between *)
(* two awaits, so an action of this module is the code between two awaits  *)
(* of one process, and handlers interleave only at awaits.                 *)
(*                                                                         *)
(* The platform may destroy the extension ability and create it again in   *)
(* the same process.  onDestroy cancels nothing: the handlers and the      *)
(* interval timer of a destroyed instance go on, on that instance's own    *)
(* fields, beside the next instance.  So the fields are functions of the   *)
(* instance, and a handler knows the instance it runs in.                  *)
(*                                                                         *)
(* One read-modify-write of runtime.json is atomic here: the overlap of    *)
(* the two processes inside one is not part of this module.                *)
(* tunFd is abstracted to tunFd >= 0.  An operator whose name ends in      *)
(* _Something under a comment "Mutant" is the bug a property must catch.   *)
(***************************************************************************)
EXTENDS Naturals, Sequences, FiniteSets

CONSTANTS
    Profiles,       \* profile ids
    NoProfile,      \* the empty activeProfileId
    MisreadNames,   \* profiles whose name contains "core" or "mihomo"
    Slots,          \* asynchronous handlers of the extension that may coexist
    Faults,         \* the environment faults that may happen
    MaxFaults,      \* bound: how many faults happen, and so how many instances
    MaxWants,       \* bound: connect and disconnect requests issued
    DebugBuild      \* EntryAbility accepts mvpCommand wants

FaultKinds == {"lost", "reject", "stopReject", "uiKill", "vpnCrash",
               "extDestroy", "sysDisconnect", "profileGone"}

ASSUME ConstantsAssumption ==
    /\ NoProfile \notin Profiles
    /\ MisreadNames \subseteq Profiles
    /\ Faults \subseteq FaultKinds
    /\ MaxFaults \in Nat /\ MaxWants \in Nat
    /\ DebugBuild \in BOOLEAN

VARIABLES
    snap,               \* RuntimeSnapshot in runtime.json
    ackEvent,           \* a 'vpn' event 'Starting VPN profile=' since requestedAt
    ui,                 \* where VpnControlService is
    reqProfile,         \* profile of the connect in progress
    shown,              \* Index.statusText: the runtime state last rendered
    backgroundRunning,  \* VpnControlService.backgroundRunning
    wants,              \* wants accepted by the platform and not yet delivered
    stopRequested,      \* stopVpnExtensionAbility accepted, not yet executed
    tunnel,             \* the system VPN tunnel is up
    ext,                \* an instance of the extension ability exists
    inst,               \* its number in this process, or the next one's
    vpnConnection,      \* fields of each MihomoPocVpnAbility: vpnConnection # null
    tunFd,              \* tunFd >= 0
    startInProgress,
    destroyInProgress,
    trafficTimer,       \* trafficTimer >= 0
    handler,            \* the asynchronous handlers, of all instances
    coreProfile,        \* profile the Go core runs, NoProfile when not started
    issued, faults,     \* bounds
    lastCmd,            \* history: the last command the extension took up
    overlapped,         \* history: in this process a start was in progress together
                        \* with a teardown, or with a start of another instance
    crossed             \* history: ... with an unfinished start of another profile

storeVars   == <<snap, ackEvent>>
uiVars      == <<ui, reqProfile, shown, backgroundRunning>>
sysVars     == <<wants, stopRequested>>
fieldVars   == <<vpnConnection, tunFd, startInProgress, destroyInProgress,
                 trafficTimer>>
abilityVars == <<ext, inst, fieldVars, handler>>
boundVars   == <<issued, faults>>
histVars    == <<lastCmd, overlapped, crossed>>
vars == <<storeVars, uiVars, sysVars, tunnel, abilityVars, coreProfile,
          boundVars, histVars>>

-----------------------------------------------------------------------------
(* Types *)

RuntimeState == {"idle", "starting", "connected", "stopping", "error", "unknown"}
CoreState    == {"stopped", "loading", "running", "stopping", "error", "unknown"}
Snapshot == [runtimeState: RuntimeState, coreState: CoreState,
             activeProfileId: Profiles \cup {NoProfile}, tunFd: BOOLEAN]

UiState == {"idle", "dead", "ack1", "ack2", "rejected", "background",
            "failStop", "settling", "discRejected"}

Want == [command: {"connect"}, profileId: Profiles]
          \cup [command: {"disconnect"}, profileId: {NoProfile}]

\* Where a handler is suspended: startVpnForProduct, stopVpnForProduct, onDisconnect.
StartPcs   == {"oldDestroy", "geo", "create", "load", "core", "select",
               "traffic", "failDestroy"}
DestroyPcs == {"oldDestroy", "failDestroy", "stopDestroy", "discDestroy"}
HandlerPc  == StartPcs \cup DestroyPcs \cup {"free", "stopExt"}

\* Instances of MihomoPocVpnAbility one process has had, one after the other.
Instances  == 1..(MaxFaults + 1)
HandlerRec == [pc: HandlerPc, profileId: Profiles \cup {NoProfile}, inst: Instances]
Free       == [pc |-> "free", profileId |-> NoProfile, inst |-> 1]

Starting(s)   == handler[s].pc \in StartPcs
Destroying(s) == handler[s].pc \in DestroyPcs
Quiet         == \A s \in Slots : handler[s].pc = "free"

\* A start before its 'connected': it has yet to write the snapshot.
EarlyPcs == {"oldDestroy", "geo", "create", "load", "core", "select"}

Blank == [i \in Instances |-> FALSE]

FlagsOK ==
    /\ ackEvent \in BOOLEAN /\ backgroundRunning \in BOOLEAN
    /\ stopRequested \in BOOLEAN /\ tunnel \in BOOLEAN
    /\ ext \in BOOLEAN
    /\ overlapped \in BOOLEAN /\ crossed \in BOOLEAN

FieldsOK ==
    /\ vpnConnection \in [Instances -> BOOLEAN]
    /\ tunFd \in [Instances -> BOOLEAN]
    /\ startInProgress \in [Instances -> BOOLEAN]
    /\ destroyInProgress \in [Instances -> BOOLEAN]
    /\ trafficTimer \in [Instances -> BOOLEAN]

\* Both processes and the store keep to the states of MvpTypes.ets; a handler is at one
\* of its awaits; queued wants are connects of a profile or disconnects.
TypeOK ==
    /\ FlagsOK /\ FieldsOK
    /\ inst \in Instances
    /\ snap \in Snapshot
    /\ ui \in UiState /\ shown \in RuntimeState
    /\ reqProfile \in Profiles \cup {NoProfile}
    /\ wants \in Seq(Want)
    /\ handler \in [Slots -> HandlerRec]
    /\ coreProfile \in Profiles \cup {NoProfile}
    /\ issued \in Nat /\ faults \in Nat
    /\ lastCmd \in {"none", "connect", "disconnect"}

Init ==
    /\ snap = [runtimeState |-> "idle", coreState |-> "stopped",
               activeProfileId |-> NoProfile, tunFd |-> FALSE]
    /\ ackEvent = FALSE
    /\ ui = "idle" /\ reqProfile = NoProfile /\ shown = "idle"
    /\ backgroundRunning = FALSE
    /\ wants = <<>> /\ stopRequested = FALSE
    /\ tunnel = FALSE
    /\ ext = FALSE /\ inst = 1
    /\ vpnConnection = Blank /\ tunFd = Blank
    /\ startInProgress = Blank /\ destroyInProgress = Blank
    /\ trafficTimer = Blank
    /\ handler = [s \in Slots |-> Free]
    /\ coreProfile = NoProfile
    /\ issued = 0 /\ faults = 0
    /\ lastCmd = "none" /\ overlapped = FALSE /\ crossed = FALSE

-----------------------------------------------------------------------------
(* RuntimeStore.update: the patches the two processes write *)

\* Mutant: the two states of a patch are swapped.
Update_Swapped(rt, core) == [snap EXCEPT !.runtimeState = core, !.coreState = rt]

Update(rt, core)     == [snap EXCEPT !.runtimeState = rt, !.coreState = core]
UpdateDown(rt, core) == [Update(rt, core) EXCEPT !.tunFd = FALSE]

-----------------------------------------------------------------------------
(* The UI process *)

Fault(f) == f \in Faults /\ faults < MaxFaults /\ faults' = faults + 1
NoFault  == faults' = faults

\* VpnConnectPolicy.resolve
ConnectRequestState ==
    IF \/ snap.activeProfileId # reqProfile
       \/ snap.runtimeState = "error" \/ snap.coreState = "error"
    THEN "failed"
    ELSE IF \/ snap.runtimeState = "connected" \/ snap.coreState = "running"
            \/ snap.tunFd \/ ackEvent
    THEN "acknowledged"
    ELSE IF snap.runtimeState = "starting" /\ snap.coreState = "loading"
    THEN "pending"
    ELSE "failed"

\* startVpnExtensionAbility(want): the platform queues the want, drops it behind
\* the authorization dialog (connect only), or rejects the call.
IssueWant(w, pc, rejectedPc) ==
    \/ wants' = Append(wants, w) /\ ui' = pc /\ NoFault
    \/ w.command = "connect" /\ wants' = wants /\ ui' = pc /\ Fault("lost")
    \/ wants' = wants /\ ui' = rejectedPc /\ Fault("reject")

ConnectWant(p) == [command |-> "connect", profileId |-> p]
DisconnectWant == [command |-> "disconnect", profileId |-> NoProfile]

\* Index.connect (canConnect) and VpnControlService.connect up to its first await.
UiConnect(p) ==
    /\ ui = "idle" /\ shown \in {"idle", "error", "unknown"}
    /\ issued < MaxWants /\ issued' = issued + 1
    /\ snap' = [Update("starting", "loading") EXCEPT !.activeProfileId = p]
    /\ ackEvent' = FALSE
    /\ reqProfile' = p
    /\ IssueWant(ConnectWant(p), "ack1", "rejected")
    /\ UNCHANGED <<shown, backgroundRunning, stopRequested, tunnel, abilityVars,
                   coreProfile, histVars>>

\* The end of Index.connect and Index.disconnect: busy is cleared, the state rendered.
UiReturn == ui' = "idle" /\ shown' = snap'.runtimeState

\* waitForConnectRequestState resolves: acknowledged goes on to
\* startBackgroundRunning, failed is thrown and failPendingConnect returns at once.
UiAck ==
    /\ ui \in {"ack1", "ack2"}
    /\ \/ ConnectRequestState = "acknowledged" /\ ui' = "background" /\ UNCHANGED shown
       \/ ConnectRequestState = "failed" /\ snap' = snap /\ UiReturn
    /\ UNCHANGED <<storeVars, reqProfile, backgroundRunning, sysVars, tunnel,
                   abilityVars, coreProfile, boundVars, histVars>>

\* The first deadline passes while the request is pending: send the want again.
UiRetry ==
    /\ ui = "ack1" /\ ConnectRequestState = "pending"
    /\ IssueWant(ConnectWant(reqProfile), "ack2", "rejected")
    /\ UNCHANGED <<storeVars, reqProfile, shown, backgroundRunning, stopRequested,
                   tunnel, abilityVars, coreProfile, issued, histVars>>

\* stopVpnExtensionAbility: accepted when there is an extension to stop.
RequestStop ==
    \/ stopRequested' = (stopRequested \/ ext) /\ NoFault
    \/ stopRequested' = stopRequested /\ Fault("stopReject")

\* failPendingConnect, after the second deadline or a rejected call.
UiFailPending ==
    /\ ui \in {"ack2", "rejected"} /\ ConnectRequestState = "pending"
    /\ snap' = UpdateDown("error", "stopped")
    /\ RequestStop
    /\ ui' = "failStop"
    /\ UNCHANGED <<ackEvent, reqProfile, shown, backgroundRunning, wants, tunnel,
                   abilityVars, coreProfile, issued, histVars>>

\* A rejected call whose request is no longer pending: failPendingConnect returns.
UiRejectedSettled ==
    /\ ui = "rejected" /\ ConnectRequestState # "pending"
    /\ snap' = snap /\ UiReturn
    /\ UNCHANGED <<ackEvent, reqProfile, backgroundRunning, sysVars, tunnel,
                   abilityVars, coreProfile, boundVars, histVars>>

\* stopBackgroundRunning at the end of failPendingConnect.
UiFailed ==
    /\ ui = "failStop"
    /\ backgroundRunning' = FALSE
    /\ snap' = snap /\ UiReturn
    /\ UNCHANGED <<ackEvent, reqProfile, sysVars, tunnel, abilityVars,
                   coreProfile, boundVars, histVars>>

\* startBackgroundRunning succeeds, or fails and is only logged.
UiBackground ==
    /\ ui = "background"
    /\ backgroundRunning' \in {backgroundRunning, TRUE}
    /\ snap' = snap /\ UiReturn
    /\ UNCHANGED <<ackEvent, reqProfile, sysVars, tunnel, abilityVars,
                   coreProfile, boundVars, histVars>>

\* Index.disconnect (canDisconnect) and VpnControlService.disconnect up to its await.
UiDisconnect ==
    /\ ui = "idle" /\ shown \in {"connected", "starting", "error", "unknown"}
    /\ issued < MaxWants /\ issued' = issued + 1
    /\ snap' = Update("stopping", "stopping")
    /\ IssueWant(DisconnectWant, "settling", "discRejected")
    /\ UNCHANGED <<ackEvent, reqProfile, shown, backgroundRunning, stopRequested,
                   tunnel, abilityVars, coreProfile, histVars>>

\* Mutant: disconnect() waits for the extension to leave stopping, without a deadline.
UiFinalize_NoDeadline ==
    /\ ui = "settling" /\ snap.runtimeState # "stopping"
    /\ backgroundRunning' = FALSE
    /\ snap' = snap /\ UiReturn
    /\ UNCHANGED <<ackEvent, reqProfile, sysVars, tunnel, abilityVars,
                   coreProfile, boundVars, histVars>>

\* The 3.5 s wait ends, the background task stops, a snapshot without error is
\* finalized to idle whatever the extension has done meanwhile.
UiFinalize ==
    /\ ui = "settling"
    /\ backgroundRunning' = FALSE
    /\ snap' = IF snap.runtimeState = "error" \/ snap.coreState = "error"
               THEN snap ELSE UpdateDown("idle", "stopped")
    /\ UiReturn
    /\ UNCHANGED <<ackEvent, reqProfile, sysVars, tunnel, abilityVars,
                   coreProfile, boundVars, histVars>>

\* startVpnExtensionAbility rejected: disconnect() throws before it finalizes.
UiDisconnectThrows ==
    /\ ui = "discRejected"
    /\ snap' = snap /\ UiReturn
    /\ UNCHANGED <<ackEvent, reqProfile, backgroundRunning, sysVars, tunnel,
                   abilityVars, coreProfile, boundVars, histVars>>

\* The poll timer renders the snapshot.
UiRefresh ==
    /\ ui # "dead" /\ shown # snap.runtimeState
    /\ shown' = snap.runtimeState
    /\ UNCHANGED <<storeVars, ui, reqProfile, backgroundRunning, sysVars, tunnel,
                   abilityVars, coreProfile, boundVars, histVars>>

UiKilled ==
    /\ ui # "dead" /\ Fault("uiKill")
    /\ ui' = "dead" /\ reqProfile' = NoProfile /\ backgroundRunning' = FALSE
    /\ UNCHANGED <<storeVars, shown, sysVars, tunnel, abilityVars, coreProfile,
                   issued, histVars>>

\* aboutToAppear: markRestoredRuntimeUnknown unless runtime.json was written in the
\* last 30 s, then refreshState.
UiRestored ==
    /\ ui = "dead"
    /\ \/ snap' = snap
       \/ /\ snap.runtimeState \in {"connected", "starting", "stopping"}
          /\ snap' = Update("unknown", "unknown")
    /\ UiReturn
    /\ UNCHANGED <<ackEvent, reqProfile, backgroundRunning, sysVars, tunnel,
                   abilityVars, coreProfile, boundVars, histVars>>

-----------------------------------------------------------------------------
(* EntryAbility.tryHandleMvpCommand: debug wants that bypass VpnControlService *)

MvpCommand(w) ==
    /\ DebugBuild /\ issued < MaxWants /\ issued' = issued + 1
    /\ wants' = Append(wants, w)
    /\ UNCHANGED <<storeVars, uiVars, stopRequested, tunnel, abilityVars,
                   coreProfile, faults, histVars>>

\* resetRuntime: RuntimeStore.resetToIdle
MvpResetRuntime ==
    /\ DebugBuild /\ issued < MaxWants /\ issued' = issued + 1
    /\ \E p \in Profiles \cup {NoProfile} :
           snap' = [UpdateDown("idle", "stopped") EXCEPT !.activeProfileId = p]
    /\ UNCHANGED <<ackEvent, uiVars, sysVars, tunnel, abilityVars, coreProfile,
                   faults, histVars>>

-----------------------------------------------------------------------------
(* The extension: lifecycle *)

ClaimsRunning(sn) == sn.runtimeState = "connected" \/ sn.coreState = "running"

\* Mutant: onCreate trusts the snapshot.
Reconciled_Trusting == snap

\* reconcilePersistedRuntimeState
Reconciled ==
    IF ClaimsRunning(snap) /\ coreProfile = NoProfile
    THEN UpdateDown("idle", "stopped") ELSE snap

\* A want arrives and no instance exists: onCreate.
OnCreate ==
    /\ ~ext /\ wants # <<>>
    /\ ext' = TRUE
    /\ snap' = Reconciled
    /\ UNCHANGED <<ackEvent, uiVars, sysVars, tunnel, inst, fieldVars, handler,
                   coreProfile, boundVars, histVars>>

\* The extension process ends: its instances, their handlers, the Go runtime and the
\* tunnel are gone, runtime.json is as it was.
ProcessExit ==
    /\ ext \/ inst > 1
    /\ ext' = FALSE /\ inst' = 1
    /\ vpnConnection' = Blank /\ tunFd' = Blank
    /\ startInProgress' = Blank /\ destroyInProgress' = Blank
    /\ trafficTimer' = Blank
    /\ handler' = [s \in Slots |-> Free]
    /\ stopRequested' = FALSE
    /\ tunnel' = FALSE /\ coreProfile' = NoProfile
    /\ overlapped' = FALSE /\ crossed' = FALSE
    /\ UNCHANGED <<storeVars, uiVars, wants, issued, lastCmd>>

\* The platform carries out stopVpnExtensionAbility.
ExtensionStopped == stopRequested /\ NoFault /\ ProcessExit

VpnCrash == Fault("vpnCrash") /\ ProcessExit

\* onDestroy while the process stays: the VPN, the core, the suspended handlers and
\* the timer of the destroyed instance are left alone.
OnDestroy ==
    /\ ext /\ Fault("extDestroy")
    /\ ext' = FALSE /\ inst' = inst + 1
    /\ stopRequested' = FALSE
    /\ UNCHANGED <<storeVars, uiVars, wants, tunnel, fieldVars, handler, coreProfile,
                   issued, histVars>>

-----------------------------------------------------------------------------
(* The extension: destroyVpn *)

Goto(s, pc)     == handler' = [handler EXCEPT ![s].pc = pc]
Done(s)         == handler' = [handler EXCEPT ![s] = Free]
Enter(s, pc, p) == handler' = [handler EXCEPT
                                   ![s] = [pc |-> pc, profileId |-> p, inst |-> inst]]

\* Mutant: destroyVpn does not ignore a duplicate call.
DestroyWaits_Duplicate(i) == vpnConnection[i]

DestroyWaits(i)   == ~destroyInProgress[i] /\ vpnConnection[i]
DestroyReturns(i) == destroyInProgress[i] \/ ~vpnConnection[i]

\* Mutant: stopTrafficPolling is not called.
BeginDestroy_KeepsTimer(i) ==
    /\ destroyInProgress' = [destroyInProgress EXCEPT ![i] = TRUE]
    /\ UNCHANGED <<trafficTimer, vpnConnection, tunFd, tunnel>>

\* destroyVpn of instance i up to its await; entered only when DestroyWaits.
BeginDestroy(i) ==
    /\ destroyInProgress' = [destroyInProgress EXCEPT ![i] = TRUE]
    /\ trafficTimer' = [trafficTimer EXCEPT ![i] = FALSE]
    /\ UNCHANGED <<vpnConnection, tunFd, tunnel>>

\* destroyVpn when it has nothing to await: ignored as a duplicate, or there is no
\* connection and the finally block runs at once.
SkipDestroy(i) ==
    /\ tunFd' = [tunFd EXCEPT ![i] = destroyInProgress[i] /\ @]
    /\ trafficTimer' = [trafficTimer EXCEPT ![i] = destroyInProgress[i] /\ @]
    /\ UNCHANGED <<vpnConnection, destroyInProgress, tunnel>>

\* vpnConnection.destroy settles; a rejection is logged and leaves the tunnel, and so
\* may a call for the connection of a destroyed instance.
EndDestroy(i) ==
    /\ tunnel' \in {FALSE, tunnel}
    /\ vpnConnection' = [vpnConnection EXCEPT ![i] = FALSE]
    /\ tunFd' = [tunFd EXCEPT ![i] = FALSE]
    /\ destroyInProgress' = [destroyInProgress EXCEPT ![i] = FALSE]
    /\ UNCHANGED trafficTimer

-----------------------------------------------------------------------------
(* The extension: startVpnForProduct *)

\* The platform hands a want to the instance that exists.
TakeWant(s, command) ==
    /\ ext /\ wants # <<>> /\ Head(wants).command = command
    /\ handler[s].pc = "free"
    /\ wants' = Tail(wants)
    /\ lastCmd' = command

\* Mutant: no busy guard.
StartAllowed_Always == TRUE

StartAllowed == ~startInProgress[inst]

\* The profile is gone (a reset since the request), or another start is running.
StartRejected(s) ==
    /\ TakeWant(s, "connect")
    /\ \/ /\ Fault("profileGone")
          /\ snap' = [Update("error", "error") EXCEPT !.activeProfileId = NoProfile]
       \/ ~StartAllowed /\ NoFault /\ snap' = Update("error", "error")
    /\ UNCHANGED <<ackEvent, uiVars, stopRequested, tunnel, abilityVars, coreProfile,
                   issued, overlapped, crossed>>

\* inferSource files the event under 'core' when the profile name says so.
RecordStart(p) == ackEvent' = (ackEvent \/ p \notin MisreadNames)

StartBegin(s) ==
    /\ TakeWant(s, "connect")
    /\ StartAllowed /\ startInProgress' = [startInProgress EXCEPT ![inst] = TRUE]
    /\ LET p == Head(wants).profileId IN
       /\ snap' = [UpdateDown("starting", "loading") EXCEPT !.activeProfileId = p]
       /\ RecordStart(p)
       /\ \/ /\ vpnConnection[inst] /\ tunFd[inst] /\ DestroyWaits(inst)
             /\ BeginDestroy(inst)
             /\ Enter(s, "oldDestroy", p)
          \/ /\ vpnConnection[inst] /\ tunFd[inst] /\ DestroyReturns(inst)
             /\ SkipDestroy(inst)
             /\ Enter(s, "geo", p)
          \/ /\ ~(vpnConnection[inst] /\ tunFd[inst])
             /\ UNCHANGED <<vpnConnection, tunFd, destroyInProgress, trafficTimer, tunnel>>
             /\ Enter(s, "geo", p)
       /\ crossed' = (crossed \/ \E t \in Slots : /\ handler[t].pc \in EarlyPcs
                                                  /\ handler[t].profileId # p)
    /\ overlapped' = (overlapped \/ \E t \in Slots : Starting(t) \/ Destroying(t))
    /\ UNCHANGED <<uiVars, stopRequested, ext, inst, coreProfile, boundVars>>

\* A step of a start handler that leaves the UI, the wants and the bounds alone.
StartStep(s, pc) ==
    /\ handler[s].pc = pc
    /\ UNCHANGED <<uiVars, sysVars, ext, inst, boundVars, histVars>>

StartOldDestroyed(s) ==
    /\ StartStep(s, "oldDestroy")
    /\ EndDestroy(handler[s].inst) /\ Goto(s, "geo")
    /\ UNCHANGED <<storeVars, startInProgress, coreProfile>>

\* GeoIP is ready or its failure logged; ensureProductRuntimeReady passed.
StartGeoReady(s) ==
    /\ StartStep(s, "geo")
    /\ vpnConnection' = [vpnConnection EXCEPT ![handler[s].inst] = TRUE]
    /\ Goto(s, "create")
    /\ UNCHANGED <<storeVars, tunnel, tunFd, startInProgress, destroyInProgress,
                   trafficTimer, coreProfile>>

\* vpnConnection.create resolves, the protect callback is registered.
StartCreated(s) ==
    /\ StartStep(s, "create")
    /\ tunFd' = [tunFd EXCEPT ![handler[s].inst] = TRUE] /\ tunnel' = TRUE
    /\ snap' = [snap EXCEPT !.tunFd = TRUE]
    /\ Goto(s, "load")
    /\ UNCHANGED <<ackEvent, vpnConnection, startInProgress, destroyInProgress,
                   trafficTimer, coreProfile>>

\* loadMihomoCore and the version query; the native start dups tunFd at once.
StartLoaded(s) ==
    /\ StartStep(s, "load") /\ tunFd[handler[s].inst]
    /\ snap' = [snap EXCEPT !.coreState = "loading"]
    /\ Goto(s, "core")
    /\ UNCHANGED <<ackEvent, tunnel, fieldVars, coreProfile>>

StartCore(s) ==
    /\ StartStep(s, "core")
    /\ coreProfile' = handler[s].profileId
    /\ Goto(s, "select")
    /\ UNCHANGED <<storeVars, tunnel, fieldVars>>

\* applySavedProxySelections is through: connected; startTrafficPolling begins.
StartConnected(s) ==
    /\ StartStep(s, "select")
    /\ snap' = [runtimeState |-> "connected", coreState |-> "running",
                activeProfileId |-> handler[s].profileId,
                tunFd |-> tunFd[handler[s].inst]]
    /\ trafficTimer' = [trafficTimer EXCEPT ![handler[s].inst] = FALSE]
    /\ Goto(s, "traffic")
    /\ UNCHANGED <<ackEvent, tunnel, vpnConnection, tunFd, startInProgress,
                   destroyInProgress, coreProfile>>

\* startTrafficPolling returns, with its timer or without it.
StartDone(s) ==
    /\ StartStep(s, "traffic")
    /\ \E b \in BOOLEAN : trafficTimer' = [trafficTimer EXCEPT ![handler[s].inst] = b]
    /\ startInProgress' = [startInProgress EXCEPT ![handler[s].inst] = FALSE]
    /\ Done(s)
    /\ UNCHANGED <<storeVars, tunnel, vpnConnection, tunFd, destroyInProgress,
                   coreProfile>>

\* The catch block: an invalid configuration, a rejected create, registration, load
\* or start, a start without tunFd, a rejected traffic writer.
StartFailed(s) ==
    /\ \E pc \in {"geo", "create", "load", "core", "traffic"} : StartStep(s, pc)
    /\ snap' = Update("error", "error")
    /\ \/ /\ DestroyWaits(handler[s].inst) /\ BeginDestroy(handler[s].inst)
          /\ Goto(s, "failDestroy") /\ UNCHANGED startInProgress
       \/ /\ DestroyReturns(handler[s].inst) /\ SkipDestroy(handler[s].inst)
          /\ startInProgress' = [startInProgress EXCEPT ![handler[s].inst] = FALSE]
          /\ Done(s)
    /\ UNCHANGED <<ackEvent, coreProfile>>

StartFailDestroyed(s) ==
    /\ StartStep(s, "failDestroy")
    /\ EndDestroy(handler[s].inst) /\ Done(s)
    /\ startInProgress' = [startInProgress EXCEPT ![handler[s].inst] = FALSE]
    /\ UNCHANGED <<storeVars, coreProfile>>

\* A traffic sample of an instance, destroyed or not, fails: stopTrafficPolling.
TrafficSampleFails(i) ==
    /\ trafficTimer[i] /\ trafficTimer' = [trafficTimer EXCEPT ![i] = FALSE]
    /\ UNCHANGED <<storeVars, uiVars, sysVars, tunnel, ext, inst, vpnConnection, tunFd,
                   startInProgress, destroyInProgress, handler, coreProfile,
                   boundVars, histVars>>

-----------------------------------------------------------------------------
(* The extension: stopVpnForProduct and onDisconnect *)

\* Mutant: the extension does not ask to be stopped.
StopFinish_StaysAlive ==
    /\ snap' = UpdateDown("idle", "stopped")
    /\ UNCHANGED stopRequested /\ NoFault

\* stopVpnForProduct after destroyVpn: idle, then the extension asks to be stopped.
StopFinish ==
    /\ snap' = UpdateDown("idle", "stopped")
    /\ RequestStop

\* stopVpnForProduct and onDisconnect do not ask startInProgress.
TeardownOverlaps == overlapped' = (overlapped \/ \E t \in Slots : Starting(t))

StopBegin(s) ==
    /\ TakeWant(s, "disconnect")
    /\ \/ /\ DestroyWaits(inst) /\ BeginDestroy(inst)
          /\ snap' = Update("stopping", "stopping")
          /\ Enter(s, "stopDestroy", NoProfile)
          /\ stopRequested' = stopRequested /\ NoFault
       \/ /\ DestroyReturns(inst)
          /\ trafficTimer' = [trafficTimer EXCEPT ![inst] = FALSE]
          /\ tunFd' = [tunFd EXCEPT ![inst] = destroyInProgress[inst] /\ @]
          /\ UNCHANGED <<vpnConnection, destroyInProgress, tunnel>>
          /\ StopFinish
          /\ Enter(s, "stopExt", NoProfile)
    /\ TeardownOverlaps
    /\ UNCHANGED <<ackEvent, uiVars, ext, inst, startInProgress, coreProfile, issued,
                   crossed>>

StopDestroyed(s) ==
    /\ handler[s].pc = "stopDestroy"
    /\ EndDestroy(handler[s].inst)
    /\ StopFinish /\ Goto(s, "stopExt")
    /\ UNCHANGED <<ackEvent, uiVars, wants, ext, inst, startInProgress, coreProfile,
                   issued, histVars>>

\* stopVpnExtensionAbility settles in the extension.
StopDone(s) ==
    /\ handler[s].pc = "stopExt"
    /\ Done(s)
    /\ UNCHANGED <<storeVars, uiVars, sysVars, tunnel, ext, inst, fieldVars, coreProfile,
                   boundVars, histVars>>

\* The platform calls onDisconnect of the instance that exists.
OnDisconnect(s) ==
    /\ ext /\ handler[s].pc = "free" /\ Fault("sysDisconnect")
    /\ \/ /\ DestroyWaits(inst) /\ BeginDestroy(inst)
          /\ Enter(s, "discDestroy", NoProfile) /\ snap' = snap
       \/ /\ DestroyReturns(inst) /\ SkipDestroy(inst)
          /\ snap' = UpdateDown("idle", "stopped") /\ handler' = handler
    /\ TeardownOverlaps
    /\ UNCHANGED <<ackEvent, uiVars, sysVars, ext, inst, startInProgress, coreProfile,
                   issued, lastCmd, crossed>>

\* Mutant: onDisconnect does not report idle after it destroyed the VPN.
OnDisconnected_Silent(s) ==
    /\ handler[s].pc = "discDestroy"
    /\ EndDestroy(handler[s].inst) /\ Done(s)
    /\ UNCHANGED <<storeVars, uiVars, sysVars, ext, inst, startInProgress, coreProfile,
                   boundVars, histVars>>

OnDisconnected(s) ==
    /\ handler[s].pc = "discDestroy"
    /\ EndDestroy(handler[s].inst) /\ Done(s)
    /\ snap' = UpdateDown("idle", "stopped")
    /\ UNCHANGED <<ackEvent, uiVars, sysVars, ext, inst, startInProgress, coreProfile,
                   boundVars, histVars>>

-----------------------------------------------------------------------------
(* Specification *)

UiStep == UiAck \/ UiRetry \/ UiFailPending \/ UiRejectedSettled \/ UiFailed
            \/ UiBackground \/ UiFinalize \/ UiDisconnectThrows

HandlerStep(s) ==
    \/ StartOldDestroyed(s) \/ StartGeoReady(s) \/ StartCreated(s) \/ StartLoaded(s)
    \/ StartCore(s) \/ StartConnected(s) \/ StartDone(s) \/ StartFailed(s)
    \/ StartFailDestroyed(s)
    \/ StopDestroyed(s) \/ StopDone(s) \/ OnDisconnected(s)

Deliver(s) == StartRejected(s) \/ StartBegin(s) \/ StopBegin(s)

Next ==
    \/ \E p \in Profiles : UiConnect(p) \/ MvpCommand(ConnectWant(p))
    \/ UiDisconnect \/ UiStep \/ UiRefresh \/ UiKilled \/ UiRestored
    \/ MvpCommand(DisconnectWant) \/ MvpResetRuntime
    \/ OnCreate \/ ExtensionStopped \/ VpnCrash \/ OnDestroy
    \/ \E i \in Instances : TrafficSampleFails(i)
    \/ \E s \in Slots : Deliver(s) \/ HandlerStep(s) \/ OnDisconnect(s)

Spec == Init /\ [][Next]_vars

\* Timers fire, the platform settles its promises, delivers queued wants and carries
\* out an accepted stop.  Users (who also relaunch a killed app), kills and crashes are
\* not fair.
Fairness ==
    /\ WF_vars(UiStep) /\ WF_vars(UiRefresh) /\ WF_vars(OnCreate)
    /\ WF_vars(ExtensionStopped)
    /\ \A s \in Slots : WF_vars(HandlerStep(s)) /\ WF_vars(Deliver(s))

FairSpec == Spec /\ Fairness

-----------------------------------------------------------------------------
(* Safety *)

\* However wants are repeated, at most one startVpnForProduct of an instance is past its
\* busy guard, and the instance's startInProgress says exactly whether one is.
StartExclusive ==
    /\ \A s, t \in Slots :
           Starting(s) /\ Starting(t) /\ handler[s].inst = handler[t].inst => s = t
    /\ \A i \in Instances :
           startInProgress[i] <=> \E s \in Slots : Starting(s) /\ handler[s].inst = i

\* At most one handler of an instance awaits vpnConnection.destroy(), whichever of the
\* four callers of destroyVpn it is, and destroyInProgress says exactly whether one does.
DestroyExclusive ==
    /\ \A s, t \in Slots :
           Destroying(s) /\ Destroying(t) /\ handler[s].inst = handler[t].inst => s = t
    /\ \A i \in Instances :
           destroyInProgress[i] <=> \E s \in Slots : Destroying(s) /\ handler[s].inst = i

\* While an instance of the extension exists, a persisted snapshot that claims a
\* connected VPN or a running core is backed by a core that runs, also when a start
\* outlives the instance it was begun in; and the snapshot names the profile the core
\* runs, unless a start was taken up while an unfinished one, outliving its instance,
\* was for another profile.  The proxy selection and latency handlers rely on it when
\* they compare activeProfileId (reconcilePersistedRuntimeState, the order of writes in
\* startVpnForProduct).
RunningClaimBacked ==
    ext /\ ClaimsRunning(snap) =>
        /\ coreProfile # NoProfile
        /\ ~crossed => coreProfile = snap.activeProfileId

\* As long as no start was in progress together with a teardown or with another start,
\* a settled extension that reports connected has its tunnel up, whichever instance
\* brought it up.
ConnectedIsTruthful ==
    ext /\ Quiet /\ ~overlapped /\ snap.runtimeState = "connected" => tunnel

\* Without such an overlap a traffic timer samples only for an instance that holds a
\* connection with a tun fd: every teardown of the instance stops it (stopTrafficPolling
\* in destroyVpn), onDestroy does not.  A timer of the process's first instance also has
\* the tunnel; that of a destroyed one may outlive it (README).
SamplingOnlyConnected ==
    \A i \in Instances :
        trafficTimer[i] /\ ~overlapped =>
            vpnConnection[i] /\ tunFd[i] /\ (inst = 1 => tunnel)

\* Once the extension has settled after a disconnect, with no later command, it does
\* not report connected.
StopIsFinal ==
    Quiet /\ wants = <<>> /\ lastCmd = "disconnect" => snap.runtimeState # "connected"

(* The strengthening that makes them inductive *)

\* Each instance after the first is counted by a fault.
InstancesCounted == inst <= faults + 1 /\ faults <= MaxFaults

\* A start knows its profile, and once it has started the core, a core runs.
StartKnowsProfile ==
    \A s \in Slots :
        /\ Starting(s) => handler[s].profileId \in Profiles
        /\ handler[s].pc = "select" => coreProfile # NoProfile

\* A connect() in progress is for a profile.
RequestNamesProfile == ui = "ack1" => reqProfile \in Profiles

\* Unless starts of two profiles have crossed: unfinished starts are for one profile,
\* which a claim in the snapshot names and the core they started runs.
StartsAgree ==
    ~crossed =>
        /\ \A s, t \in Slots :
               handler[s].pc \in EarlyPcs /\ handler[t].pc \in EarlyPcs
                   => handler[s].profileId = handler[t].profileId
        /\ \A s \in Slots :
               /\ handler[s].pc \in EarlyPcs /\ ClaimsRunning(snap)
                      => handler[s].profileId = snap.activeProfileId
               /\ handler[s].pc = "select" => handler[s].profileId = coreProfile

\* ... and a claim never names a profile other than the one a running core runs, also
\* while no instance exists to check it.
ClaimNamesCore ==
    ~crossed /\ ClaimsRunning(snap) /\ coreProfile # NoProfile
        => coreProfile = snap.activeProfileId

IInv ==
    /\ TypeOK /\ InstancesCounted /\ StartExclusive /\ DestroyExclusive
    /\ RequestNamesProfile /\ StartKnowsProfile /\ StartsAgree /\ ClaimNamesCore
    /\ RunningClaimBacked

(* Liveness *)

\* connect() and disconnect() return: whatever the extension does or fails to do, the UI
\* gets its buttons back (timeouts of waitForConnectRequestState and disconnect), unless
\* the app itself is killed.
UiReturns == (ui \notin {"idle", "dead"}) ~> (ui \in {"idle", "dead"})

\* A disconnect the extension took up brings the tunnel down, also when it overlaps a
\* start that goes on to create one.
DisconnectTearsDown == (\E s \in Slots : handler[s].pc = "stopExt") ~> ~tunnel

=============================================================================
