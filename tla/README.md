# FluxGate: TLA+ models and proofs

FluxGate is a HarmonyOS VPN client around the mihomo proxy core. This directory
holds TLA+ models of the parts of it that carry its concurrency, TLC runs over
small instances, and TLAPS proofs for instances of any size. `PROJECT.json` maps
every definition to the lines it models.

## 1. Inventory

Two processes share files under `filesDir/mihomo/state`. The second one, the VPN
extension, holds the core as a Go library.

| component | source | state it keeps | operations | what makes it correct |
|---|---|---|---|---|
| VPN control | `runtime/VpnControlService.ets`, `VpnConnectPolicy.ets` | the connect or disconnect in progress, the background-running flag | connect (want, acknowledgement polling, one retry, give-up), disconnect (want, polling, finalisation) | returns in bounded time; a repeated want makes no second session; does not publish what it does not know |
| VPN extension | `vpnability/MihomoPocVpnAbility.ets` | `vpnConnection`, `tunFd`, `startInProgress`, `destroyInProgress`, the traffic timer, all of one ability instance | onCreate, onRequest (start, stop, latency, selectProxy), onDisconnect, onDestroy, destroyVpn | starts and teardowns exclude each other; what is persisted is backed by the core and the tunnel |
| Runtime snapshot | `runtime/RuntimeStore.ets` | `runtime.json`: state, profile, tunFd, speeds | update, resetToIdle | both processes read a consistent state; a finished session shows as finished |
| Protect bridge | `cpp/poc_napi.cpp`, `openharmony_bridge/main.go`, mihomo's `dialer` | the hook, `protectBusy`, one set of result globals, the thread-safe function | dial, protect call, callback, registration, start, stop, enable, disable | a dial that goes on has a protected socket; stop leaves no call behind; nobody waits for good |
| Core bridge | `openharmony_bridge/main.go` | `started`, `activeTunFd`, the traffic writer, `stateMu` | start, stop, delay tests, selection, traffic writer | one writer at a time, bounded stops, no lock held across a call that needs it |
| Home page | `pages/Index.ets` | the state shown, `busy` | buttons, refresh, restore after a restart | the user always has an enabled way on |
| Debug commands | `entryability/EntryAbility.ets` | - | mvp start, stop, reset | the same guards as the page |
| Traffic statistics | `runtime/TrafficStatsService.ets`, the bridge's writer | totals, the statistics file, the baseline, `traffic-daily.json` | resetBaseline, sampleAndUpdate, refreshDailySnapshot, the writer's loop | no byte is counted twice; a figure is lost only where there is no lock |
| Profile store | `config/ConfigService.ets` | `profiles.json`, raw and runtime YAML, selections | add, activate, rename, delete, select, reset | the active profile exists; the core gets the YAML that is stored |
| Subscriptions | `subscription/SubscriptionService.ets` | download temporaries, profile metadata | update | an update does not undo a concurrent deletion |
| Proxy requests | `runtime/ProxyRuntimePolicy.ets`, handlers in the extension, mihomo's selector and fallback groups | request files, latency records, the selection in the core, in its cache and on disk | latency, selectProxy, restoring a selection | an answer meets its own request; core and saved selection agree |
| Fake-IP pool | mihomo `component/fakeip` | two caches or a bucket, the ring's offset | Lookup, LookBack, FlushFakeIP, CloneFrom | host and address lead to each other |
| Proxy groups | mihomo `adapter/outboundgroup`, `common/singledo`, `adapter/provider` | the fastest node, the selection, the shared call, failure counters | dial, Set, Reset, health check | a dial uses a choice that is as new as the last reset; nobody waits for a check that is over |
| UDP sessions | mihomo `tunnel` | a worker queue, the NAT table, the senders | handle, send, dial, process, close | each buffer has one owner; packets keep their order |
| GeoIP, settings, validation, refresh bus, POC programs | see `PROJECT.json` | - | - | not modelled, see section 11 |

How they interact: the page calls VPN control; VPN control sends wants through the
platform (`startVpnExtensionAbility`, `stopVpnExtensionAbility`) and watches the
snapshot; the extension handles each want in an asynchronous handler, calls the
native module, and writes the snapshot; the core's goroutines call back through the
protect bridge into the extension's JavaScript thread; the bridge's writer goroutine
leaves the core's totals in a file that the extension samples.

What is hard: handlers interleave at every await of the extension; the two
processes only meet in files, so every acknowledgement is an inference and every update
of a shared file a read, a change and a replacement without a lock; wants may be
rejected, lost or late; either process may be killed; the platform ends the extension
process when it is asked to stop it; the protect call blocks a goroutine on the
JavaScript thread while the JavaScript thread may block on a mutex a worker holds; the
core's own structures are used by as many goroutines as there are connections.
The list, line by line, is under "hazards" in `PROJECT.json`.

## 2. Plan and state

| module | about | run | proved |
|---|---|---|---|
| VpnSession | both processes, wants, faults | `session_safety`, `session_live`, `stop_is_final` | types, exclusion, running claims, tunnel, timer |
| ProtectBridge | goroutines, JavaScript thread, workers | `bridge`, `late_answer` | types, protection, quiet stop, hooked dials |
| ProfileStore | profile list, YAML files, updates | `profiles` | types and all safety properties of the run |
| FakeIpPool, FakeIpMap | the pool and the table it implements | `fakeip` | types, mirrored caches, the refinement |
| ProxyGroup, ProxyHealth | url-test group over the nodes' health | `groups` | fresh and fast choices, selection, waiters |
| UdpNat | UDP sessions of one source | `udp` | types, own entries, one owner, order, replies |
| TrafficStats | writer, samples, the two files | `traffic` | never overcounts, losses, quiet snapshot |
| ProxyRequests | selections, latency tests | `requests`, `select_blocks` | types, own answers, saved selection, delays |

The MC modules add symmetry sets to these and nothing else. ProxyGroup extends
ProxyHealth; FakeIpPool instantiates FakeIpMap with a refinement mapping. Every
safety property that a passing run checks, and the refinement of FakeIpMap, is proved for all
values of the constants, `ChoiceIsFast` under the hypothesis section 7 explains. Liveness under fairness is out of the prover's reach and stays with
TLC: `WaitsEnd`, `PacketsSettle`, `RequestsSettle` and the properties of `session_live`.

## 3. VpnSession

An action is the code between two awaits of one process: JavaScript runs to
completion in between. State and code correspond as follows.

- `snap` is `RuntimeSnapshot` cut to `runtimeState`, `coreState`, `activeProfileId`
  and whether `tunFd >= 0`; `Update` is `RuntimeStore.update`, atomic here.
  `ackEvent` stands for the event `VpnConnectPolicy` looks for;
  `MisreadNames` are the profiles whose name makes `inferSource` file it as `core`.
- `ui` is where `VpnControlService` is: `UiConnect`, `UiAck`, `UiRetry`,
  `UiFailPending`, `UiFailed`, `UiBackground`, `UiDisconnect`, `UiFinalize`, and the
  throwing paths. `shown` is the state the page last rendered; its buttons guard
  `UiConnect` and `UiDisconnect`.
- `wants` and `stopRequested` are the platform (external): a want is accepted or
  rejected, delivered in order to an instance, which is created first if there is
  none; a stop request ends the instance and its process.
- `inst` numbers the instances of the ability in the extension process. The fields of
  `MihomoPocVpnAbility` (`vpnConnection`, `tunFd`, `startInProgress`,
  `destroyInProgress`, `trafficTimer`) are functions of the instance.
- `handler[s]` is one asynchronous handler of the extension, with its instance and the await it is at:
  `StartBegin` ... `StartDone`, the failure path, `StopBegin` ... `StopDone`,
  `OnDisconnect`. `destroyVpn` is shared by all callers (`BeginDestroy`,
  `SkipDestroy`, `EndDestroy`, `DestroyWaits`).
- `coreProfile` is what the Go core runs; `tunnel` is the system's tunnel, which
  outlives `onDestroy` (comment at `MihomoPocVpnAbility.ets:987`).
- `Faults`: `lost`, `reject`, `stopReject` (platform calls), `uiKill`, `vpnCrash`,
  `extDestroy` (the platform destroys the instance), `sysDisconnect`, `profileGone`.

`OnDestroy` is the platform destroying the instance while the process stays. The code
(`MihomoPocVpnAbility.ets:985`) cancels nothing: suspended handlers go on, on the fields of
their own instance, the interval timer keeps sampling, the core and the tunnel stay. The
next want creates another instance with fresh fields. `ProcessExit` (a stop carried out,
or a crash) ends all of it.

Left out here: event texts, the POC commands; latency and selection wants are in
ProxyRequests, speeds and samples in TrafficStats. Several writes of one process to the
snapshot between two awaits are one step.

### Exceptions

Two history variables name the situations in which the code gives less; both last until the
process ends.

- `overlapped`: a start was in progress together with a teardown, or with a start of another
  instance. `ConnectedIsTruthful` and `SamplingOnlyConnected` say nothing after that. Within one
  instance that is a stop or `onDisconnect` during a start; `stop_is_final` shows what it leads to.
- `crossed`: a start was taken up while an unfinished one was for another profile. Because
  `startInProgress` excludes a second start of the same instance, this needs a destroyed
  instance. `RunningClaimBacked` then only says that some core runs. It is a real exception:
  connect p1, `onDestroy` while the start awaits, connect p2 in the next instance, and the old
  start puts "connected" for p1 (line 499) over the core of p2.

A timer of a destroyed instance holds that instance's connection and tun fd, and nothing stops
it when a later instance brings the tunnel down; `SamplingOnlyConnected` therefore demands the
tunnel only in the first instance of a process.

### Runs

- `session_safety`: two profiles, one with a misread name, two requests, debug
  commands, two concurrent handlers, one fault of any kind. A connect can be sent
  twice by one request, so start, stop and start again are in reach. The hardest case,
  a start whose instance is destroyed and a start of the other profile in the next
  instance, needs two requests, two handlers and one fault. With `MisreadNames` the
  start event is filed under another source (`inferSource`) and `connect` repeats a want that
  was received: no property forbids that, `StartExclusive` says that it makes no second
  session. 1.8 million states.
- `session_live`: two requests and the faults for which the code has an answer.
  `stopReject` is left out (with `destroy()` and the stop both refused nothing is
  left that could end the tunnel), and `extDestroy` too (what the platform does with
  a pending stop of a destroyed instance is not documented).
- `stop_is_final`: refuted; see "findings" in `PROJECT.json`.

Disagreements with `mvp-01-development-plan.md` that TLC shows as quickly as
`stop_is_final`, and that no run repeats:

- line 101, the extension is the only source of truth for the running state:
  `disconnect()` writes idle itself when its deadline passes (`VpnControlService.ets:125`),
  with the tunnel possibly up.
- line 206, start, stop and destroy exclude each other: the two flags belong to an instance, so a
  start of a destroyed instance runs beside a start or a stop of the next one; a stop of the new
  instance finds no connection of its own and leaves the old instance's tunnel to the end of the process.
- line 208, every exceptional path ends in idle or error: a want that is rejected after the
  snapshot was moved to stopping (`VpnControlService.ets:112`) leaves it there until the
  page is restored.
- line 614, after a teardown `tunFd` is -1: a failed start leaves its tunFd in the snapshot
  (`MihomoPocVpnAbility.ets:514`), and the next `connect()` takes it for an acknowledgement.

Two more behaviours: `destroyVpn` may destroy the
connection with the core still running (a start that has not yet returned from
`startMihomo`), and a start want delivered after `failPendingConnect` has given up
can leave the snapshot in `starting`.

### Fairness

Weak fairness of each handler's next step (promises settle: the native calls have
time-outs, platform calls reject), of the UI's next step (its polls are bounded by
timers), of want delivery and instance creation, and of a stop the platform has
accepted. No fairness on the user, on faults or on system events. Relaunching a killed
app (`UiRestored`) is up to the user as well: `UiReturns` says that a call returns unless the
app is killed.

### Proofs (`VpnSession_proofs`)

For any profiles, handlers, bounds and faults allowed by `ConstantsAssumption`:
`TypeCorrect`, `StartsExclude`, `TeardownsExclude`, `RunningClaimsAreBacked`.
All follow from one inductive invariant, `IInv`, in three parts, each preserved by every
step given the ones before it:

- types, with `InstancesCounted` (each instance after the first is counted by a fault, so
  numbers stay below the bound) and `RequestNamesProfile` (the want that is repeated is for a profile);
- the two flags. `Follows` says that a step changes handlers and flag of an instance together
  or neither; any such step keeps both exclusions (`FollowsKeepsExcl`), and one
  lemma per kind of step shows that it is one;
- the claims. `RunningClaimBacked` is not inductive: a start writes "core running" only after
  several awaits, and may outlive its instance meanwhile. `StartKnowsProfile` says
  that a start which is through with the core has left a running one; `StartsAgree` that, unless
  starts have crossed, all unfinished starts are for one profile, which a claim and the core they
  started agree with; `ClaimNamesCore` that a claim names the profile of a running core also
  while no instance exists. A start that begins next to an older one either is for the same
  profile or sets `crossed`.

`ConnectedHasTunnel` (`ConnectedIsTruthful`) and `SamplingHasConnection`
(`SamplingOnlyConnected`) need what a start owns at each await, in its own instance. `HeldInv`
says, as long as nothing overlapped:

- `Alone`: no other start and no teardown is in progress beside a start, in any instance;
- `Born`: instances that have not existed yet have no connection, fd or timer;
- `TimersHold`: a running timer implies a connection with a tun fd that is not being destroyed;
- `StartsHold`: from `create` on a start has its connection, from `load` on its fd and the tunnel;
- `ConnectedHolds`: "connected" with a core has the tunnel.

That there is a core behind "connected" while an instance exists comes from `IInv`.

## 4. ProtectBridge

One dial per goroutine at a time (`pc`), one JavaScript thread (`js`), one worker
under `g_mihomoMutex` (`op`); `parsing` is `stateMu` held through `hub.Parse`. An
action is a lock section or a single store to one of the global atomics, because the
bridge's correctness depends on the order of those stores. Error codes are
`"failed"` or `"timeout"`. `sock` numbers a goroutine's dials, so a socket is never
reused; file descriptor reuse is not modelled. A time-out may happen at any time
while the answer is missing.

The handle `g_protectTsfn` is a flag: while `RegisterProtect` has it null a call is
refused. That the handle is read outside its mutex after having been released is
undefined behaviour of the platform and modelled only as that refusal.

- `bridge`: two goroutines with one dial each, two operations and two JavaScript-side
  calls, so that two overlapping protect calls meet a start and a stop, or a stop and a
  disable, in every order. Safety and liveness in one run. Fairness: goroutines,
  workers and a blocked JavaScript call make progress when they can. The event loop is
  *not* assumed to serve the protect queue, nor the system to settle a promise: the
  500 ms time-out exists for that.
- `late_answer`: refuted, see "findings". `HookedWhileStarted` says from when to when a
  dial is hooked, and no more can be said: between the end of `hub.Parse` and the
  installation of the hook (`main.go:529`) the core dials without one, although
  `harmonyos-mihomo-product-design.md:241` wants every outbound socket protected before it
  connects; and a dial
  that has seen the hook before `disable` calls a nil function after it
  (`socket_hook.go:19` reads the variable again), which ends the process.

### Proofs (`ProtectBridge_proofs`)

For any finite set of goroutines, any operations and bounds: `BridgeTypeCorrect`, `SuccessIsProtection`
(a dial that goes on has its own socket protected, as long as no protect call was given
up before its answer came) and `StopIsQuiet` (after stop no goroutine is inside the hook).
Neither is inductive. `BridgeInv` adds who holds the protect mutex (`MutexHeld`), that
the busy counter is the number of goroutines inside the hook (`BusyCounts`), that the
hook stays off from the moment stop has cleared it until the next start (`HookOff`), and
that the waiting call is owed exactly one answer, queued or being computed, as long as
none was late (`OneAnswer`): without it the shared result globals could be those of
another call. `DialsAreHooked` is an action property: every dial that begins between the end
of a start and the next stop or disable binds the hook, and every dial that reaches its
socket then finds it. It rests on `HookReady`: a start has a protect function before it
turns the core on, and what the hook needs is not taken away before `unhooked` is set.
`WaitsEnd` is liveness and stays with TLC.

## 5. ProfileStore

A synchronous section of the UI process is a sequence of writes, `todo`, computed from
the files it reads when it begins; `WriteNext` performs one write, `Continue` goes on
with the call that follows (`setActiveProfile`, `deleteProfile`, the start of `update`).
No other UI code runs in between, but a kill (`UiKill`), a failed write (`WriteFails`)
or a step of the extension can. A write that goes through a temporary file and a
rename is one step; `writeTextFile` truncates first and is two (`Torn`). The only await
at which the UI interleaves with itself is the download of an update: `updates` holds
the updates in flight with the profile object each has read before (`flag`).

The extension reads the list, prepares the runtime YAML of the profile it starts
(`ExtRead`, `ExtTruncate`, `ExtWrite`, `ExtLaunched`), and repairs a damaged list from
the backup (`ExtRecoverRead`, `ExtRecover`). `CorruptMain` is the damage
`loadProfilesState` is written to survive. The initial states are all installations at
rest, with any number of profiles and any of them active.

History variables (`saved`, `attempted`, `deleted`, `erased`, `held`, `cut`,
`resetting`, `overlapped`) exist only to state the properties. They also name the
situations in which the code gives no guarantee:

- `overlapped`: the extension has read the backup, the UI saves a list, the extension
  puts the older one in place. There is no lock between the processes.
- `held`: a profile deleted while an update or a start was using it gets its YAML files
  back, and nothing deletes them.
- `cut`: a section was killed between the two renames, or both processes wrote the
  runtime YAML at once. The next start regenerates it (`LaunchUsesRaw` has no such
  exception).
- `resetting`: `resetAllConfiguration` removes files before the list.

A new subscription is listed before its download. If the download fails the profile is
deleted again, unless the user has made it the active one meanwhile: it then stays,
without files.

- `profiles`: two profiles, two texts, two updates in flight, two user operations, one
  start of the extension, two faults. Two operations on top of any initial installation
  and any stage of an update cover a deletion or a switch during a download; two
  faults cover a failure during a recovery. What needs a third operation is out of this run; the theorem
  on `ActiveListed` covers it.

One more disagreement: an update of the active subscription that ends after a switch
writes the object it read before the download back, and both profiles are flagged active
(`SubscriptionService.ets:229`); `ActiveListed` therefore speaks about the active id.

Left out: names, times, download metadata, the settings that parametrise the runtime
YAML, the debug commands `setDefaultConfig` and `setInvalidConfig`, and the selections
written by the extension (see ProxyRequests).

### Proofs (`ProfileStore_proofs`)

For any finite set of profiles and any texts, updates, faults and bounds:
`StoreTypeCorrect`, `ActiveProfileListed`, `LaunchesUseRaw`, `ListsSurvive`,
`DeletedAreGone`, `RuntimesFollowRaw`, `DeletionsLeaveNothing` and `LocalsKeepFiles`. `ActiveListed` speaks about two files; a
list on its way to one of them must be good too, so `StoreInv` adds that every queued
write and the extension's recovery copy hold well-formed lists only. One group of
lemmas shows that each section, computed from any state satisfying `StoreInv`, is a
sequence of good writes (`DeleteGood` is where the check against the active profile is
needed, `UpdateGood` where an update must not flag a profile that was removed during
its download); `BeginKeeps` and `WriteNextStep` then carry the invariant.

`LaunchesUseRaw` rests on `LaunchInv`: from the moment the extension has read the raw YAML,
what it read is the stored text, and at the launch the runtime YAML is that text, unless a
section of the UI touched a file of the profile meanwhile.

`ListsSurvive` and `DeletedAreGone` share the invariant `KeptInv`, which holds as long as no
two sections overlapped. The backup is the last saved list, or missing next to an empty one;
profiles.json is missing, damaged, the last saved list or one being saved; the extension's
recovery copy is the last saved list. For the queued writes it says that a write of the
backup directly follows a write of the same list to profiles.json (`Paired`), that every
list holds only profiles which were created and not deleted (`Alive`), and that only an
empty list, saved where there was none, is followed by another list in the same section
(`Last`). With these a cut between any two writes leaves profiles.json and backup one list
apart at most. `StoreMarks` (the marks for a missing and a damaged file are not lists) is
the one assumption beyond the types of the constants.

The remaining three are about the YAML files. A section is long, but `SectionStep` reduces
each to a few shapes of queued writes, and every invariant is then shown to hold for the
shapes and to survive the removal of the first write.

- `RuntimesFollowRaw` (`FollowInv`): the queued writes leave both files of a profile alone, or
  end in a runtime YAML of the raw YAML they leave behind, or the extension is about to write
  it. That the extension writes what is stored comes from `LaunchInv`.
- `DeletionsLeaveNothing` (`GoneInv`): while a deletion is queued, `Removing` says how far it
  has come, from the list that drops the profile to the last file; afterwards the profile is
  `Absent`, which includes that no queued list, update or start could bring it back. That no list
  does so rests on `KeptInv`.
- `LocalsKeepFiles` (`StockedInv`): a queued list holds only local profiles whose files exist or
  are written before it (`Provides`), and a file is removed only after the last list that
  holds its profile (`MayDrop`). Which lists a cut can leave behind is again `KeptInv`.

## 6. FakeIpPool and FakeIpMap

The pool gives a host an address of a private range and finds the host of an address
again. A lookup holds the pool's mutex; `FlushFakeIP`, `CloneFrom` and, because every pool
uses the same bucket, another pool's lookup do not take it. A lookup is therefore four
steps (`Lookup`, `LookupGet`, `LookupPutIP`, `LookupPutHost`), one per group of store
calls, and reads `p.offset` anew in each. `kind` is the size of the memory store or `Bolt`
for the persistent one; a cache is a sequence in LRU order. `ReloadParse` ... `Publish` are
the application of a configuration (`New`, `restoreState`, `PatchFrom`, the new
`DefaultHostMapper`). `Kill` keeps the bucket only. `StoreState` is never called in this
application, so `restoreState` finds no offset and empties a bucket that contains the first
address.

`FakeIpMap` is what DNS server and tunnel rely on: a one-to-one table with atomic lookups.
`PoolIsTable` is the refinement: the table is `Pairs` of the first cache as long as no lookup is
under way, the one it had when the lookup began while it is, and `valid` is false while the
current store is `suspect`. A store becomes suspect when an unlocked step overlaps an
operation on it, a pool being cloned when the operation may have missed the copy, and
the new pool when a client gets an answer of a replaced one; a flush that overlaps nothing
heals it. In those cases host and address really come apart, in the code as in the model: the
refinement says that nothing else parts them, neither eviction, nor a full ring, nor a
restart, nor the order of two concurrent lookups. `Mirrored` is what makes eviction work:
the two caches of the memory store hold the same pairs in the same order, so that both
drop the same pair.

- `fakeip`: three hosts, three addresses, two goroutines, stores of two and three entries and
  the bucket, five operations, two events. Five operations fill the ring of three addresses,
  turn it and use the reused address; a store of two evicts before the ring turns, one of
  three does not.

Left out: ranges of several prefixes, the skip list and the host file (decided before the
pool is asked), IPv6 (a second pool of the same code), expiry (the caches have none).

### Proofs (`FakeIpPool_proofs`)

For any hosts, range, store sizes, goroutines and bounds: `PoolTypeCorrect`, `CachesMirror` and
`PoolImplementsTable`, the refinement. `PoolInv` says what the current store holds as long as
it is not suspect. At rest the first cache is one to one and the second its mirror image
(`Matching`). During a lookup, which is then the only one, the table is the one it
found less the pair whose address it takes over, and in its last stage the two caches differ by
exactly the pair it is writing (`Looking`). During a flush what is left is empty. `Cloned` says
the same of the pool being copied, which otherwise could become the current one with caches that do
not belong together. The lemmas about sequences show that reading, writing and deleting an
entry commute with `Mirror` on a one-to-one cache, evictions included: with
these each step of the pool is a step of the table under the mapping above, where `saved` is
what the abstract lookup still sees.

An operation on any pool that ends during the copying makes the copy suspect, not only one
on the pool being copied: a lookup in a pool that was replaced earlier answers a client with
a pair the copy does not know. This takes three events and is outside the bounds of `fakeip`; the
refinement proof does not go through without it.

## 7. ProxyGroup and ProxyHealth

A caller is a goroutine that dials through a url-test group; if its dial fails it becomes
the goroutine `onDialFailed` starts. `Do`, `Return`, `Store` are `singledo.Single`, whose
function runs outside its mutex (`Scan`, `Settle`: `URLTest.fast`), so that `Reset` may let a
second computation start beside the first. `ForceSet` and `ForceSetReset` are the two
statements of a selection. `CountFailure` ... `CheckResetAgain` are `onDialFailed` and
`healthCheck`, `Tick`, `CheckNode`, `CheckDone`, `CheckAges` the provider's check with its own
`singledo`. `failedTimes` is read and written without a lock where the code does so.
ProxyHealth holds what is known of the nodes; delays are `uint16` and the sum with the
tolerance wraps.

Two abstractions: the record of a test is one step although the code stores the alive flag
and the history entry one after the other, and `Scan` reads the whole list in one step. Two
facts about the code that shape the properties: the loop of `fast` that would find
`fastNode` in the list starts at the second node, so the tolerance is not applied when
`fastNode` is the first (the choice is then the fastest, which `ChoiceIsFast` allows); and two
overlapping computations share `fastNode`, so a dial may get the other's choice, never one
from before the last reset (`FreshAfterReset`).

- `groups`: two callers, two nodes, two delays further apart than the tolerance, three dials,
  three events. Two callers are enough for a waiter, a detached call and a mutex holder
  with one waiting; deadlock is checked, with `Finished` as the only state in which the
  model may stop.

### Proofs (`ProxyGroup_proofs`)

For any callers, nodes, delays and bounds: `FreshChoices`, `WaitersServed`, `FastChoices`,
`SelectionIsHonoured`. `GroupInv` says that the shared result and the shared call are never
from before the last reset (`Fresh`) and, caller by caller, that whom it waits for
is still running and that the holder of the mutex is in a check (`CallersOK`). `FastChoices` needs no behaviour, only
that the list is a sequence of nodes with delays; the least delay comes from the well-foundedness of
the natural numbers. Its assumption is needed: `delay + tolerance` is a `uint16`, and if it is exactly
65535 an alive `fastNode` that was never measured, and counts as 65535, is not given up. `SelectionInv` follows a
selection: since the reset that ended it there is nothing to join that does not lead to the selected
node (`KeptOK`), and each dial that was promised the node has it, computes it or waits for
somebody who does (`PromisesOK`).

Left out: the lazy flag, `expected-status`, the fallback, load-balance and relay groups. For
the fallback group, mihomo's `docs/config.yaml:1423` says that nodes are chosen in their order
by the test results; `findAliveProxy` returns a selected one before that.

## 8. UdpNat

The packets of one source: the worker's queue (`HandleUDPPacket`), the worker
(`GetOrCreate`, the two selects of `Send`), and per session the goroutine of `Process`
(`DialOk` ... `Write`) and the end of the session (`ReadEnds`, `DropOne` ... `Delete`). A
`select` with several ready cases takes any. `sent` is what was written to the remote
side; `released` counts how often a packet's buffer was given back. Left out: the sniffing
wrapper of a sender and origins given by host name.

The comment at `tunnel/connection.go:139` expects that a packet that was put is processed by
the other side of the channel. A `Send` whose first check precedes the close may put its packet after `Close` has
emptied the channel: that packet is never released. `PacketsSettle` excepts exactly these.

- `udp`: three packets, two origins, two targets, a queue of one and a channel of two. Three
  packets make two sessions of which the first still holds a packet when the second
  starts. Fairness: goroutines that can run do run, dials and lookups end at their
  time-outs; no packet has to arrive and no session has to end.

### Proofs (`UdpNat_proofs`)

For any number of packets, origins and targets and any capacities: `NatTypeCorrect`,
`EntriesAreOwn`, `PacketsHaveOneOwner`, `PacketsKeepOrder`, `RepliesAreMatched`. `NatInv` carries the first two: there are never
more sessions than packets taken from the queue (`Counted`), a session not yet made is as
`Init` left it (`Unmade`), worker and `Process` hold a packet exactly at the steps at which the
code has one (`WorkerHolds`, `ProcessHolds`). `OwnInv` adds that no packet occurs twice in the
queue or a channel; without it a packet could leave a sequence and still be in it. Order needs
the whole way of a packet, from the queue over worker, channel and `Process` to what was written
(`InLine`: whoever is further on came earlier), that each place is sorted (`Sorted`), and
that a session is deleted only when nobody can write to its connection (`Deletable`): that is
what keeps a session and its successor apart. For `RepliesMatch`, `MapInv` says that the two
address maps of a session agree, that `Process` is about to write where the first of them says,
and that this entry never changes once something was written by it. `PacketsSettle` is liveness and
stays with TLC.

## 9. TrafficStats

The core's total, the writer goroutine of the bridge, the extension's sampling, the page,
and the three files between them. `Open`, `Fill`, `Rename` are `writeTrafficStatsFile`;
the temporary file has one name, whoever writes. `LoadDaily`, `SaveDaily`, `LoadRuntime`,
`SaveRuntime` are the reads and replacements of `traffic-daily.json` and `runtime.json`, by
the extension (`Sample`, `ResetBaseline`, `StopPolling`, `Connect`, `Disconnect`) or by the
page (`RefreshDailySnapshot`), in any order. A disconnect stops neither the core nor the
writer: both live until the process ends or the next session replaces the writer. `Kill` is
that end. One direction is modelled, the other is handled by the same statements; the
intermediate snapshots of a start or stop are folded into one.

What the model shows of the code, beside the properties: one statistics read that fails or
is stale ends the sampling for the rest of the session, and clearing the cache can cause it;
a page that is shown resets the displayed speed; when the old writer does not end within two
seconds both share the temporary file, a torn file or an older total may be published, and
the next sample counts traffic again (`timedOut`, the exception of `NeverOvercounts`); a page
shown while the extension saves loses the sample of one process, so that
`next-stage-development-plan.md:395`, today's traffic is kept after a disconnect, holds with
the exception `LostOnlyByOverlap` names.

- `traffic`: one unit of traffic, two sessions, two events. A second session is needed for a
  second writer and for a baseline that is not zero; two events allow a stalled writer or a
  kill together with a page show or a midnight.

### Proofs (`TrafficStats_proofs`)

For any traffic, sessions and events: `TrafficNotOvercounted`, `TrafficLostOnlyByOverlap` and
`QuietWhenOver`. A sample compares the published total with the last one, so the first theorem needs
that the last total sampled, the one published, the one about to be published and the true one follow
each other (`Published`, which holds while there is a single writer), and a budget: what the
file holds, plus what is on its way to it, is covered by the traffic sampled so far
(`Covered`). `Dated` is what the second takes: an update that was not overtaken saves a later
day, or no less of the same day. `Quiet` says for the third that the page only puts back the
state it has read, and that this is the one in the file unless it was overtaken.

Left out: `resetAllConfiguration`, which removes these files; `readLiveSnapshot`, which
keeps nothing.

## 10. ProxyRequests

A selection is a request file, a want, a handler before and after its await, a worker
thread under `g_mihomoMutex`, and `MihomoOhosSelectProxy` under `stateMu`; a latency test is
a request file, a want and a handler that rewrites the records it read before its tests.
The page polls the file for its request id. `core` is the group's selected node, `cached`
the one the core's cache remembers (`store-selected` is on by default), `saved` the one on
disk. Disconnecting leaves the core running; `Start` builds new groups from the cache and
restores the saved selection. `hook` is a protect hook of any dial, which needs `stateMu`.
A time-out may strike at any moment of a wait, the requests of both kinds share one bound.

`select_blocks`: the selection of a node that a fallback group holds for dead tests it
at once, with `stateMu` held. If that test opens a socket, its protect hook locks `stateMu`
in the same goroutine and never returns, and neither does any later hook. `RequestsSettle`
excepts this case (`SelfBlocked`). The same lock is held through `hub.Parse` when a running
core is given a new configuration, and dials of that time wait for it.

`CoreUsesSaved` excepts, through `drifted`, what parts the two selections in the code: handlers
that resume in another order than the core switched, a node that has left the profile, a
fallback group that gave up a dead node, a restored selection that was refused.
`next-stage-development-plan.md:317` promises that core, shared selection and page agree,
without these exceptions. A selection
that has timed out on the page is still carried out. `DelaysAreKept` excepts a writer whose
copy of the records is outdated: such a writer does restore old delays.

- `requests`: two nodes, two groups, two requests, two events, both kinds of group. Two
  requests overlap in every way; two events are a disconnect and a start, or a kill, or
  an edit of the profile with any of them. Fairness: wants are delivered, worker threads and
  timers run, a free mutex is taken. No fairness on the user, nor on `Start`.

### Proofs (`ProxyRequests_proofs`)

For any nodes, groups, requests and events: `RequestsTypeCorrect`, `AnswersAreMine`,
`CoreFollowsSaved`, `DelaysStay`. The invariant has two halves that share only the state of the
session. `SelInv`: each mutex is held by the call that is inside (`LocksOK`), a handler answers once
and as its last step (`ResultsOK`), an answer in the file is that of the request it names
(`SelAnswersOK`). The core, its cache and the disk are related in three parts, because no step sets all of
them: the core has the node of the call that switched it last (`LatestOK`), core and cache agree up
to a test that has not ended (`CoreOK`), cache and disk agree up to a handler that has not resumed
(`SavedOK`). A start finds both mutexes free, so no such test is under way when it
builds new groups. `LatInv` says that who has read the latency records, and was
not overtaken, holds them as they are in the file (`ReadersOK`). `RequestsSettle` is
liveness and stays with TLC.

Left out: failures of the storage, `clearGeneratedCache` and the reset, which delete the
latency file.

## 11. Not modelled

- The rest of the mihomo core, about 340 000 lines: outbound protocols, listeners, rules, DNS
  transports, and the gVisor network stack with its generated state tables under
  `openharmony_shims`. It is third-party code the application uses as a library; a model of a
  part that no property of this application depends on would be a model of another project.
  What the application's own behaviour turns on is modelled: the dialer's hook, the
  application of a configuration, selections, the fake-IP pool, the url-test group with its health
  checks, and UDP sessions. The share of the repository's lines that `map` covers is small
  for this reason.
- Configuration validation: a pass over text and a native parse, without state.
- Settings: one preferences file, used by the page only.
- GeoIP installation: copied once; in VpnSession an await that succeeds or fails.
- The refresh bus: listeners called synchronously.
- The proof-of-concept programs and commands.
- The events file of the runtime store: an append-only log for display.

## 12. Reading a run

`SYMMETRY` is used for handlers (`session_safety`), profiles and update slots (`profiles`),
hosts and goroutines (`fakeip`) and callers (`groups`), never in a run with a liveness
property. Deadlock checking is off, except in `groups`: every instance is bounded (requests,
faults, dials, operations), so a behaviour ends when the bounds are used up and everything
has settled. Operators named `X_...` are plausible bugs of `X`; substituting one for
the definition it is named after makes the property listed with it fail.
`TypeOK` is proved for VpnSession, ProtectBridge, ProfileStore, FakeIpPool, UdpNat and
ProxyRequests; the proofs about ProxyGroup and TrafficStats carry the weaker types they need.
