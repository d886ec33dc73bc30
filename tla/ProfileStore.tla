---------------------------- MODULE ProfileStore ----------------------------
(* The profile list, the YAML files of the profiles and subscription updates. *)
(*                                                                            *)
(* Sources: ConfigService.ets, SubscriptionService.ets, the profile handlers  *)
(* of Index.ets, ensureProductRuntimeReady of MihomoPocVpnAbility.ets.        *)
(*                                                                            *)
(* The UI process runs a synchronous section as a sequence of file writes:    *)
(* nothing of the UI comes in between, but the process can be killed, a write *)
(* can fail, and the VPN extension reads and writes the same files.  The only *)
(* await during which other UI code runs is the download of an update (the    *)
(* validation resolves before the event loop turns).                          *)
(*                                                                            *)
(* A YAML text is a member of Contents; a runtime YAML is named by the text it*)
(* was generated from (settings only parametrise it and are left out).        *)
(* switchProfile and reset are refused while the page shows the VPN as active;*)
(* what it shows may be stale, so the model does not rely on it.              *)
(* Left out: names, times and the download metadata of a profile, temporary   *)
(* files, the debug commands setDefaultConfig and setInvalidConfig.           *)
EXTENDS Integers, Sequences, FiniteSets

CONSTANTS
    Profiles,    \* profile ids; an id (a time and a random number) is never reused
    Contents,    \* validated YAML texts
    DefaultRaw,  \* DEFAULT_RAW_CONFIG
    Updates,     \* slots for the updates in flight
    None,        \* a missing file; no profile
    Torn,        \* a file that was truncated and not yet written
    Corrupt,     \* a profiles.json that does not parse
    Faults,      \* subset of {"uiKill", "extKill", "corrupt", "writeFails"}
    MaxFaults,
    MaxOps,      \* bound on the user's operations
    MaxStarts    \* bound on the extension's loads

ASSUME StoreConstants ==
    /\ IsFiniteSet(Profiles)
    /\ DefaultRaw \in Contents
    /\ None \notin Profiles \cup Contents
    /\ Torn \notin Contents \cup {None}
    /\ MaxOps \in Nat /\ MaxFaults \in Nat /\ MaxStarts \in Nat

VARIABLES
    main, bak,      \* profiles.json and profiles.json.bak
    raw, runtime,   \* the YAML files of every profile
    selections,     \* the profiles with an entry in the proxy selections
    kind,           \* Profile.type, "none" for an id not yet made
    todo,           \* writes left of the synchronous section that is running
    after,          \* what the section calls once they are done
    commit,         \* the update whose result the section stores
    updates,        \* updates that wait for their download
    subBusy,        \* @State subBusy
    ext,            \* the extension: loadProfilesState, ensureProductRuntimeReady
    ops, starts, faults,
    \* History, not in the code:
    saved,          \* the list of the last saveProfilesState that completed
    attempted,      \* lists of the saves begun since
    deleted,        \* profiles a completed save has removed
    erased,         \* profiles whose deleteProfile ran to its end
    held,           \* profiles removed while an update or the extension used them
    cut,            \* profiles whose two YAML files were not written as one
    resetting,      \* resetAllConfiguration has begun and has not completed
    overlapped      \* a section of the UI and a recovery by the extension overlapped

files == <<main, bak, raw, runtime, selections>>
section == <<todo, after, commit>>
history == <<saved, attempted, deleted, erased, held, cut, resetting, overlapped>>
vars == <<files, kind, section, updates, subBusy, ext, ops, starts, faults, history>>

Lists == [active : Profiles \cup {None}, listed : SUBSET Profiles, flagged : SUBSET Profiles]
ListFiles == Lists \cup {None, Corrupt}
Empty == [active |-> None, listed |-> {}, flagged |-> {}]

\* A file that is missing or damaged is told from a list.
ASSUME StoreMarks == None \notin Lists /\ Corrupt \notin Lists

\* Writes of list files with lists in L, and of the other files.
WritesOf(L) ==
    [file : {"main"}, key : {None}, value : L \cup {None}]
        \cup [file : {"bak"}, key : {None}, value : L]
        \cup [file : {"raw", "runtime"}, key : Profiles, value : Contents \cup {None, Torn}]
        \cup [file : {"selections"}, key : Profiles \cup {None}, value : {None}]

\* An update: its profile, whether it has just been added, and the flags of the object it
\* has read ({p} or nothing).
Jobs == [p : Profiles, op : {"download", "refresh"}, flag : SUBSET Profiles]
NoExt == [st |-> "idle", p |-> None, seen |-> None, copy |-> Empty, touched |-> {}]
Nothing == [op |-> "none", p |-> None]

StoreFlagsOK == subBusy \in BOOLEAN /\ resetting \in BOOLEAN /\ overlapped \in BOOLEAN

TypeOK ==
    /\ main \in ListFiles /\ bak \in Lists \cup {None}
    /\ raw \in [Profiles -> Contents \cup {None, Torn}]
    /\ runtime \in [Profiles -> Contents \cup {None, Torn}]
    /\ selections \in SUBSET Profiles
    /\ kind \in [Profiles -> {"none", "local", "subscription"}]
    /\ todo \in Seq(WritesOf(Lists))
    /\ after \in [op : {"none", "activate", "delete", "download", "refresh"},
                  p : Profiles \cup {None}]
    /\ after.op # "none" => after.p \in Profiles
    /\ commit \in Jobs \cup {None}
    /\ updates \in [Updates -> Jobs \cup {None}]
    /\ ext \in [st : {"idle", "recover", "prepare", "write", "launch"},
                p : Profiles \cup {None}, seen : Contents \cup {None, Torn},
                copy : Lists, touched : SUBSET Profiles]
    /\ ext.st \in {"prepare", "write", "launch"} => ext.p \in Profiles
    /\ ops \in 0..MaxOps /\ starts \in 0..MaxStarts /\ faults \in 0..MaxFaults
    /\ saved \in Lists /\ attempted \in SUBSET Lists
    /\ deleted \in SUBSET Profiles /\ erased \in SUBSET Profiles
    /\ held \in SUBSET Profiles /\ cut \in SUBSET Profiles
    /\ StoreFlagsOK

\* Any installation that is at rest, a fresh one included.
Init ==
    \E list \in Lists :
        /\ IF list.listed = {} THEN list.active = None ELSE list.active \in list.listed
        /\ list.flagged = list.listed \cap {list.active}
        /\ main \in (IF list = Empty THEN {None} ELSE {list}) /\ bak = main /\ saved = list
        /\ kind \in [Profiles -> {"none", "local", "subscription"}]
        /\ \A p \in Profiles : kind[p] = "none" <=> p \notin list.listed
        /\ raw = [p \in Profiles |-> IF p \in list.listed THEN DefaultRaw ELSE None]
        /\ runtime = raw /\ selections = list.listed
        /\ todo = <<>> /\ after = Nothing /\ commit = None
        /\ updates = [u \in Updates |-> None] /\ subBusy = FALSE
        /\ ext = NoExt /\ ops = 0 /\ starts = 0 /\ faults = 0
        /\ attempted = {} /\ deleted = {} /\ erased = {}
        /\ held = {} /\ cut = {} /\ resetting = FALSE /\ overlapped = FALSE

-----------------------------------------------------------------------------
(* The list on disk *)

Readable(f) == f \notin {None, Corrupt}

Write(f, k, v) == [file |-> f, key |-> k, value |-> v]

\* Mutant: the backup is written in place.
saveProfilesState_InPlace(list) ==
    <<Write("main", None, list), Write("bak", None, Torn), Write("bak", None, list)>>

saveProfilesState(list) == <<Write("main", None, list), Write("bak", None, list)>>

\* Mutant: a damaged profiles.json is replaced by an empty list.
loadProfilesState_NoBackup == IF Readable(main) THEN main ELSE Empty

\* The list loadProfilesState returns.
loadProfilesState ==
    IF Readable(main) THEN main ELSE IF Readable(bak) THEN bak ELSE Empty

\* What it writes before it returns: a damaged file is moved aside and the backup, or
\* an empty list, takes its place.
Recovery ==
    IF Readable(main) THEN <<>>
    ELSE (IF main = Corrupt THEN <<Write("main", None, None)>> ELSE <<>>)
           \o IF Readable(bak) THEN <<Write("main", None, loadProfilesState)>>
                               ELSE saveProfilesState(loadProfilesState)

\* Load, change, save.
Save(list) == Recovery \o saveProfilesState(list)

Listed == loadProfilesState.listed

-----------------------------------------------------------------------------
(* The synchronous sections of the UI process *)

Idle == todo = <<>> /\ after = Nothing

UserOp == Idle /\ ops < MaxOps /\ ops' = ops + 1

\* A section begins: its writes are queued.
Begin(writes, then) ==
    /\ todo' = writes /\ after' = then
    /\ UNCHANGED <<files, ext, starts, faults>>
    /\ UNCHANGED <<saved, attempted, deleted, erased, held, overlapped>>

Quiet == UNCHANGED <<kind, commit, updates, subBusy, cut, resetting>>

Fresh(p) == kind[p] = "none"

\* The first profile is active from the start.
createLocalProfile(p, c) ==
    LET list == loadProfilesState
        first == IF list.listed = {} THEN {p} ELSE {}
    IN  Recovery
          \o <<Write("raw", p, c), Write("runtime", p, c)>>
          \o saveProfilesState([active |-> IF list.listed = {} THEN p ELSE list.active,
                                listed |-> list.listed \cup {p},
                                flagged |-> list.flagged \cup first])

\* Index.createLocalProfile, importLocalProfileFromFile
CreateLocal(p, c) ==
    /\ UserOp /\ Fresh(p)
    /\ kind' = [kind EXCEPT ![p] = "local"]
    /\ Begin(createLocalProfile(p, c), [op |-> "activate", p |-> p])
    /\ UNCHANGED <<commit, updates, subBusy, cut, resetting>>

\* setActiveProfile
Activated(p) == [loadProfilesState EXCEPT !.active = p, !.flagged = {p}]

\* Index.switchProfile
Switch(p) ==
    /\ UserOp /\ p \in Listed /\ p # loadProfilesState.active
    /\ Begin(Save(Activated(p)), Nothing)
    /\ Quiet

\* A missing raw YAML is replaced by the default, a missing runtime YAML is generated.
duplicateProfile(q, p) ==
    LET list == loadProfilesState
        content == IF raw[q] = None THEN DefaultRaw ELSE raw[q]
    IN  Recovery
          \o <<Write("raw", p, Torn), Write("raw", p, content), Write("runtime", p, Torn),
               Write("runtime", p, IF runtime[q] = None THEN content ELSE runtime[q])>>
          \o saveProfilesState([list EXCEPT !.listed = @ \cup {p}])

\* Index.duplicateProfile.  A copy made of files that do not belong together, or that
\* the extension is writing, is no better than its source.
Duplicate(q, p) ==
    /\ UserOp /\ q \in Listed /\ Fresh(p)
    /\ kind' = [kind EXCEPT ![p] = kind[q]]
    /\ cut' = IF q \in cut \/ ext.p = q THEN cut \cup {p} ELSE cut
    /\ Begin(duplicateProfile(q, p), Nothing)
    /\ UNCHANGED <<commit, updates, subBusy, resetting>>

\* Mutant: deleteProfile does not look at activeProfileId.
CanDelete_Active(p) == p \in Listed

CanDelete(p) == p \in Listed /\ p # loadProfilesState.active

\* Mutant: the files go before the list is saved.
DeleteWrites_FilesFirst(p) ==
    LET list == loadProfilesState
    IN  Recovery
          \o <<Write("raw", p, None), Write("runtime", p, None)>>
          \o saveProfilesState([list EXCEPT !.listed = @ \ {p},
                                            !.flagged = @ \cap {list.active}])
          \o <<Write("selections", p, None)>>

\* deleteProfile: the list, then the files, then the selections.
DeleteWrites(p) ==
    LET list == loadProfilesState
    IN  Save([list EXCEPT !.listed = @ \ {p}, !.flagged = @ \cap {list.active}])
          \o <<Write("raw", p, None), Write("runtime", p, None), Write("selections", p, None)>>

\* Index.deleteProfile
Delete(p) ==
    /\ UserOp /\ CanDelete(p)
    /\ Begin(DeleteWrites(p), Nothing)
    /\ Quiet

\* Mutant: saveRawYaml writes the files of a profile the list does not hold.
Savable_Any(p) == kind[p] # "none"

\* saveRawYaml: getProfile finds it.
Savable(p) == p \in Listed

\* A text that validates replaces both files, then the metadata.
saveRawYaml(p, c) ==
    Recovery \o <<Write("raw", p, c), Write("runtime", p, c)>>
             \o saveProfilesState(loadProfilesState)

\* Index.saveConfig
SaveConfig(p, c) ==
    /\ UserOp /\ Savable(p)
    /\ Begin(saveRawYaml(p, c), Nothing)
    /\ Quiet

\* Index.updateSettings, rebuildActiveRuntimeYaml: not an atomic write.
UpdateSettings ==
    LET p == loadProfilesState.active
    IN  /\ UserOp /\ p # None /\ raw[p] # None
        /\ Begin(Recovery \o <<Write("runtime", p, Torn), Write("runtime", p, raw[p])>>, Nothing)
        /\ Quiet

\* resetAllConfiguration deletes the files of every listed profile, the list, the
\* selections, and saves an empty list.  The order of the files is immaterial.
ResetWrites(seq) ==
    Recovery
      \o [i \in 1..2 * Len(seq) |->
            Write(IF i % 2 = 1 THEN "raw" ELSE "runtime", seq[(i + 1) \div 2], None)]
      \o <<Write("main", None, None), Write("selections", None, None)>>
      \o saveProfilesState(Empty)

Reset ==
    /\ UserOp
    /\ \E seq \in [1..Cardinality(Listed) -> Listed] :
           /\ \A i, j \in DOMAIN seq : seq[i] = seq[j] => i = j
           /\ Begin(ResetWrites(seq), Nothing)
    /\ resetting' = TRUE
    /\ UNCHANGED <<kind, commit, updates, subBusy, cut>>

\* Index.reloadProfiles
Reload ==
    /\ Idle /\ ~Readable(main)
    /\ Begin(Recovery, Nothing)
    /\ Quiet /\ UNCHANGED ops

-----------------------------------------------------------------------------
(* Subscription updates *)

createSubscriptionProfile(p) ==
    LET list == loadProfilesState IN Save([list EXCEPT !.listed = @ \cup {p}])

\* Index.addSubscription: the profile is listed before anything is downloaded.
AddSubscription(p) ==
    /\ UserOp /\ ~subBusy /\ subBusy' = TRUE /\ Fresh(p)
    /\ \E u \in Updates : updates[u] = None
    /\ kind' = [kind EXCEPT ![p] = "subscription"]
    /\ Begin(createSubscriptionProfile(p), [op |-> "download", p |-> p])
    /\ UNCHANGED <<commit, updates, cut, resetting>>

\* Index.refreshSubscription, from the profile's sheet whatever subBusy says.
Refresh(p) ==
    /\ UserOp /\ p \in Listed /\ kind[p] = "subscription"
    /\ \E u \in Updates : updates[u] = None
    /\ subBusy' = TRUE
    /\ Begin(Recovery, [op |-> "refresh", p |-> p])
    /\ UNCHANGED <<kind, commit, updates, cut, resetting>>

\* Mutant: updateProfile appends a profile the list has lost.
updateProfile_Appends(job) ==
    LET list == loadProfilesState
    IN  [list EXCEPT !.listed = @ \cup {job.p}, !.flagged = (@ \ {job.p}) \cup job.flag]

\* updateProfile: the object that was read before the download replaces the listed one.
updateProfile(job) ==
    LET list == loadProfilesState
    IN  [list EXCEPT !.flagged = (@ \ {job.p}) \cup (job.flag \cap list.listed)]

Ends(u) ==
    /\ Idle /\ updates[u] # None
    /\ updates' = [updates EXCEPT ![u] = None] /\ subBusy' = FALSE
    /\ UNCHANGED <<kind, ops, cut, resetting>>

\* recordFailure: only the metadata changes.
recordFailure(job) == Save(updateProfile(job))

\* addSubscriptionAndUpdate: a new profile is made the active one, or deleted.
Then(op, job) == IF job.op = "download" THEN [op |-> op, p |-> job.p] ELSE Nothing

\* Mutant: the runtime YAML is left to the next start.
Replace_RawOnly(p, c) == <<Write("raw", p, c)>>

\* update: the two renames.
Replace(p, c) == <<Write("raw", p, c), Write("runtime", p, c)>>

\* A download that validates: both files are replaced, then the metadata; a new profile
\* is made the active one.
DownloadOk(u, c) ==
    LET job == updates[u]
    IN  /\ Ends(u) /\ commit' = job
        /\ Begin(Replace(job.p, c) \o Save(updateProfile(job)), Then("activate", job))

\* 304: the metadata only.
DownloadNotModified(u) ==
    LET job == updates[u]
    IN  /\ Ends(u) /\ commit' = job
        /\ Begin(Save(updateProfile(job)), Then("activate", job))

\* A bad redirect, a status, an empty, too large or invalid body, an exception.
DownloadFails(u) ==
    LET job == updates[u]
    IN  /\ Ends(u) /\ commit' = None
        /\ Begin(recordFailure(job), Then("delete", job))

-----------------------------------------------------------------------------
(* The file system, step by step *)

ListedIn(f) == IF Readable(f) THEN f.listed ELSE {}

InUse(p) == (\E u \in Updates : updates[u] # None /\ updates[u].p = p) \/ ext.p = p

\* The next write of the section that is running.
WriteNext ==
    LET w == Head(todo)
        store(f, files_) == IF w.file = f THEN [files_ EXCEPT ![w.key] = w.value] ELSE files_
    IN  /\ todo # <<>>
        /\ todo' = Tail(todo)
        /\ main' = IF w.file = "main" THEN w.value ELSE main
        /\ bak' = IF w.file = "bak" THEN w.value ELSE bak
        /\ raw' = store("raw", raw) /\ runtime' = store("runtime", runtime)
        /\ selections' = IF w.file # "selections" THEN selections
                         ELSE IF w.key = None THEN {} ELSE selections \ {w.key}
        /\ commit' = IF Len(todo) = 1 THEN None ELSE commit
        /\ ext' = [ext EXCEPT !.touched =
                       IF w.file \in {"raw", "runtime"} /\ w.key = ext.p THEN {w.key} ELSE @]
        /\ saved' = IF w.file = "bak" THEN w.value ELSE saved
        /\ attempted' = CASE w.file = "bak" -> {}
                          [] w.file = "main" /\ Readable(w.value) -> attempted \cup {w.value}
                          [] OTHER -> attempted
        /\ deleted' = IF w.file = "bak"
                        THEN deleted \cup (saved.listed \ ListedIn(w.value)) ELSE deleted
        /\ erased' = IF w.file = "selections" /\ w.key # None THEN erased \cup {w.key} ELSE erased
        /\ held' = IF w.file = "main"
                     THEN held \cup {p \in Profiles : InUse(p) /\ p \notin ListedIn(w.value)}
                     ELSE held
        /\ resetting' = (resetting /\ ~(w.file = "bak" /\ w.value = Empty))
        /\ overlapped' = (overlapped \/ (w.file \in {"main", "bak"} /\ ext.st = "recover"))
        /\ UNCHANGED <<kind, after, updates, subBusy, ops, starts, faults, cut>>

\* The section goes on with setActiveProfile or deleteProfile, or with update, which keeps
\* the profile object it reads, its active flag included, across the download.
Continue ==
    LET p == after.p
    IN  /\ todo = <<>> /\ after # Nothing
        /\ \/ /\ after.op = "activate"
              /\ Begin(IF p \in Listed THEN Save(Activated(p)) ELSE Recovery, Nothing)
              /\ UNCHANGED <<updates, subBusy>>
           \/ /\ after.op = "delete"
              /\ Begin(IF CanDelete(p) THEN DeleteWrites(p) ELSE Recovery, Nothing)
              /\ UNCHANGED <<updates, subBusy>>
           \/ /\ after.op \in {"download", "refresh"}
              /\ Begin(Recovery, Nothing)
              /\ IF p \in Listed THEN UNCHANGED subBusy ELSE subBusy' = FALSE
              /\ \E u \in Updates :
                     /\ updates[u] = None
                     /\ updates' = IF p \in Listed
                          THEN [updates EXCEPT ![u] = [p |-> p, op |-> after.op,
                                                       flag |-> {p} \cap loadProfilesState.flagged]]
                          ELSE updates
        /\ UNCHANGED <<kind, commit, ops, cut, resetting>>

-----------------------------------------------------------------------------
(* The extension process *)

ExtFrame ==
    /\ UNCHANGED <<raw, selections, kind, section, updates, subBusy, ops, faults>>
    /\ UNCHANGED <<saved, attempted, deleted, erased, held, resetting>>

\* The UI has written the files of the profile that is being started.
Touched == ext.touched # {}

ExtBegins == ext.st = "idle" /\ starts < MaxStarts /\ starts' = starts + 1

\* runProductStart finds the profile of the want; ensureProductRuntimeReady reads its raw
\* YAML, which must not be empty.
ExtRead(p) ==
    /\ ExtBegins /\ Readable(main) /\ p \in main.listed /\ raw[p] # None
    /\ ext' = [ext EXCEPT !.st = "prepare", !.p = p, !.seen = raw[p]]
    /\ UNCHANGED <<main, bak, runtime, cut, overlapped>> /\ ExtFrame

\* loadProfilesState in the extension reads the backup (without one there is no profile
\* it could have been asked to start) ...
ExtRecoverRead ==
    /\ ExtBegins /\ ~Readable(main) /\ Readable(bak)
    /\ ext' = [ext EXCEPT !.st = "recover", !.copy = loadProfilesState]
    /\ UNCHANGED <<main, bak, runtime, cut, overlapped>> /\ ExtFrame

\* ... and puts it in the place of profiles.json.
ExtRecover ==
    /\ ext.st = "recover" /\ ext' = NoExt
    /\ main' = ext.copy
    /\ overlapped' = (overlapped \/ todo # <<>>)
    /\ UNCHANGED <<bak, runtime, cut, starts>> /\ ExtFrame

\* ensureProductRuntimeReady writes the runtime YAML with writeTextFile.
ExtTruncate ==
    /\ ext.st = "prepare" /\ ext' = [ext EXCEPT !.st = "write"]
    /\ runtime' = [runtime EXCEPT ![ext.p] = Torn]
    /\ UNCHANGED <<main, bak, cut, overlapped, starts>> /\ ExtFrame

\* Mutant: an existing runtime YAML is used as it is.
ExtWrite_KeepsExisting ==
    /\ ext.st = "prepare" /\ ext' = [ext EXCEPT !.st = "launch"]
    /\ runtime' = [runtime EXCEPT ![ext.p] = IF @ = None THEN ext.seen ELSE @]
    /\ cut' = IF Touched THEN cut \cup {ext.p} ELSE cut
    /\ UNCHANGED <<main, bak, overlapped, starts>> /\ ExtFrame

\* If the UI has put another file at the path since, the text may go to the one that is
\* no longer there.
ExtWrite ==
    /\ ext.st = "write" /\ ext' = [ext EXCEPT !.st = "launch"]
    /\ \/ runtime' = [runtime EXCEPT ![ext.p] = ext.seen]
       \/ Touched /\ UNCHANGED runtime
    /\ cut' = IF Touched THEN cut \cup {ext.p} ELSE cut
    /\ UNCHANGED <<main, bak, overlapped, starts>> /\ ExtFrame

\* The core has read the file.
ExtLaunched ==
    /\ ext.st = "launch" /\ ext' = NoExt
    /\ UNCHANGED <<main, bak, runtime, cut, overlapped, starts>> /\ ExtFrame

-----------------------------------------------------------------------------
(* Faults *)

Fault(f) == f \in Faults /\ faults < MaxFaults /\ faults' = faults + 1

\* Profiles with a YAML file the section has not written yet.
Pending == {todo[i].key : i \in {j \in DOMAIN todo : todo[j].file \in {"raw", "runtime"}}}

UiKill ==
    /\ Fault("uiKill")
    /\ todo' = <<>> /\ after' = Nothing /\ commit' = None
    /\ updates' = [u \in Updates |-> None] /\ subBusy' = FALSE
    /\ cut' = cut \cup Pending
    /\ UNCHANGED <<files, kind, ext, ops, starts>>
    /\ UNCHANGED <<saved, attempted, deleted, erased, held, resetting, overlapped>>

ExtKill ==
    /\ Fault("extKill") /\ ext.st # "idle" /\ ext' = NoExt
    /\ cut' = IF ext.st = "write" THEN cut \cup {ext.p} ELSE cut
    /\ UNCHANGED <<files, kind, section, updates, subBusy, ops, starts>>
    /\ UNCHANGED <<saved, attempted, deleted, erased, held, resetting, overlapped>>

CorruptMain ==
    /\ Fault("corrupt") /\ Readable(main) /\ main' = Corrupt
    /\ UNCHANGED <<bak, raw, runtime, selections, kind, section, updates, subBusy, ext>>
    /\ UNCHANGED <<ops, starts, history>>

\* A write throws and the section ends.  update catches it and records the failure;
\* recordFailure ignores it.
WriteFails ==
    /\ Fault("writeFails") /\ todo # <<>> /\ Head(todo).value # None
    /\ cut' = cut \cup Pending
    /\ IF commit = None
         THEN todo' = <<>> /\ after' = IF after.op = "delete" THEN after ELSE Nothing
         ELSE todo' = recordFailure(commit) /\ after' = Then("delete", commit)
    /\ commit' = None
    /\ subBusy' = (subBusy /\ after.op \notin {"download", "refresh"})
    /\ UNCHANGED <<files, kind, updates, ext, ops, starts>>
    /\ UNCHANGED <<saved, attempted, deleted, erased, held, resetting, overlapped>>

-----------------------------------------------------------------------------
(* Specification *)

UserNext ==
    \/ \E p \in Profiles, c \in Contents : CreateLocal(p, c) \/ SaveConfig(p, c)
    \/ \E p \in Profiles : Switch(p) \/ Delete(p) \/ AddSubscription(p) \/ Refresh(p)
    \/ \E q, p \in Profiles : Duplicate(q, p)
    \/ UpdateSettings \/ Reset

UpdateNext ==
    \/ \E u \in Updates, c \in Contents : DownloadOk(u, c)
    \/ \E u \in Updates : DownloadNotModified(u) \/ DownloadFails(u)

ExtNext ==
    \/ \E p \in Profiles : ExtRead(p)
    \/ ExtRecoverRead \/ ExtRecover \/ ExtTruncate \/ ExtWrite \/ ExtLaunched

FaultNext == UiKill \/ ExtKill \/ CorruptMain \/ WriteFails

Next == UserNext \/ UpdateNext \/ Reload \/ WriteNext \/ Continue \/ ExtNext \/ FaultNext

Spec == Init /\ [][Next]_vars

-----------------------------------------------------------------------------
(* Properties *)

WellFormed(list) == list.active \in list.listed \cup {None} /\ list.flagged \subseteq list.listed

\* The active profile is one of the list, in profiles.json and in its backup: across
\* deletions, updates that write back what they read before the download, and recovery.
ActiveListed == \A f \in {main, bak} : Readable(f) => WellFormed(f)

\* The strengthening that makes it inductive: every list on its way to a file is well
\* formed too, in the writes of the running section and in the extension's copy.
GoodLists == {list \in Lists : WellFormed(list)}

StoreInv ==
    /\ TypeOK
    /\ main \in GoodLists \cup {None, Corrupt} /\ bak \in GoodLists \cup {None}
    /\ todo \in Seq(WritesOf(GoodLists)) /\ ext.copy \in GoodLists

\* What a reader gets is the list of the last completed saveProfilesState, or of one that
\* was begun since: no kill, failed write or damaged profiles.json brings back an older
\* list or loses it (loadProfilesState, main before backup).
ListSurvives == ~overlapped => loadProfilesState \in {saved} \cup attempted

\* A profile that a completed save has removed is never listed again, although updates
\* keep their copy of it across the download (updateProfile replaces, never adds).
DeletedStaysDeleted == ~overlapped => deleted \cap Listed = {}

\* deleteProfile leaves neither YAML file nor selection behind, unless an update or the
\* extension was using the profile when it went.
DeletedLeavesNothing ==
    ~overlapped =>
        \A p \in erased \ held : raw[p] = None /\ runtime[p] = None /\ p \notin selections

\* A local profile that profiles.json or its backup lists has both YAML files: createLocal
\* writes them before the list, deleteProfile after it, whenever the process is killed.
\* (resetAllConfiguration gives no such guarantee until it completes.)
LocalsHaveFiles ==
    ~overlapped /\ ~resetting =>
        \A f \in {main, bak} : Readable(f) =>
            \A p \in f.listed : kind[p] = "local" => raw[p] # None /\ runtime[p] # None

\* Between sections the runtime YAML of a profile is generated from its raw YAML, unless
\* a section was cut short between the two files or the two processes wrote them at once.
RuntimeFollowsRaw ==
    todo = <<>> =>
        \A p \in Profiles \ cut :
            raw[p] # None /\ ~(ext.st = "write" /\ ext.p = p) => runtime[p] = raw[p]

\* The core reads the runtime YAML of the raw YAML that is stored, whatever was cut short
\* before, unless the UI wrote the profile's files during the start
\* (ensureProductRuntimeReady).
LaunchUsesRaw == ext.st = "launch" /\ ~Touched => runtime[ext.p] = raw[ext.p]

=============================================================================
