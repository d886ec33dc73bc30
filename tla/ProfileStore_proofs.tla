------------------------- MODULE ProfileStore_proofs -------------------------
(***************************************************************************)
(* TLAPS proofs about ProfileStore: for any profiles, texts, updates,      *)
(* faults and bounds, the files keep their types, the active profile of    *)
(* profiles.json and of its backup is a listed one, a launch uses the raw  *)
(* YAML it was read from, the runtime YAML follows the raw YAML, and,      *)
(* while no two sections overlap, saved lists survive, deleted profiles    *)
(* stay deleted and leave nothing, and listed local profiles keep their    *)
(* files.                                                                  *)
(***************************************************************************)
EXTENDS ProfileStore, FiniteSetTheorems, TLAPS

USE StoreConstants

GoodWrites == WritesOf(GoodLists)
Afters == [op : {"none", "activate", "delete", "download", "refresh"},
           p : Profiles \cup {None}]

-----------------------------------------------------------------------------
(* The lists and writes of a section *)

LEMMA GoodAreLists == GoodLists \subseteq Lists /\ Empty \in GoodLists
  BY DEF GoodLists, Lists, Empty, WellFormed

LEMMA GoodWritesAreWrites == \A s \in Seq(GoodWrites) : s \in Seq(WritesOf(Lists))
<1>1. GoodWrites \subseteq WritesOf(Lists)
  BY GoodAreLists DEF GoodWrites, WritesOf
<1>2. QED
  BY <1>1

\* loadProfilesState returns a well-formed list.
LEMMA LoadedGood == ASSUME StoreInv PROVE loadProfilesState \in GoodLists
  BY GoodAreLists DEF StoreInv, loadProfilesState, Readable

LEMMA MainWrite ==
    ASSUME NEW list \in GoodLists \cup {None}
    PROVE  Write("main", None, list) \in GoodWrites
  BY DEF Write, GoodWrites, WritesOf

LEMMA BakWrite ==
    ASSUME NEW list \in GoodLists
    PROVE  Write("bak", None, list) \in GoodWrites
  BY DEF Write, GoodWrites, WritesOf

LEMMA YamlWrite ==
    ASSUME NEW f \in {"raw", "runtime"}, NEW p \in Profiles, NEW c \in Contents \cup {None, Torn}
    PROVE  Write(f, p, c) \in GoodWrites
  BY DEF Write, GoodWrites, WritesOf

LEMMA SelectionsWrite ==
    ASSUME NEW p \in Profiles \cup {None}
    PROVE  Write("selections", p, None) \in GoodWrites
  BY DEF Write, GoodWrites, WritesOf

LEMMA SaveStateGood ==
    ASSUME NEW list \in GoodLists
    PROVE  saveProfilesState(list) \in Seq(GoodWrites)
  BY MainWrite, BakWrite DEF saveProfilesState

LEMMA Concatenated ==
    ASSUME NEW S, NEW s \in Seq(S), NEW t \in Seq(S)
    PROVE  s \o t \in Seq(S)
  OBVIOUS

LEMMA RecoveryGood == ASSUME StoreInv PROVE Recovery \in Seq(GoodWrites)
<1> DEFINE aside == IF main = Corrupt THEN <<Write("main", None, None)>> ELSE <<>>
           restore == IF Readable(bak) THEN <<Write("main", None, loadProfilesState)>>
                                       ELSE saveProfilesState(loadProfilesState)
<1>1. aside \in Seq(GoodWrites)
  BY MainWrite
<1>2. restore \in Seq(GoodWrites)
  BY MainWrite, SaveStateGood, LoadedGood
<1>3. Recovery = IF Readable(main) THEN <<>> ELSE aside \o restore
  BY DEF Recovery
<1>4. aside \o restore \in Seq(GoodWrites)
  BY <1>1, <1>2, Concatenated
<1> HIDE DEF aside, restore
<1>5. QED
  BY <1>3, <1>4

LEMMA SaveGood ==
    ASSUME StoreInv, NEW list \in GoodLists
    PROVE  Save(list) \in Seq(GoodWrites)
  BY RecoveryGood, SaveStateGood, Concatenated DEF Save

\* Both files of a profile.
LEMMA YamlPair ==
    ASSUME NEW p \in Profiles,
           NEW c \in Contents \cup {None, Torn}, NEW d \in Contents \cup {None, Torn}
    PROVE  <<Write("raw", p, c), Write("runtime", p, d)>> \in Seq(GoodWrites)
  BY YamlWrite

LEMMA CreateLocalGood ==
    ASSUME StoreInv, NEW p \in Profiles, NEW c \in Contents
    PROVE  createLocalProfile(p, c) \in Seq(GoodWrites)
<1> DEFINE list == loadProfilesState
           first == IF list.listed = {} THEN {p} ELSE {}
           next == [active |-> IF list.listed = {} THEN p ELSE list.active,
                    listed |-> list.listed \cup {p}, flagged |-> list.flagged \cup first]
<1>1. list \in GoodLists
  BY LoadedGood
<1>2. next \in GoodLists
  <2> HIDE DEF list
  <2> QED BY <1>1 DEF GoodLists, Lists, WellFormed
<1>3. saveProfilesState(next) \in Seq(GoodWrites)
  BY <1>2, SaveStateGood
<1>4. Recovery \o <<Write("raw", p, c), Write("runtime", p, c)>> \in Seq(GoodWrites)
  BY RecoveryGood, YamlPair, Concatenated
<1>5. createLocalProfile(p, c) =
        Recovery \o <<Write("raw", p, c), Write("runtime", p, c)>> \o saveProfilesState(next)
  BY DEF createLocalProfile
<1> HIDE DEF next
<1>6. QED
  BY <1>3, <1>4, <1>5, Concatenated

LEMMA ActivatedGood ==
    ASSUME StoreInv, NEW p \in Profiles, p \in Listed
    PROVE  Save(Activated(p)) \in Seq(GoodWrites)
<1>1. Activated(p) \in GoodLists
  BY LoadedGood DEF Activated, Listed, GoodLists, Lists, WellFormed
<1>2. QED
  BY <1>1, SaveGood

LEMMA DuplicateGood ==
    ASSUME StoreInv, NEW q \in Profiles, NEW p \in Profiles
    PROVE  duplicateProfile(q, p) \in Seq(GoodWrites)
<1> DEFINE list == loadProfilesState
           content == IF raw[q] = None THEN DefaultRaw ELSE raw[q]
           copy == IF runtime[q] = None THEN content ELSE runtime[q]
           next == [list EXCEPT !.listed = @ \cup {p}]
           yaml == <<Write("raw", p, Torn), Write("raw", p, content),
                     Write("runtime", p, Torn), Write("runtime", p, copy)>>
<1>1. next \in GoodLists
  BY LoadedGood DEF GoodLists, Lists, WellFormed
<1>2. content \in Contents \cup {None, Torn} /\ copy \in Contents \cup {None, Torn}
  BY DEF StoreInv, TypeOK
<1>3. yaml \in Seq(GoodWrites)
  <2> HIDE DEF content, copy
  <2> QED BY <1>2, YamlWrite
<1>4. saveProfilesState(next) \in Seq(GoodWrites)
  BY <1>1, SaveStateGood
<1>5. duplicateProfile(q, p) = Recovery \o yaml \o saveProfilesState(next)
  BY DEF duplicateProfile
<1> HIDE DEF yaml, next
<1>6. QED
  BY <1>3, <1>4, <1>5, RecoveryGood, Concatenated

LEMMA DeleteGood ==
    ASSUME StoreInv, NEW p \in Profiles, CanDelete(p)
    PROVE  DeleteWrites(p) \in Seq(GoodWrites)
<1> DEFINE list == loadProfilesState
           next == [list EXCEPT !.listed = @ \ {p}, !.flagged = @ \cap {list.active}]
           gone == <<Write("raw", p, None), Write("runtime", p, None),
                     Write("selections", p, None)>>
<1>1. next \in GoodLists
  <2>1. list \in GoodLists /\ p # list.active
    BY LoadedGood DEF CanDelete
  <2> HIDE DEF list
  <2>2. next \in Lists
    BY <2>1 DEF GoodLists, Lists
  <2>3. next.active = list.active /\ next.listed = list.listed \ {p}
          /\ next.flagged = list.flagged \cap {list.active}
    BY <2>1 DEF GoodLists, Lists
  <2>4. list.flagged \cap {list.active} \subseteq list.listed \ {p}
    BY <2>1 DEF GoodLists, Lists, WellFormed
  <2>5. list.active \in (list.listed \ {p}) \cup {None}
    BY <2>1 DEF GoodLists, WellFormed
  <2> HIDE DEF next
  <2>6. QED
    BY <2>2, <2>3, <2>4, <2>5 DEF GoodLists, WellFormed
<1>2. gone \in Seq(GoodWrites)
  BY YamlWrite, SelectionsWrite
<1>3. DeleteWrites(p) = Save(next) \o gone
  BY DEF DeleteWrites
<1> HIDE DEF next, gone
<1>4. QED
  BY <1>1, <1>2, <1>3, SaveGood, Concatenated

LEMMA SaveRawGood ==
    ASSUME StoreInv, NEW p \in Profiles, NEW c \in Contents
    PROVE  saveRawYaml(p, c) \in Seq(GoodWrites)
<1>1. Recovery \o <<Write("raw", p, c), Write("runtime", p, c)>> \in Seq(GoodWrites)
  BY RecoveryGood, YamlPair, Concatenated
<1>2. saveProfilesState(loadProfilesState) \in Seq(GoodWrites)
  BY LoadedGood, SaveStateGood
<1>3. QED
  BY <1>1, <1>2, Concatenated DEF saveRawYaml

LEMMA SubscriptionGood ==
    ASSUME StoreInv, NEW p \in Profiles
    PROVE  createSubscriptionProfile(p) \in Seq(GoodWrites)
<1>1. [loadProfilesState EXCEPT !.listed = @ \cup {p}] \in GoodLists
  BY LoadedGood DEF GoodLists, Lists, WellFormed
<1>2. QED
  BY <1>1, SaveGood DEF createSubscriptionProfile

\* The object read before the download is put back only where the list still has it.
LEMMA UpdateGood ==
    ASSUME StoreInv, NEW job \in Jobs
    PROVE  Save(updateProfile(job)) \in Seq(GoodWrites)
<1>1. updateProfile(job) \in GoodLists
  BY LoadedGood DEF updateProfile, GoodLists, Lists, WellFormed, Jobs
<1>2. QED
  BY <1>1, SaveGood

LEMMA ResetGood ==
    ASSUME StoreInv, NEW n \in Nat, NEW seq \in [1..n -> Profiles], Len(seq) = n
    PROVE  ResetWrites(seq) \in Seq(GoodWrites)
<1> DEFINE yaml == [i \in 1..2 * n |->
             Write(IF i % 2 = 1 THEN "raw" ELSE "runtime", seq[(i + 1) \div 2], None)]
           rest == <<Write("main", None, None), Write("selections", None, None)>>
<1>1. \A i \in 1..2 * n : (i + 1) \div 2 \in 1..n
  OBVIOUS
<1>2. \A i \in 1..2 * n :
        Write(IF i % 2 = 1 THEN "raw" ELSE "runtime", seq[(i + 1) \div 2], None) \in GoodWrites
  BY <1>1, YamlWrite
<1>3. yaml \in Seq(GoodWrites)
  BY <1>2
<1>4. rest \in Seq(GoodWrites)
  BY MainWrite, SelectionsWrite
<1>5. saveProfilesState(Empty) \in Seq(GoodWrites)
  BY GoodAreLists, SaveStateGood
<1>6. ResetWrites(seq) = Recovery \o yaml \o rest \o saveProfilesState(Empty)
  BY DEF ResetWrites
<1> HIDE DEF yaml, rest
<1>7. Recovery \o yaml \o rest \in Seq(GoodWrites)
  BY <1>3, <1>4, RecoveryGood, Concatenated
<1>8. QED
  BY <1>5, <1>6, <1>7, Concatenated

-----------------------------------------------------------------------------
(* Steps *)

\* What a section that begins may touch besides its writes.
LEMMA BeginKeeps ==
    ASSUME StoreInv, NEW w \in Seq(GoodWrites), NEW t \in Afters,
           t.op # "none" => t.p \in Profiles,
           Begin(w, t),
           kind' \in [Profiles -> {"none", "local", "subscription"}],
           commit' \in Jobs \cup {None}, updates' \in [Updates -> Jobs \cup {None}],
           ops' \in 0..MaxOps, cut' \in SUBSET Profiles,
           subBusy' \in BOOLEAN, resetting' \in BOOLEAN
    PROVE  StoreInv'
<1>1. todo' \in Seq(GoodWrites) /\ todo' \in Seq(WritesOf(Lists))
  BY GoodWritesAreWrites DEF Begin
<1>2. after' \in Afters /\ (after'.op # "none" => after'.p \in Profiles)
  BY DEF Begin
<1>3. StoreFlagsOK'
  BY DEF Begin, StoreInv, TypeOK, StoreFlagsOK
<1>4. TypeOK'
  BY <1>1, <1>2, <1>3 DEF Begin, StoreInv, TypeOK, Afters, files
<1>5. QED
  BY <1>1, <1>4 DEF Begin, StoreInv, GoodWrites, files

LEMMA NothingIsAfter == Nothing \in Afters /\ Nothing.op = "none"
  BY DEF Nothing, Afters

\* The variables of a section that touches only its writes.
LEMMA QuietTypes ==
    ASSUME StoreInv
    PROVE  /\ kind \in [Profiles -> {"none", "local", "subscription"}]
           /\ commit \in Jobs \cup {None} /\ updates \in [Updates -> Jobs \cup {None}]
           /\ ops \in 0..MaxOps /\ cut \in SUBSET Profiles
           /\ subBusy \in BOOLEAN /\ resetting \in BOOLEAN
           /\ UserOp => ops' \in 0..MaxOps
  BY DEF StoreInv, TypeOK, StoreFlagsOK, UserOp

LEMMA CreateLocalStep ==
    ASSUME StoreInv, NEW p \in Profiles, NEW c \in Contents, CreateLocal(p, c)
    PROVE  StoreInv'
<1>1. [op |-> "activate", p |-> p] \in Afters
  BY DEF Afters
<1>2. kind' \in [Profiles -> {"none", "local", "subscription"}]
  BY QuietTypes DEF CreateLocal
<1>3. UNCHANGED <<commit, updates, subBusy, cut, resetting>> /\ UserOp
        /\ Begin(createLocalProfile(p, c), [op |-> "activate", p |-> p])
  BY DEF CreateLocal
<1>4. QED
  BY <1>1, <1>2, <1>3, BeginKeeps, QuietTypes, CreateLocalGood

LEMMA SwitchStep ==
    ASSUME StoreInv, NEW p \in Profiles, Switch(p)
    PROVE  StoreInv'
<1>1. Begin(Save(Activated(p)), Nothing) /\ UserOp /\ p \in Listed
  BY DEF Switch
<1>2. UNCHANGED <<kind, commit, updates, subBusy, cut, resetting>>
  BY DEF Switch, Quiet
<1>3. QED
  BY <1>1, <1>2, BeginKeeps, QuietTypes, ActivatedGood, NothingIsAfter

LEMMA DuplicateStep ==
    ASSUME StoreInv, NEW q \in Profiles, NEW p \in Profiles, Duplicate(q, p)
    PROVE  StoreInv'
<1>1. Begin(duplicateProfile(q, p), Nothing) /\ UserOp
        /\ UNCHANGED <<commit, updates, subBusy, resetting>>
  BY DEF Duplicate
<1>2. kind' \in [Profiles -> {"none", "local", "subscription"}]
  BY QuietTypes DEF Duplicate
<1>3. cut' \in SUBSET Profiles
  BY QuietTypes DEF Duplicate
<1>4. QED
  BY <1>1, <1>2, <1>3, BeginKeeps, QuietTypes, DuplicateGood, NothingIsAfter

LEMMA DeleteStep ==
    ASSUME StoreInv, NEW p \in Profiles, Delete(p)
    PROVE  StoreInv'
<1>1. Begin(DeleteWrites(p), Nothing) /\ UserOp /\ CanDelete(p)
  BY DEF Delete
<1>2. UNCHANGED <<kind, commit, updates, subBusy, cut, resetting>>
  BY DEF Delete, Quiet
<1>3. QED
  BY <1>1, <1>2, BeginKeeps, QuietTypes, DeleteGood, NothingIsAfter

LEMMA SaveConfigStep ==
    ASSUME StoreInv, NEW p \in Profiles, NEW c \in Contents, SaveConfig(p, c)
    PROVE  StoreInv'
<1>1. Begin(saveRawYaml(p, c), Nothing) /\ UserOp
  BY DEF SaveConfig
<1>2. UNCHANGED <<kind, commit, updates, subBusy, cut, resetting>>
  BY DEF SaveConfig, Quiet
<1>3. QED
  BY <1>1, <1>2, BeginKeeps, QuietTypes, SaveRawGood, NothingIsAfter

LEMMA UpdateSettingsStep ==
    ASSUME StoreInv, UpdateSettings
    PROVE  StoreInv'
<1> DEFINE p == loadProfilesState.active
           yaml == <<Write("runtime", p, Torn), Write("runtime", p, raw[p])>>
<1>1. Begin(Recovery \o yaml, Nothing) /\ UserOp /\ p # None
  BY DEF UpdateSettings
<1>2. UNCHANGED <<kind, commit, updates, subBusy, cut, resetting>>
  BY DEF UpdateSettings, Quiet
<1>3. p \in Profiles
  BY <1>1, LoadedGood DEF GoodLists, Lists
<1>4. raw[p] \in Contents \cup {None, Torn}
  BY <1>3 DEF StoreInv, TypeOK
<1> HIDE DEF p
<1>5. yaml \in Seq(GoodWrites)
  BY <1>3, <1>4, YamlWrite
<1> HIDE DEF yaml
<1>6. Recovery \o yaml \in Seq(GoodWrites)
  BY <1>5, RecoveryGood, Concatenated
<1>7. QED
  BY <1>1, <1>2, <1>6, BeginKeeps, QuietTypes, NothingIsAfter

LEMMA ResetStep ==
    ASSUME StoreInv, Reset
    PROVE  StoreInv'
<1>1. UserOp /\ resetting' = TRUE /\ UNCHANGED <<kind, commit, updates, subBusy, cut>>
  BY DEF Reset
<1>2. PICK seq \in [1..Cardinality(Listed) -> Listed] : Begin(ResetWrites(seq), Nothing)
  BY DEF Reset
<1>3. Listed \subseteq Profiles
  BY LoadedGood DEF Listed, GoodLists, Lists
<1>4. Cardinality(Listed) \in Nat
  BY <1>3, FS_Subset, FS_CardinalityType
<1>5. seq \in [1..Cardinality(Listed) -> Profiles]
  BY <1>3
<1>6. Len(seq) = Cardinality(Listed)
  BY <1>4, <1>5
<1>7. ResetWrites(seq) \in Seq(GoodWrites)
  BY <1>4, <1>5, <1>6, ResetGood
<1>8. resetting' \in BOOLEAN
  BY <1>1
<1>9. QED
  BY <1>1, <1>2, <1>7, <1>8, BeginKeeps, QuietTypes, NothingIsAfter

LEMMA ReloadStep ==
    ASSUME StoreInv, Reload
    PROVE  StoreInv'
<1>1. Begin(Recovery, Nothing) /\ UNCHANGED ops
        /\ UNCHANGED <<kind, commit, updates, subBusy, cut, resetting>>
  BY DEF Reload, Quiet
<1>2. QED
  BY <1>1, BeginKeeps, QuietTypes, RecoveryGood, NothingIsAfter

LEMMA AddSubscriptionStep ==
    ASSUME StoreInv, NEW p \in Profiles, AddSubscription(p)
    PROVE  StoreInv'
<1>1. [op |-> "download", p |-> p] \in Afters
  BY DEF Afters
<1>2. kind' \in [Profiles -> {"none", "local", "subscription"}]
  BY QuietTypes DEF AddSubscription
<1>3. UNCHANGED <<commit, updates, cut, resetting>> /\ UserOp /\ subBusy' = TRUE
        /\ Begin(createSubscriptionProfile(p), [op |-> "download", p |-> p])
  BY DEF AddSubscription
<1>4. subBusy' \in BOOLEAN
  BY <1>3
<1>5. QED
  BY <1>1, <1>2, <1>3, <1>4, BeginKeeps, QuietTypes, SubscriptionGood

LEMMA RefreshStep ==
    ASSUME StoreInv, NEW p \in Profiles, Refresh(p)
    PROVE  StoreInv'
<1>1. [op |-> "refresh", p |-> p] \in Afters
  BY DEF Afters
<1>2. UNCHANGED <<kind, commit, updates, cut, resetting>> /\ UserOp /\ subBusy' = TRUE
        /\ Begin(Recovery, [op |-> "refresh", p |-> p])
  BY DEF Refresh
<1>3. subBusy' \in BOOLEAN
  BY <1>2
<1>4. QED
  BY <1>1, <1>2, <1>3, BeginKeeps, QuietTypes, RecoveryGood

\* What follows an update.
LEMMA ThenIsAfter ==
    ASSUME NEW job \in Jobs, NEW op \in {"activate", "delete"}
    PROVE  Then(op, job) \in Afters /\ (Then(op, job).op # "none" => Then(op, job).p \in Profiles)
  BY DEF Then, Jobs, Afters, Nothing

LEMMA EndsKeeps ==
    ASSUME StoreInv, NEW u \in Updates, Ends(u)
    PROVE  /\ updates[u] \in Jobs /\ updates' \in [Updates -> Jobs \cup {None}]
           /\ subBusy' \in BOOLEAN /\ UNCHANGED <<kind, ops, cut, resetting>>
  BY DEF Ends, StoreInv, TypeOK

LEMMA DownloadStep ==
    ASSUME StoreInv, NEW u \in Updates,
           (\E c \in Contents : DownloadOk(u, c)) \/ DownloadNotModified(u) \/ DownloadFails(u)
    PROVE  StoreInv'
<1> DEFINE job == updates[u]
<1>1. Ends(u)
  BY DEF DownloadOk, DownloadNotModified, DownloadFails
<1>2. job \in Jobs /\ Save(updateProfile(job)) \in Seq(GoodWrites)
  BY <1>1, EndsKeeps, UpdateGood
<1>3. ASSUME NEW c \in Contents, DownloadOk(u, c) PROVE StoreInv'
  <2>1. commit' = job
          /\ Begin(Replace(job.p, c) \o Save(updateProfile(job)), Then("activate", job))
    BY <1>3 DEF DownloadOk
  <2>2. Replace(job.p, c) \in Seq(GoodWrites)
    BY <1>2, YamlPair DEF Replace, Jobs
  <2>3. Replace(job.p, c) \o Save(updateProfile(job)) \in Seq(GoodWrites)
    BY <1>2, <2>2, Concatenated
  <2> HIDE DEF job
  <2>4. QED
    BY <1>1, <1>2, <2>1, <2>3, EndsKeeps, ThenIsAfter, BeginKeeps, QuietTypes
<1>4. CASE DownloadNotModified(u)
  <2>1. commit' = job /\ Begin(Save(updateProfile(job)), Then("activate", job))
    BY <1>4 DEF DownloadNotModified
  <2> HIDE DEF job
  <2>2. QED
    BY <1>1, <1>2, <2>1, EndsKeeps, ThenIsAfter, BeginKeeps, QuietTypes
<1>5. CASE DownloadFails(u)
  <2>1. commit' = None /\ Begin(Save(updateProfile(job)), Then("delete", job))
    BY <1>5 DEF DownloadFails, recordFailure
  <2> HIDE DEF job
  <2>2. QED
    BY <1>1, <1>2, <2>1, EndsKeeps, ThenIsAfter, BeginKeeps, QuietTypes
<1>6. QED
  BY <1>3, <1>4, <1>5

LEMMA ContinueStep ==
    ASSUME StoreInv, Continue
    PROVE  StoreInv'
<1> DEFINE p == after.p
<1>1. UNCHANGED <<kind, commit, ops, cut, resetting>>
  BY DEF Continue
<1>2. CASE /\ after.op = "activate" /\ UNCHANGED <<updates, subBusy>>
           /\ Begin(IF p \in Listed THEN Save(Activated(p)) ELSE Recovery, Nothing)
  <2>1. p \in Profiles
    BY <1>2 DEF StoreInv, TypeOK
  <2> HIDE DEF p
  <2>2. (IF p \in Listed THEN Save(Activated(p)) ELSE Recovery) \in Seq(GoodWrites)
    BY <2>1, ActivatedGood, RecoveryGood
  <2>3. QED
    BY <1>1, <1>2, <2>2, BeginKeeps, QuietTypes, NothingIsAfter
<1>3. CASE /\ after.op = "delete" /\ UNCHANGED <<updates, subBusy>>
           /\ Begin(IF CanDelete(p) THEN DeleteWrites(p) ELSE Recovery, Nothing)
  <2>1. p \in Profiles
    BY <1>3 DEF StoreInv, TypeOK
  <2> HIDE DEF p
  <2>2. (IF CanDelete(p) THEN DeleteWrites(p) ELSE Recovery) \in Seq(GoodWrites)
    BY <2>1, DeleteGood, RecoveryGood
  <2>3. QED
    BY <1>1, <1>3, <2>2, BeginKeeps, QuietTypes, NothingIsAfter
<1>4. ASSUME after.op \in {"download", "refresh"}, Begin(Recovery, Nothing),
             IF p \in Listed THEN UNCHANGED subBusy ELSE subBusy' = FALSE,
             NEW u \in Updates,
             updates' = IF p \in Listed
               THEN [updates EXCEPT ![u] = [p |-> p, op |-> after.op,
                                            flag |-> {p} \cap loadProfilesState.flagged]]
               ELSE updates
      PROVE  StoreInv'
  <2>1. p \in Profiles
    BY <1>4 DEF StoreInv, TypeOK
  <2> DEFINE job == [p |-> p, op |-> after.op, flag |-> {p} \cap loadProfilesState.flagged]
  <2>2. job \in Jobs
    BY <1>4, <2>1 DEF Jobs
  <2>3. updates' = updates \/ updates' = [updates EXCEPT ![u] = job]
    BY <1>4
  <2> HIDE DEF job
  <2>4. updates' \in [Updates -> Jobs \cup {None}]
    BY <2>2, <2>3, QuietTypes
  <2>5. subBusy' \in BOOLEAN
    BY <1>4, QuietTypes
  <2>6. QED
    BY <1>1, <1>4, <2>4, <2>5, BeginKeeps, QuietTypes, NothingIsAfter, RecoveryGood
<1>5. QED
  BY <1>2, <1>3, <1>4 DEF Continue

\* The members of a write.
LEMMA WriteMembers ==
    ASSUME NEW w \in GoodWrites
    PROVE  /\ w.file = "main" => w.value \in GoodLists \cup {None}
           /\ w.file = "bak" => w.value \in GoodLists
           /\ w.file \in {"raw", "runtime"} =>
                w.key \in Profiles /\ w.value \in Contents \cup {None, Torn}
           /\ w.file = "selections" => w.key \in Profiles \cup {None}
  BY DEF GoodWrites, WritesOf

\* The profiles whose files a failure leaves cut.
LEMMA PendingProfiles == ASSUME StoreInv PROVE Pending \subseteq Profiles
<1>1. \A i \in DOMAIN todo : todo[i] \in GoodWrites
  BY DEF StoreInv, GoodWrites
<1>2. QED
  BY <1>1, WriteMembers DEF Pending

LEMMA WriteNextStep ==
    ASSUME StoreInv, WriteNext
    PROVE  StoreInv'
<1> DEFINE w == Head(todo)
<1>1. todo \in Seq(GoodWrites) /\ todo # <<>>
  BY DEF StoreInv, GoodWrites, WriteNext
<1>2. w \in GoodWrites
  BY <1>1
<1>3. Tail(todo) \in Seq(GoodWrites)
  BY <1>1
<1>4. todo' \in Seq(GoodWrites) /\ todo' \in Seq(WritesOf(Lists))
  BY <1>3, GoodWritesAreWrites DEF WriteNext
<1>5. main' \in GoodLists \cup {None, Corrupt} /\ bak' \in GoodLists \cup {None}
  <2>1. main' = (IF w.file = "main" THEN w.value ELSE main)
          /\ bak' = (IF w.file = "bak" THEN w.value ELSE bak)
    BY DEF WriteNext
  <2> HIDE DEF w
  <2>2. QED
    BY <1>2, <2>1, WriteMembers DEF StoreInv
<1>6. /\ raw' \in [Profiles -> Contents \cup {None, Torn}]
      /\ runtime' \in [Profiles -> Contents \cup {None, Torn}]
  <2>1. raw' = (IF w.file = "raw" THEN [raw EXCEPT ![w.key] = w.value] ELSE raw)
          /\ runtime' = (IF w.file = "runtime" THEN [runtime EXCEPT ![w.key] = w.value]
                                               ELSE runtime)
    BY DEF WriteNext
  <2> HIDE DEF w
  <2>2. QED
    BY <1>2, <2>1, WriteMembers DEF StoreInv, TypeOK
<1>7. selections' \in SUBSET Profiles /\ erased' \in SUBSET Profiles
  <2>1. selections' = (IF w.file # "selections" THEN selections
                       ELSE IF w.key = None THEN {} ELSE selections \ {w.key})
          /\ erased' = (IF w.file = "selections" /\ w.key # None THEN erased \cup {w.key}
                                                                ELSE erased)
    BY DEF WriteNext
  <2> HIDE DEF w
  <2>2. QED
    BY <1>2, <2>1, WriteMembers DEF StoreInv, TypeOK
<1>8. commit' \in Jobs \cup {None}
  BY DEF WriteNext, StoreInv, TypeOK
<1>9. /\ ext' \in [st : {"idle", "recover", "prepare", "write", "launch"},
                   p : Profiles \cup {None}, seen : Contents \cup {None, Torn},
                   copy : Lists, touched : SUBSET Profiles]
      /\ ext'.st = ext.st /\ ext'.p = ext.p /\ ext'.copy = ext.copy
  <2> DEFINE t == IF w.file \in {"raw", "runtime"} /\ w.key = ext.p THEN {w.key}
                                                                  ELSE ext.touched
  <2>1. ext' = [ext EXCEPT !.touched = t]
    BY DEF WriteNext
  <2>2. t \in SUBSET Profiles
    <3> HIDE DEF w
    <3> QED BY <1>2, WriteMembers DEF StoreInv, TypeOK
  <2> HIDE DEF t, w
  <2>3. QED
    BY <2>1, <2>2 DEF StoreInv, TypeOK
<1>10. saved' \in Lists /\ deleted' \in SUBSET Profiles
  <2>1. saved' = (IF w.file = "bak" THEN w.value ELSE saved)
          /\ deleted' = (IF w.file = "bak"
                           THEN deleted \cup (saved.listed \ ListedIn(w.value)) ELSE deleted)
    BY DEF WriteNext
  <2>2. saved.listed \subseteq Profiles
    BY DEF StoreInv, TypeOK, Lists
  <2> HIDE DEF w
  <2>3. QED
    BY <1>2, <2>1, <2>2, WriteMembers, GoodAreLists DEF StoreInv, TypeOK
<1>11. attempted' \in SUBSET Lists
  <2>1. attempted' = CASE w.file = "bak" -> {}
                       [] w.file = "main" /\ Readable(w.value) -> attempted \cup {w.value}
                       [] OTHER -> attempted
    BY DEF WriteNext
  <2> HIDE DEF w
  <2>2. QED
    BY <1>2, <2>1, WriteMembers, GoodAreLists DEF StoreInv, TypeOK, Readable
<1>12. held' \in SUBSET Profiles
  <2>1. held' = held
          \/ held' = held \cup {p \in Profiles : InUse(p) /\ p \notin ListedIn(w.value)}
    BY DEF WriteNext
  <2>2. QED
    BY <2>1 DEF StoreInv, TypeOK
<1>13. StoreFlagsOK'
  BY DEF WriteNext, StoreInv, TypeOK, StoreFlagsOK
<1>14. UNCHANGED <<kind, after, updates, ops, starts, faults, cut>>
  BY DEF WriteNext
<1> HIDE DEF w
<1>15. TypeOK'
  BY <1>4, <1>5, <1>6, <1>7, <1>8, <1>9, <1>10, <1>11, <1>12, <1>13, <1>14, GoodAreLists
  DEF StoreInv, TypeOK, ListFiles
<1>16. QED
  BY <1>4, <1>5, <1>9, <1>15 DEF StoreInv, GoodWrites

-----------------------------------------------------------------------------
(* The extension *)

ExtStates == [st : {"idle", "recover", "prepare", "write", "launch"},
              p : Profiles \cup {None}, seen : Contents \cup {None, Torn},
              copy : Lists, touched : SUBSET Profiles]

LEMMA NoExtState ==
    NoExt \in ExtStates /\ NoExt.st = "idle" /\ NoExt.copy \in GoodLists
  BY GoodAreLists DEF NoExt, ExtStates

\* What a step of the extension may touch.
LEMMA ExtKeeps ==
    ASSUME StoreInv, ExtFrame, UNCHANGED bak,
           main' \in GoodLists \cup {None, Corrupt},
           runtime' \in [Profiles -> Contents \cup {None, Torn}],
           ext' \in ExtStates, ext'.copy \in GoodLists,
           ext'.st \in {"prepare", "write", "launch"} => ext'.p \in Profiles,
           starts' \in 0..MaxStarts, cut' \in SUBSET Profiles, overlapped' \in BOOLEAN
    PROVE  StoreInv'
<1>1. StoreFlagsOK'
  BY DEF ExtFrame, StoreInv, TypeOK, StoreFlagsOK
<1>2. main' \in ListFiles
  BY GoodAreLists DEF ListFiles
<1>3. TypeOK'
  BY <1>1, <1>2 DEF ExtFrame, StoreInv, TypeOK, ExtStates, section
<1>4. QED
  BY <1>3 DEF ExtFrame, StoreInv, section

LEMMA ExtTypes ==
    ASSUME StoreInv
    PROVE  /\ main \in GoodLists \cup {None, Corrupt}
           /\ raw \in [Profiles -> Contents \cup {None, Torn}]
           /\ runtime \in [Profiles -> Contents \cup {None, Torn}]
           /\ ext \in ExtStates /\ ext.copy \in GoodLists
           /\ ext.st \in {"prepare", "write", "launch"} => ext.p \in Profiles
           /\ starts \in 0..MaxStarts /\ cut \in SUBSET Profiles
           /\ overlapped \in BOOLEAN
           /\ ExtBegins => starts' \in 0..MaxStarts
  BY DEF StoreInv, TypeOK, StoreFlagsOK, ExtStates, ExtBegins

LEMMA ExtReadStep ==
    ASSUME StoreInv, NEW p \in Profiles, ExtRead(p)
    PROVE  StoreInv'
<1>1. ExtFrame /\ ExtBegins /\ UNCHANGED <<main, bak, runtime, cut, overlapped>>
        /\ ext' = [ext EXCEPT !.st = "prepare", !.p = p, !.seen = raw[p]]
  BY DEF ExtRead
<1>2. raw[p] \in Contents \cup {None, Torn}
  BY ExtTypes
<1>3. ext' \in ExtStates /\ ext'.p = p /\ ext'.copy = ext.copy
  BY <1>1, <1>2, ExtTypes DEF ExtStates
<1>4. QED
  BY <1>1, <1>3, ExtKeeps, ExtTypes

LEMMA ExtRecoverReadStep ==
    ASSUME StoreInv, ExtRecoverRead
    PROVE  StoreInv'
<1>1. ExtFrame /\ ExtBegins /\ UNCHANGED <<main, bak, runtime, cut, overlapped>>
        /\ ext' = [ext EXCEPT !.st = "recover", !.copy = loadProfilesState]
  BY DEF ExtRecoverRead
<1>2. loadProfilesState \in GoodLists /\ loadProfilesState \in Lists
  BY LoadedGood, GoodAreLists
<1>3. ext' \in ExtStates /\ ext'.st = "recover" /\ ext'.copy = loadProfilesState
  BY <1>1, <1>2, ExtTypes DEF ExtStates
<1>4. QED
  BY <1>1, <1>2, <1>3, ExtKeeps, ExtTypes

LEMMA ExtRecoverStep ==
    ASSUME StoreInv, ExtRecover
    PROVE  StoreInv'
<1>1. ExtFrame /\ UNCHANGED <<bak, runtime, cut, starts>> /\ ext' = NoExt /\ main' = ext.copy
  BY DEF ExtRecover
<1>2. overlapped' \in BOOLEAN
  BY ExtTypes DEF ExtRecover
<1>3. QED
  BY <1>1, <1>2, NoExtState, ExtKeeps, ExtTypes

LEMMA ExtTruncateStep ==
    ASSUME StoreInv, ExtTruncate
    PROVE  StoreInv'
<1>1. ExtFrame /\ UNCHANGED <<main, bak, cut, overlapped, starts>> /\ ext.st = "prepare"
        /\ ext' = [ext EXCEPT !.st = "write"] /\ runtime' = [runtime EXCEPT ![ext.p] = Torn]
  BY DEF ExtTruncate
<1>2. ext' \in ExtStates /\ ext'.p = ext.p /\ ext'.copy = ext.copy
  BY <1>1, ExtTypes DEF ExtStates
<1>3. runtime' \in [Profiles -> Contents \cup {None, Torn}]
  BY <1>1, ExtTypes
<1>4. QED
  BY <1>1, <1>2, <1>3, ExtKeeps, ExtTypes

LEMMA ExtWriteStep ==
    ASSUME StoreInv, ExtWrite
    PROVE  StoreInv'
<1>1. ExtFrame /\ UNCHANGED <<main, bak, overlapped, starts>> /\ ext.st = "write"
        /\ ext' = [ext EXCEPT !.st = "launch"] /\ cut' \in {cut, cut \cup {ext.p}}
        /\ runtime' \in {runtime, [runtime EXCEPT ![ext.p] = ext.seen]}
  BY DEF ExtWrite
<1>2. ext.p \in Profiles /\ ext.seen \in Contents \cup {None, Torn}
  BY <1>1, ExtTypes DEF ExtStates
<1>3. ext' \in ExtStates /\ ext'.p = ext.p /\ ext'.copy = ext.copy
  BY <1>1, ExtTypes DEF ExtStates
<1>4. runtime' \in [Profiles -> Contents \cup {None, Torn}] /\ cut' \in SUBSET Profiles
  BY <1>1, <1>2, ExtTypes
<1>5. QED
  BY <1>1, <1>2, <1>3, <1>4, ExtKeeps, ExtTypes

LEMMA ExtLaunchedStep ==
    ASSUME StoreInv, ExtLaunched
    PROVE  StoreInv'
<1>1. ExtFrame /\ UNCHANGED <<main, bak, runtime, cut, overlapped, starts>> /\ ext' = NoExt
  BY DEF ExtLaunched
<1>2. QED
  BY <1>1, NoExtState, ExtKeeps, ExtTypes

-----------------------------------------------------------------------------
(* Faults *)

LEMMA UiKillStep ==
    ASSUME StoreInv, UiKill
    PROVE  StoreInv'
<1>1. todo' \in Seq(GoodWrites) /\ todo' \in Seq(WritesOf(Lists))
  BY DEF UiKill
<1>2. after' \in Afters /\ after'.op = "none"
  BY NothingIsAfter DEF UiKill
<1>3. updates' \in [Updates -> Jobs \cup {None}]
  BY DEF UiKill
<1>4. faults' \in 0..MaxFaults /\ cut' \in SUBSET Profiles
  BY PendingProfiles DEF UiKill, Fault, StoreInv, TypeOK
<1>5. StoreFlagsOK'
  BY DEF UiKill, StoreInv, TypeOK, StoreFlagsOK
<1>6. TypeOK'
  BY <1>1, <1>2, <1>3, <1>4, <1>5 DEF UiKill, StoreInv, TypeOK, Afters, files
<1>7. QED
  BY <1>1, <1>6 DEF UiKill, StoreInv, files, GoodWrites

LEMMA ExtKillStep ==
    ASSUME StoreInv, ExtKill
    PROVE  StoreInv'
<1>1. ext' = NoExt /\ cut' \in {cut, cut \cup {ext.p}} /\ (cut' # cut => ext.st = "write")
  BY DEF ExtKill
<1>2. cut' \in SUBSET Profiles
  BY <1>1, ExtTypes
<1>3. faults' \in 0..MaxFaults
  BY DEF ExtKill, Fault, StoreInv, TypeOK
<1>4. StoreFlagsOK'
  BY DEF ExtKill, StoreInv, TypeOK, StoreFlagsOK
<1>5. TypeOK'
  BY <1>1, <1>2, <1>3, <1>4, NoExtState DEF ExtKill, StoreInv, TypeOK, ExtStates, files, section
<1>6. QED
  BY <1>1, <1>5, NoExtState DEF ExtKill, StoreInv, files, section

LEMMA CorruptMainStep ==
    ASSUME StoreInv, CorruptMain
    PROVE  StoreInv'
<1>1. main' = Corrupt /\ faults' \in 0..MaxFaults
  BY DEF CorruptMain, Fault, StoreInv, TypeOK
<1>2. StoreFlagsOK'
  BY DEF CorruptMain, StoreInv, TypeOK, StoreFlagsOK, history
<1>3. TypeOK'
  BY <1>1, <1>2 DEF CorruptMain, StoreInv, TypeOK, ListFiles, section, history
<1>4. QED
  BY <1>1, <1>3 DEF CorruptMain, StoreInv, section

LEMMA WriteFailsStep ==
    ASSUME StoreInv, WriteFails
    PROVE  StoreInv'
<1>1. todo' \in Seq(GoodWrites) /\ after' \in Afters
        /\ (after'.op # "none" => after'.p \in Profiles)
  <2>1. CASE commit = None
    <3>1. todo' = <<>> /\ (after' = after \/ after' = Nothing)
      BY <2>1 DEF WriteFails
    <3>2. QED
      BY <3>1, NothingIsAfter DEF StoreInv, TypeOK, Afters
  <2>2. CASE commit # None
    <3>1. commit \in Jobs
      BY <2>2, QuietTypes
    <3>2. todo' = Save(updateProfile(commit)) /\ after' = Then("delete", commit)
      BY <2>2 DEF WriteFails, recordFailure
    <3>3. QED
      BY <3>1, <3>2, UpdateGood, ThenIsAfter
  <2>3. QED
    BY <2>1, <2>2
<1>2. todo' \in Seq(WritesOf(Lists))
  BY <1>1, GoodWritesAreWrites
<1>3. faults' \in 0..MaxFaults /\ cut' \in SUBSET Profiles
  BY PendingProfiles DEF WriteFails, Fault, StoreInv, TypeOK
<1>4. StoreFlagsOK'
  BY DEF WriteFails, StoreInv, TypeOK, StoreFlagsOK
<1>5. commit' = None
  BY DEF WriteFails
<1>6. UNCHANGED <<main, bak, raw, runtime, selections, kind, updates, ext, ops, starts>>
        /\ UNCHANGED <<saved, attempted, deleted, erased, held>>
  BY DEF WriteFails, files
<1>7. TypeOK'
  BY <1>1, <1>2, <1>3, <1>4, <1>5, <1>6 DEF StoreInv, TypeOK, Afters
<1>8. QED
  BY <1>1, <1>6, <1>7 DEF StoreInv, GoodWrites

-----------------------------------------------------------------------------
(* The theorems *)

LEMMA StoreInit == ASSUME Init PROVE StoreInv
<1>1. PICK list \in Lists :
        /\ IF list.listed = {} THEN list.active = None ELSE list.active \in list.listed
        /\ list.flagged = list.listed \cap {list.active}
        /\ main \in (IF list = Empty THEN {None} ELSE {list}) /\ bak = main /\ saved = list
        /\ raw = [p \in Profiles |-> IF p \in list.listed THEN DefaultRaw ELSE None]
        /\ runtime = raw /\ selections = list.listed
  BY DEF Init
<1>2. list \in GoodLists
  BY <1>1 DEF GoodLists, Lists, WellFormed
<1>3. main \in GoodLists \cup {None} /\ bak \in GoodLists \cup {None} /\ saved \in Lists
  BY <1>1, <1>2
<1>4. /\ raw \in [Profiles -> Contents \cup {None, Torn}]
      /\ runtime \in [Profiles -> Contents \cup {None, Torn}]
      /\ selections \in SUBSET Profiles
  BY <1>1 DEF Lists
<1>5. todo = <<>> /\ after = Nothing /\ commit = None /\ ext = NoExt
        /\ updates = [u \in Updates |-> None] /\ ops = 0 /\ starts = 0 /\ faults = 0
        /\ kind \in [Profiles -> {"none", "local", "subscription"}]
        /\ attempted = {} /\ deleted = {} /\ erased = {} /\ held = {} /\ cut = {}
  BY DEF Init
<1>6. StoreFlagsOK
  BY DEF Init, StoreFlagsOK
<1>7. todo \in Seq(GoodWrites) /\ todo \in Seq(WritesOf(Lists))
  BY <1>5
<1>8. TypeOK
  BY <1>3, <1>4, <1>5, <1>6, <1>7, GoodAreLists, NoExtState, NothingIsAfter
  DEF TypeOK, ListFiles, Afters, ExtStates
<1>9. QED
  BY <1>3, <1>5, <1>7, <1>8, NoExtState DEF StoreInv, GoodWrites

LEMMA StoreStutters == ASSUME StoreInv, UNCHANGED vars PROVE StoreInv'
<1>1. StoreFlagsOK'
  BY DEF StoreInv, TypeOK, StoreFlagsOK, vars, history
<1>2. TypeOK'
  BY <1>1 DEF StoreInv, TypeOK, vars, files, section, history
<1>3. QED
  BY <1>2 DEF StoreInv, vars, files, section

LEMMA StoreStep == ASSUME StoreInv, [Next]_vars PROVE StoreInv'
<1>1. CASE UserNext
  BY <1>1, CreateLocalStep, SaveConfigStep, SwitchStep, DeleteStep, AddSubscriptionStep,
     RefreshStep, DuplicateStep, UpdateSettingsStep, ResetStep DEF UserNext
<1>2. CASE UpdateNext
  BY <1>2, DownloadStep DEF UpdateNext
<1>3. CASE Reload \/ WriteNext \/ Continue
  BY <1>3, ReloadStep, WriteNextStep, ContinueStep
<1>4. CASE ExtNext
  BY <1>4, ExtReadStep, ExtRecoverReadStep, ExtRecoverStep, ExtTruncateStep, ExtWriteStep,
     ExtLaunchedStep DEF ExtNext
<1>5. CASE FaultNext
  BY <1>5, UiKillStep, ExtKillStep, CorruptMainStep, WriteFailsStep DEF FaultNext
<1>6. CASE UNCHANGED vars
  BY <1>6, StoreStutters
<1>7. QED
  BY <1>1, <1>2, <1>3, <1>4, <1>5, <1>6 DEF Next

\* The inductive invariant holds in every reachable state.
LEMMA AlwaysStoreInv == Spec => []StoreInv
  BY StoreInit, StoreStep, PTL DEF Spec

\* The files, the queued writes, the updates and the extension keep their types; in
\* particular a write that runs never names a profile that does not exist.
THEOREM StoreTypeCorrect == Spec => []TypeOK
<1>1. StoreInv => TypeOK
  BY DEF StoreInv
<1>2. QED
  BY <1>1, AlwaysStoreInv, PTL

\* The active profile of profiles.json and of its backup is always a listed one, and only
\* listed profiles are flagged: through kills, failed writes, damaged files, the
\* extension's recovery and updates that write back what they read before the download.
THEOREM ActiveProfileListed == Spec => []ActiveListed
<1>1. StoreInv => ActiveListed
  BY DEF StoreInv, ActiveListed, GoodLists, Readable
<1>2. QED
  BY <1>1, AlwaysStoreInv, PTL

-----------------------------------------------------------------------------
(* The launch *)

\* What the extension has read is the raw YAML, and what it has written is that text, unless the
\* UI has written a file of the profile since.
LaunchInv ==
    /\ ext.touched = {} /\ ext.st \in {"prepare", "write", "launch"} => ext.seen = raw[ext.p]
    /\ ext.touched = {} /\ ext.st = "launch" => runtime[ext.p] = raw[ext.p]

\* A write of the UI to a file of the profile is noticed.
LEMMA WriteNextLaunch ==
    ASSUME StoreInv, LaunchInv, WriteNext
    PROVE  LaunchInv'
<1> DEFINE w == Head(todo)
<1>1. w \in GoodWrites
  BY DEF StoreInv, GoodWrites, WriteNext
<1>2. /\ raw' = (IF w.file = "raw" THEN [raw EXCEPT ![w.key] = w.value] ELSE raw)
      /\ runtime' = (IF w.file = "runtime" THEN [runtime EXCEPT ![w.key] = w.value] ELSE runtime)
      /\ ext' = [ext EXCEPT !.touched =
                     IF w.file \in {"raw", "runtime"} /\ w.key = ext.p THEN {w.key} ELSE @]
  BY DEF WriteNext
<1> HIDE DEF w
<1>3. /\ ext'.st = ext.st /\ ext'.p = ext.p /\ ext'.seen = ext.seen
      /\ ext'.touched = IF w.file \in {"raw", "runtime"} /\ w.key = ext.p THEN {w.key} ELSE ext.touched
  BY <1>2, ExtTypes DEF ExtStates
<1>4. CASE w.file \in {"raw", "runtime"} /\ w.key = ext.p
  <2>1. ext'.touched # {}
    BY <1>3, <1>4
  <2>2. QED
    BY <2>1 DEF LaunchInv
<1>5. CASE ~(w.file \in {"raw", "runtime"} /\ w.key = ext.p)
  <2>1. ext'.touched = ext.touched
    BY <1>3, <1>5
  <2>2. ext.st \in {"prepare", "write", "launch"} => ext.p \in Profiles
    BY ExtTypes
  <2>3. ext.p \in Profiles => raw'[ext.p] = raw[ext.p] /\ runtime'[ext.p] = runtime[ext.p]
    BY <1>2, <1>5, ExtTypes
  <2>4. QED
    BY <1>3, <2>1, <2>2, <2>3 DEF LaunchInv
<1>6. QED
  BY <1>4, <1>5

LEMMA ExtLaunch ==
    ASSUME StoreInv, LaunchInv, ExtNext \/ ExtKill
    PROVE  LaunchInv'
<1>1. raw' = raw /\ ext \in ExtStates
  BY ExtTypes DEF ExtNext, ExtRead, ExtRecoverRead, ExtRecover, ExtTruncate, ExtWrite, ExtLaunched,
                  ExtFrame, ExtKill, files
<1>2. CASE ExtRecover \/ ExtLaunched \/ ExtKill
  BY <1>2, NoExtState DEF ExtRecover, ExtLaunched, ExtKill, LaunchInv
<1>3. CASE ExtRecoverRead
  BY <1>1, <1>3 DEF ExtRecoverRead, ExtStates, LaunchInv
<1>4. ASSUME NEW p \in Profiles, ExtRead(p) PROVE LaunchInv'
  <2>1. ext'.st = "prepare" /\ ext'.p = p /\ ext'.seen = raw[p]
    BY <1>1, <1>4 DEF ExtRead, ExtStates
  <2>2. QED
    BY <1>1, <2>1 DEF LaunchInv
<1>5. CASE ExtTruncate
  <2>1. /\ ext.st = "prepare" /\ ext'.st = "write" /\ ext'.p = ext.p /\ ext'.seen = ext.seen
        /\ ext'.touched = ext.touched
    BY <1>1, <1>5 DEF ExtTruncate, ExtStates
  <2>2. QED
    BY <1>1, <2>1 DEF LaunchInv
<1>6. CASE ExtWrite
  <2>1. /\ ext.st = "write" /\ ext'.st = "launch" /\ ext'.p = ext.p /\ ext'.seen = ext.seen
        /\ ext'.touched = ext.touched
        /\ runtime' = [runtime EXCEPT ![ext.p] = ext.seen] \/ ext.touched # {}
    BY <1>1, <1>6 DEF ExtWrite, ExtStates, Touched
  <2>2. ext.p \in Profiles /\ runtime \in [Profiles -> Contents \cup {None, Torn}]
    BY <2>1, ExtTypes
  <2>3. QED
    BY <1>1, <2>1, <2>2 DEF LaunchInv
<1>7. QED
  BY <1>2, <1>3, <1>4, <1>5, <1>6 DEF ExtNext

LEMMA StepLaunch == StoreInv /\ LaunchInv /\ [Next]_vars => LaunchInv'
<1> SUFFICES ASSUME StoreInv, LaunchInv, [Next]_vars PROVE LaunchInv'
  OBVIOUS
<1>1. CASE UserNext \/ UpdateNext \/ Reload \/ Continue
  <2>1. UNCHANGED <<raw, runtime, ext>>
    BY <1>1 DEF UserNext, CreateLocal, SaveConfig, Switch, Delete, AddSubscription, Refresh, Duplicate,
                UpdateSettings, Reset, UpdateNext, DownloadOk, DownloadNotModified, DownloadFails,
                Reload, Continue, Begin, files
  <2>2. QED
    BY <2>1 DEF LaunchInv
<1>2. CASE WriteNext
  BY <1>2, WriteNextLaunch
<1>3. CASE ExtNext \/ ExtKill
  BY <1>3, ExtLaunch
<1>4. CASE UiKill \/ CorruptMain \/ WriteFails \/ UNCHANGED vars
  <2>1. UNCHANGED <<raw, runtime, ext>>
    BY <1>4 DEF UiKill, CorruptMain, WriteFails, files, vars
  <2>2. QED
    BY <2>1 DEF LaunchInv
<1>5. QED
  BY <1>1, <1>2, <1>3, <1>4 DEF Next, FaultNext

\* The core reads the runtime YAML of the raw YAML that is stored, whatever a kill or a failed
\* write has left behind, unless the UI wrote the profile's files during the start.
THEOREM LaunchesUseRaw == Spec => []LaunchUsesRaw
<1>1. Init => LaunchInv
  <2>1. Init => ext = NoExt
    BY DEF Init
  <2>2. QED
    BY <2>1, NoExtState DEF LaunchInv
<1>2. LaunchInv => LaunchUsesRaw
  BY DEF LaunchInv, LaunchUsesRaw, Touched
<1>3. QED
  BY <1>1, <1>2, AlwaysStoreInv, StepLaunch, PTL DEF Spec

-----------------------------------------------------------------------------
(* What a list file holds after any faults *)

\* The profiles a list may hold: made, and not removed by a completed save.
Alive == {p \in Profiles : kind[p] # "none"} \ deleted

IsList(w) == w.file \in {"main", "bak"} /\ w.value # None

\* The backup is written right after profiles.json, with the same list.
Paired(s, i) == i - 1 \in DOMAIN s /\ s[i - 1].file = "main" /\ s[i - 1].value = s[i].value

\* Only an empty list, saved where there was none, is followed by another list.
Last(s, list) ==
    \A i, j \in DOMAIN s : i < j /\ s[i].file = "bak" /\ IsList(s[j]) =>
        s[i].value = Empty /\ list = Empty

\* A sequence of writes that holds lists of profiles in S only, given the last list saved.
Within(s, S) == \A i \in DOMAIN s : IsList(s[i]) => s[i].value.listed \subseteq S

Sound(s, S, list) ==
    /\ Within(s, S) /\ Last(s, list)
    /\ \A i \in DOMAIN s : s[i].file = "bak" => Paired(s, i)

Kept ==
    /\ bak = saved \/ (bak = None /\ saved = Empty)
    /\ main \in {None, Corrupt, saved} \cup attempted
    /\ ext.st = "recover" => ext.copy = saved
    /\ deleted \subseteq {p \in Profiles : kind[p] # "none"}
    /\ saved.listed \subseteq Alive /\ (Readable(main) => main.listed \subseteq Alive)
    /\ Within(todo, Alive) /\ Last(todo, saved)
    /\ \A i \in DOMAIN todo : todo[i].file = "bak" =>
           Paired(todo, i) \/ (i = 1 /\ main \in {todo[i].value, Corrupt})

KeptInv == overlapped = FALSE => Kept

-----------------------------------------------------------------------------
(* Sections write lists soundly *)

\* The part of a section before its own list is saved.
Opening(s, S, list) ==
    /\ Within(s, S)
    /\ \A i \in DOMAIN s : s[i].file = "bak" => Paired(s, i) /\ s[i].value = Empty /\ list = Empty

Plain(s) == \A i \in DOMAIN s : s[i].file \notin {"main", "bak"}

LEMMA JoinIndex ==
    ASSUME NEW T, NEW s \in Seq(T), NEW t \in Seq(T)
    PROVE  /\ DOMAIN s = 1..Len(s) /\ Len(s) \in Nat /\ DOMAIN t = 1..Len(t) /\ Len(t) \in Nat
           /\ \A i \in DOMAIN (s \o t) :
                  \/ i \in DOMAIN s /\ (s \o t)[i] = s[i]
                  \/ i > Len(s) /\ i - Len(s) \in DOMAIN t /\ (s \o t)[i] = t[i - Len(s)]
           /\ \A i \in DOMAIN s : i \in DOMAIN (s \o t) /\ (s \o t)[i] = s[i]
           /\ \A i \in DOMAIN t : i + Len(s) \in DOMAIN (s \o t) /\ (s \o t)[i + Len(s)] = t[i]
OBVIOUS

LEMMA JoinWithin ==
    ASSUME NEW T, NEW s \in Seq(T), NEW t \in Seq(T), NEW S, Within(s, S), Within(t, S)
    PROVE  Within(s \o t, S)
BY JoinIndex DEF Within

LEMMA JoinPaired ==
    ASSUME NEW T, NEW s \in Seq(T), NEW t \in Seq(T), NEW i \in DOMAIN (s \o t),
           \/ i \in DOMAIN s /\ Paired(s, i)
           \/ i > Len(s) /\ i - Len(s) \in DOMAIN t /\ Paired(t, i - Len(s))
    PROVE  Paired(s \o t, i)
<1> DEFINE n == Len(s)
           st == s \o t
<1>1. /\ DOMAIN s = 1..n /\ n \in Nat /\ DOMAIN t = 1..Len(t) /\ Len(t) \in Nat
      /\ \A j \in DOMAIN s : j \in DOMAIN st /\ st[j] = s[j]
      /\ \A j \in DOMAIN t : j + n \in DOMAIN st /\ st[j + n] = t[j]
  BY JoinIndex
<1> HIDE DEF st, n
<1>2. CASE i \in DOMAIN s /\ Paired(s, i)
  <2>1. i - 1 \in DOMAIN st /\ st[i - 1] = s[i - 1] /\ st[i] = s[i]
    BY <1>1, <1>2 DEF Paired
  <2>2. QED
    BY <1>2, <2>1 DEF Paired, st
<1>3. CASE i > n /\ i - n \in DOMAIN t /\ Paired(t, i - n)
  <2>1. PICK j \in DOMAIN t : j = i - n /\ j \in Int /\ j - 1 \in DOMAIN t /\ i = j + n /\ i - 1 = (j - 1) + n
    <3>1. i \in Int /\ i - n \in Int
      <4>1. i - n \in 1..Len(t)
        BY <1>1, <1>3
      <4>2. i \in DOMAIN st /\ DOMAIN st \subseteq Int
        BY DEF st
      <4>3. QED
        BY <4>1, <4>2, <1>1
    <3>2. QED
      BY <1>1, <1>3, <3>1 DEF Paired
  <2>2. st[i] = t[j] /\ st[i - 1] = t[j - 1] /\ i - 1 \in DOMAIN st
    BY <1>1, <2>1
  <2>3. Paired(t, j)
    BY <1>3, <2>1
  <2>4. QED
    BY <2>1, <2>2, <2>3 DEF Paired, st
<1>4. QED
  BY <1>2, <1>3 DEF n

LEMMA JoinOpenings ==
    ASSUME NEW T, NEW s \in Seq(T), NEW t \in Seq(T), NEW S, NEW list,
           Opening(s, S, list), Opening(t, S, list)
    PROVE  Opening(s \o t, S, list)
<1>1. Within(s \o t, S)
  BY JoinWithin DEF Opening
<1>2. ASSUME NEW i \in DOMAIN (s \o t), (s \o t)[i].file = "bak"
      PROVE  Paired(s \o t, i) /\ (s \o t)[i].value = Empty /\ list = Empty
  <2>1. CASE i \in DOMAIN s /\ (s \o t)[i] = s[i]
    <3>1. Paired(s, i) /\ (s \o t)[i].value = Empty /\ list = Empty
      BY <1>2, <2>1 DEF Opening
    <3>2. QED
      BY <2>1, <3>1, JoinPaired
  <2>2. CASE i > Len(s) /\ i - Len(s) \in DOMAIN t /\ (s \o t)[i] = t[i - Len(s)]
    <3>1. Paired(t, i - Len(s)) /\ (s \o t)[i].value = Empty /\ list = Empty
      BY <1>2, <2>2 DEF Opening
    <3>2. QED
      BY <2>2, <3>1, JoinPaired
  <2>3. QED
    BY <2>1, <2>2, JoinIndex
<1>3. QED
  BY <1>1, <1>2 DEF Opening

LEMMA JoinSound ==
    ASSUME NEW T, NEW s \in Seq(T), NEW t \in Seq(T), NEW S, NEW list,
           \/ Opening(s, S, list) /\ Sound(t, S, list)
           \/ Sound(s, S, list) /\ Plain(t)
    PROVE  Sound(s \o t, S, list)
<1> DEFINE n == Len(s)
           st == s \o t
<1>1. /\ DOMAIN s = 1..n /\ n \in Nat /\ DOMAIN t = 1..Len(t) /\ Len(t) \in Nat
      /\ \A i \in DOMAIN st :
             \/ i \in DOMAIN s /\ st[i] = s[i]
             \/ i > n /\ i - n \in DOMAIN t /\ st[i] = t[i - n]
  BY JoinIndex
<1>2. Within(s, S) /\ Within(t, S)
  BY DEF Opening, Sound, Plain, Within, IsList
<1>3. Within(st, S)
  BY <1>2, JoinWithin
<1>4. ASSUME NEW i \in DOMAIN st, st[i].file = "bak" PROVE Paired(st, i)
  <2>1. CASE i \in DOMAIN s /\ st[i] = s[i]
    <3>1. Paired(s, i)
      BY <1>4, <2>1 DEF Opening, Sound
    <3>2. QED
      BY <1>4, <2>1, <3>1, JoinPaired
  <2>2. CASE i > n /\ i - n \in DOMAIN t /\ st[i] = t[i - n]
    <3>1. Paired(t, i - n)
      BY <1>4, <2>2 DEF Sound, Plain
    <3>2. QED
      BY <1>4, <2>2, <3>1, JoinPaired
  <2>3. QED
    BY <1>1, <1>4, <2>1, <2>2
<1>5. Last(st, list)
  <2> SUFFICES ASSUME NEW i \in DOMAIN st, NEW j \in DOMAIN st, i < j, st[i].file = "bak",
                      IsList(st[j])
               PROVE  st[i].value = Empty /\ list = Empty
    BY DEF Last
  <2>0. DOMAIN st \subseteq Int
    OBVIOUS
  <2> HIDE DEF n, st
  <2>1. CASE Opening(s, S, list) /\ i \in DOMAIN s
    BY <1>1, <2>1 DEF Opening
  <2>2. CASE Sound(s, S, list) /\ Plain(t)
    <3>1. i \in DOMAIN s /\ j \in DOMAIN s /\ st[i] = s[i] /\ st[j] = s[j]
      BY <1>1, <2>2 DEF Plain, IsList
    <3>2. QED
      BY <2>2, <3>1 DEF Sound, Last
  <2>3. CASE i \notin DOMAIN s /\ Sound(t, S, list)
    <3>1. j \notin DOMAIN s /\ i \in Int /\ j \in Int
      BY <1>1, <2>0, <2>3
    <3>2. PICK a \in DOMAIN t : a = i - n /\ st[i] = t[a]
      BY <1>1, <2>3
    <3>3. PICK b \in DOMAIN t : b = j - n /\ st[j] = t[b]
      BY <1>1, <3>1
    <3>4. a < b
      BY <1>1, <3>1, <3>2, <3>3
    <3>5. QED
      BY <2>3, <3>2, <3>3, <3>4 DEF Sound, Last
  <2>4. QED
    BY <2>1, <2>2, <2>3
<1>6. QED
  BY <1>3, <1>4, <1>5 DEF Sound

LEMMA PlainOpens ==
    ASSUME NEW s, Plain(s), NEW S, NEW list
    PROVE  Opening(s, S, list)
BY DEF Plain, Opening, Within, IsList

LEMMA OpeningIsSound ==
    ASSUME NEW s, NEW S, NEW list, Opening(s, S, list)
    PROVE  Sound(s, S, list)
BY DEF Opening, Sound, Last

\* profiles.json, then its backup.
LEMMA SavedSound ==
    ASSUME NEW L, NEW S, NEW list, L.listed \subseteq S
    PROVE  /\ Sound(saveProfilesState(L), S, list)
           /\ L = Empty /\ list = Empty => Opening(saveProfilesState(L), S, list)
<1> DEFINE s == saveProfilesState(L)
<1>1. /\ DOMAIN s = {1, 2} /\ s[1].file = "main" /\ s[1].value = L
      /\ s[2].file = "bak" /\ s[2].value = L
  BY DEF saveProfilesState, Write
<1> HIDE DEF s
<1>2. Within(s, S) /\ (\A i \in DOMAIN s : s[i].file = "bak" => i = 2 /\ Paired(s, i))
  BY <1>1 DEF Within, Paired
<1>3. Last(s, list)
  BY <1>1, <1>2 DEF Last
<1>4. QED
  BY <1>1, <1>2, <1>3 DEF Sound, Opening, s

\* What loadProfilesState returns.
LEMMA LoadedKept ==
    ASSUME StoreInv, Kept
    PROVE  /\ loadProfilesState \in {saved} \cup attempted /\ loadProfilesState.listed \subseteq Alive
           /\ ~Readable(main) /\ ~Readable(bak) => loadProfilesState = Empty /\ saved = Empty
<1>1. saved \in Lists /\ saved # None /\ saved # Corrupt
  BY StoreMarks DEF StoreInv, TypeOK
<1>2. CASE Readable(main)
  BY <1>2 DEF loadProfilesState, Kept, Readable
<1>3. CASE ~Readable(main)
  <2>1. loadProfilesState = saved
    BY <1>1, <1>3 DEF loadProfilesState, Kept, Readable
  <2>2. ~Readable(bak) => saved = Empty
    BY <1>1 DEF Kept, Readable
  <2>3. QED
    BY <1>3, <2>1, <2>2 DEF Kept
<1>4. QED
  BY <1>2, <1>3

LEMMA RecoveryOpens ==
    ASSUME StoreInv, Kept, NEW S, Alive \subseteq S
    PROVE  Opening(Recovery, S, saved)
<1> DEFINE aside == IF main = Corrupt THEN <<Write("main", None, None)>> ELSE <<>>
           restore == IF Readable(bak) THEN <<Write("main", None, loadProfilesState)>>
                                       ELSE saveProfilesState(loadProfilesState)
<1>1. Recovery = IF Readable(main) THEN <<>> ELSE aside \o restore
  BY DEF Recovery
<1>2. CASE Readable(main)
  BY <1>1, <1>2 DEF Opening, Within
<1>3. CASE ~Readable(main)
  <2>1. aside \in Seq(GoodWrites) /\ restore \in Seq(GoodWrites)
    BY MainWrite, SaveStateGood, LoadedGood
  <2>2. Opening(aside, S, saved)
    BY DEF Opening, Within, IsList, Write
  <2>3. Opening(restore, S, saved)
    <3>1. loadProfilesState.listed \subseteq S
      BY LoadedKept
    <3>2. CASE Readable(bak)
      <4>1. /\ DOMAIN restore = {1} /\ restore[1].file = "main"
            /\ restore[1].value = loadProfilesState
        BY <3>2 DEF Write
      <4> HIDE DEF restore
      <4>2. QED
        BY <3>1, <4>1 DEF Opening, Within, IsList
    <3>3. CASE ~Readable(bak)
      <4>1. restore = saveProfilesState(loadProfilesState)
        BY <3>3
      <4>2. loadProfilesState = Empty /\ saved = Empty
        BY <1>3, <3>3, LoadedKept
      <4> HIDE DEF restore
      <4>3. QED
        BY <3>1, <4>1, <4>2, SavedSound
    <3>4. QED
      BY <3>2, <3>3
  <2> HIDE DEF aside, restore
  <2>4. QED
    BY <1>1, <1>3, <2>1, <2>2, <2>3, JoinOpenings
<1>4. QED
  BY <1>2, <1>3

LEMMA SaveSound ==
    ASSUME StoreInv, Kept, NEW S, Alive \subseteq S, NEW L \in GoodLists, L.listed \subseteq S
    PROVE  Sound(Save(L), S, saved)
<1>1. Opening(Recovery, S, saved) /\ Sound(saveProfilesState(L), S, saved)
  BY RecoveryOpens, SavedSound
<1>2. QED
  BY <1>1, RecoveryGood, SaveStateGood, JoinSound DEF Save

\* Recovery, other files, and the list.
LEMMA SectionSound ==
    ASSUME StoreInv, Kept, NEW S, Alive \subseteq S, NEW L \in GoodLists, L.listed \subseteq S,
           NEW y \in Seq(GoodWrites), Plain(y)
    PROVE  Sound(Recovery \o y \o saveProfilesState(L), S, saved)
<1>1. Opening(Recovery \o y, S, saved)
  BY RecoveryOpens, PlainOpens, RecoveryGood, JoinOpenings
<1>2. Recovery \o y \in Seq(GoodWrites) /\ saveProfilesState(L) \in Seq(GoodWrites)
  BY RecoveryGood, SaveStateGood, Concatenated
<1>3. Sound(saveProfilesState(L), S, saved)
  BY SavedSound
<1>4. QED
  BY <1>1, <1>2, <1>3, JoinSound

LEMMA YamlPlain ==
    ASSUME NEW p, NEW c, NEW d
    PROVE  /\ Plain(<<Write("raw", p, c), Write("runtime", p, d)>>)
           /\ Plain(<<Write("runtime", p, c), Write("runtime", p, d)>>)
BY DEF Plain, Write

LEMMA CreateLocalSound ==
    ASSUME StoreInv, Kept, NEW p \in Profiles, NEW c \in Contents, NEW S, Alive \cup {p} \subseteq S
    PROVE  Sound(createLocalProfile(p, c), S, saved)
<1> DEFINE list == loadProfilesState
           first == IF list.listed = {} THEN {p} ELSE {}
           next == [active |-> IF list.listed = {} THEN p ELSE list.active,
                    listed |-> list.listed \cup {p}, flagged |-> list.flagged \cup first]
           yaml == <<Write("raw", p, c), Write("runtime", p, c)>>
<1>1. list \in GoodLists /\ list.listed \subseteq Alive
  BY LoadedGood, LoadedKept
<1>2. next \in GoodLists
  <2> HIDE DEF list
  <2> QED BY <1>1 DEF GoodLists, Lists, WellFormed
<1>3. next.listed \subseteq S
  BY <1>1
<1>4. yaml \in Seq(GoodWrites) /\ Plain(yaml)
  BY YamlPair, YamlPlain
<1>5. createLocalProfile(p, c) = Recovery \o yaml \o saveProfilesState(next)
  BY DEF createLocalProfile
<1> HIDE DEF next, yaml
<1>6. QED
  BY <1>2, <1>3, <1>4, <1>5, SectionSound

LEMMA ActivatedSound ==
    ASSUME StoreInv, Kept, NEW p \in Profiles, p \in Listed
    PROVE  Sound(Save(Activated(p)), Alive, saved)
<1>1. Activated(p) \in GoodLists
  BY LoadedGood DEF Activated, Listed, GoodLists, Lists, WellFormed
<1>2. Activated(p).listed \subseteq Alive
  BY LoadedGood, LoadedKept DEF Activated, GoodLists, Lists
<1>3. QED
  BY <1>1, <1>2, SaveSound

LEMMA DuplicateSound ==
    ASSUME StoreInv, Kept, NEW q \in Profiles, NEW p \in Profiles, NEW S, Alive \cup {p} \subseteq S
    PROVE  Sound(duplicateProfile(q, p), S, saved)
<1> DEFINE list == loadProfilesState
           content == IF raw[q] = None THEN DefaultRaw ELSE raw[q]
           copy == IF runtime[q] = None THEN content ELSE runtime[q]
           next == [list EXCEPT !.listed = @ \cup {p}]
           yaml == <<Write("raw", p, Torn), Write("raw", p, content),
                     Write("runtime", p, Torn), Write("runtime", p, copy)>>
<1>1. next \in GoodLists
  BY LoadedGood DEF GoodLists, Lists, WellFormed
<1>2. next.listed \subseteq S
  BY LoadedGood, LoadedKept DEF GoodLists, Lists
<1>3. content \in Contents \cup {None, Torn} /\ copy \in Contents \cup {None, Torn}
  BY DEF StoreInv, TypeOK
<1>4. yaml \in Seq(GoodWrites) /\ Plain(yaml)
  <2> HIDE DEF content, copy
  <2>1. yaml \in Seq(GoodWrites)
    BY <1>3, YamlWrite
  <2>2. Plain(yaml)
    BY DEF Plain, Write
  <2>3. QED
    BY <2>1, <2>2
<1>5. duplicateProfile(q, p) = Recovery \o yaml \o saveProfilesState(next)
  BY DEF duplicateProfile
<1> HIDE DEF yaml, next
<1>6. QED
  BY <1>1, <1>2, <1>4, <1>5, SectionSound

LEMMA DeleteSound ==
    ASSUME StoreInv, Kept, NEW p \in Profiles, CanDelete(p)
    PROVE  Sound(DeleteWrites(p), Alive, saved)
<1> DEFINE list == loadProfilesState
           next == [list EXCEPT !.listed = @ \ {p}, !.flagged = @ \cap {list.active}]
           gone == <<Write("raw", p, None), Write("runtime", p, None),
                     Write("selections", p, None)>>
<1>1. list \in GoodLists /\ list.listed \subseteq Alive /\ p # list.active
  BY LoadedGood, LoadedKept DEF CanDelete
<1>2. next \in GoodLists /\ next.listed \subseteq Alive
  <2> HIDE DEF list
  <2>1. next \in Lists /\ next.listed = list.listed \ {p}
          /\ next.active = list.active /\ next.flagged = list.flagged \cap {list.active}
    BY <1>1 DEF GoodLists, Lists
  <2>2. list.flagged \cap {list.active} \subseteq list.listed \ {p}
    BY <1>1 DEF GoodLists, Lists, WellFormed
  <2>3. list.active \in (list.listed \ {p}) \cup {None}
    BY <1>1 DEF GoodLists, WellFormed
  <2> HIDE DEF next
  <2>4. QED
    BY <1>1, <2>1, <2>2, <2>3 DEF GoodLists, WellFormed
<1>3. gone \in Seq(GoodWrites) /\ Plain(gone)
  <2>1. gone \in Seq(GoodWrites)
    BY YamlWrite, SelectionsWrite
  <2>2. Plain(gone)
    BY DEF Plain, Write
  <2>3. QED
    BY <2>1, <2>2
<1>4. DeleteWrites(p) = Save(next) \o gone
  BY DEF DeleteWrites
<1> HIDE DEF next, gone
<1>5. QED
  BY <1>2, <1>3, <1>4, SaveSound, SaveGood, JoinSound

LEMMA SaveRawSound ==
    ASSUME StoreInv, Kept, NEW p \in Profiles, NEW c \in Contents
    PROVE  Sound(saveRawYaml(p, c), Alive, saved)
<1> DEFINE yaml == <<Write("raw", p, c), Write("runtime", p, c)>>
<1>1. yaml \in Seq(GoodWrites) /\ Plain(yaml)
  BY YamlPair, YamlPlain
<1>2. loadProfilesState \in GoodLists /\ loadProfilesState.listed \subseteq Alive
  BY LoadedGood, LoadedKept
<1>3. saveRawYaml(p, c) = Recovery \o yaml \o saveProfilesState(loadProfilesState)
  BY DEF saveRawYaml
<1> HIDE DEF yaml
<1>4. QED
  BY <1>1, <1>2, <1>3, SectionSound

LEMMA SubscriptionSound ==
    ASSUME StoreInv, Kept, NEW p \in Profiles, NEW S, Alive \cup {p} \subseteq S
    PROVE  Sound(createSubscriptionProfile(p), S, saved)
<1>1. [loadProfilesState EXCEPT !.listed = @ \cup {p}] \in GoodLists
  BY LoadedGood DEF GoodLists, Lists, WellFormed
<1>2. [loadProfilesState EXCEPT !.listed = @ \cup {p}].listed \subseteq S
  BY LoadedGood, LoadedKept DEF GoodLists, Lists
<1>3. QED
  BY <1>1, <1>2, SaveSound DEF createSubscriptionProfile

\* An update never brings a profile back.
LEMMA UpdateSound ==
    ASSUME StoreInv, Kept, NEW j \in Jobs
    PROVE  Sound(Save(updateProfile(j)), Alive, saved)
<1>1. updateProfile(j) \in GoodLists
  BY LoadedGood DEF updateProfile, GoodLists, Lists, WellFormed, Jobs
<1>2. updateProfile(j).listed \subseteq Alive
  BY LoadedGood, LoadedKept DEF updateProfile, GoodLists, Lists
<1>3. QED
  BY <1>1, <1>2, SaveSound

LEMMA ResetSound ==
    ASSUME StoreInv, Kept, NEW n \in Nat, NEW seq \in [1..n -> Profiles], Len(seq) = n
    PROVE  Sound(ResetWrites(seq), Alive, saved)
<1> DEFINE yaml == [i \in 1..2 * n |->
             Write(IF i % 2 = 1 THEN "raw" ELSE "runtime", seq[(i + 1) \div 2], None)]
           rest == <<Write("main", None, None), Write("selections", None, None)>>
<1>1. \A i \in 1..2 * n : (i + 1) \div 2 \in 1..n
  OBVIOUS
<1>2. \A i \in 1..2 * n :
        Write(IF i % 2 = 1 THEN "raw" ELSE "runtime", seq[(i + 1) \div 2], None) \in GoodWrites
  BY <1>1, YamlWrite
<1>3. yaml \in Seq(GoodWrites) /\ DOMAIN yaml = 1..2 * n
  BY <1>2
<1>4. Plain(yaml)
  <2>1. \A i \in 1..2 * n : yaml[i].file \in {"raw", "runtime"}
    BY DEF Write
  <2> HIDE DEF yaml
  <2>2. QED
    BY <1>3, <2>1 DEF Plain
<1>5. rest \in Seq(GoodWrites) /\ Opening(rest, Alive, saved)
  <2>1. rest \in Seq(GoodWrites)
    BY MainWrite, SelectionsWrite
  <2>2. /\ DOMAIN rest = {1, 2} /\ rest[1].file = "main" /\ rest[1].value = None
        /\ rest[2].file = "selections"
    BY DEF Write
  <2> HIDE DEF rest
  <2>3. QED
    BY <2>1, <2>2 DEF Opening, Within, IsList
<1>6. Empty \in GoodLists /\ Empty.listed \subseteq Alive
  BY GoodAreLists DEF Empty
<1>7. ResetWrites(seq) = Recovery \o yaml \o rest \o saveProfilesState(Empty)
  BY DEF ResetWrites
<1> HIDE DEF yaml, rest
<1>8. /\ Opening(Recovery \o yaml, Alive, saved) /\ Recovery \o yaml \in Seq(GoodWrites)
  BY <1>3, <1>4, RecoveryOpens, PlainOpens, RecoveryGood, JoinOpenings, Concatenated
<1>9. Opening(Recovery \o yaml \o rest, Alive, saved) /\ Recovery \o yaml \o rest \in Seq(GoodWrites)
  BY <1>5, <1>8, JoinOpenings, Concatenated
<1>10. Sound(saveProfilesState(Empty), Alive, saved) /\ saveProfilesState(Empty) \in Seq(GoodWrites)
  BY <1>6, SavedSound, SaveStateGood
<1> DEFINE before == Recovery \o yaml \o rest
           end == saveProfilesState(Empty)
<1>11. /\ ResetWrites(seq) = before \o end
       /\ before \in Seq(GoodWrites) /\ Opening(before, Alive, saved)
       /\ end \in Seq(GoodWrites) /\ Sound(end, Alive, saved)
  BY <1>7, <1>9, <1>10
<1> HIDE DEF before, end
<1>12. QED
  BY <1>11, JoinSound

-----------------------------------------------------------------------------
(* Steps keep the lists *)

\* A section begins, and perhaps a profile is made.
LEMMA KeptBegins ==
    ASSUME KeptInv, Kept => Sound(todo', Alive', saved),
           \A p \in Profiles : kind[p] # "none" => kind'[p] # "none",
           UNCHANGED <<main, bak, ext, saved, attempted, deleted, overlapped>>
    PROVE  KeptInv'
<1> SUFFICES ASSUME overlapped' = FALSE PROVE Kept'
  BY DEF KeptInv
<1>1. Kept /\ Sound(todo', Alive', saved)
  BY DEF KeptInv
<1>2. Alive \subseteq Alive'
  BY DEF Alive
<1>3. /\ bak' = saved' \/ (bak' = None /\ saved' = Empty)
      /\ main' \in {None, Corrupt, saved'} \cup attempted'
      /\ ext'.st = "recover" => ext'.copy = saved'
      /\ deleted' \subseteq {p \in Profiles : kind'[p] # "none"}
  BY <1>1 DEF Kept
<1>4. saved'.listed \subseteq Alive' /\ (Readable(main)' => main'.listed \subseteq Alive')
  BY <1>1, <1>2 DEF Kept, Readable
<1>5. /\ Within(todo', Alive') /\ Last(todo', saved')
      /\ \A i \in DOMAIN todo' : todo'[i].file = "bak" => Paired(todo', i)
  BY <1>1 DEF Sound
<1>6. QED
  BY <1>3, <1>4, <1>5 DEF Kept, Within, Last, Paired, IsList

\* The profiles there were before.
LEMMA AliveMade ==
    ASSUME StoreInv, Kept, NEW p \in Profiles, Fresh(p), NEW k \in {"local", "subscription"},
           kind' = [kind EXCEPT ![p] = k], UNCHANGED deleted
    PROVE  Alive \cup {p} \subseteq Alive' /\ \A q \in Profiles : kind[q] # "none" => kind'[q] # "none"
<1>1. kind \in [Profiles -> {"none", "local", "subscription"}]
  BY DEF StoreInv, TypeOK
<1>2. p \notin deleted
  BY DEF Kept, Fresh
<1>3. QED
  BY <1>1, <1>2 DEF Alive

LEMMA AliveSame == UNCHANGED <<kind, deleted>> => Alive' = Alive
BY DEF Alive

LEMMA MadeKept ==
    ASSUME StoreInv, KeptInv, NEW p \in Profiles,
           \/ \E c \in Contents : CreateLocal(p, c)
           \/ AddSubscription(p)
           \/ \E q \in Profiles : Duplicate(q, p)
    PROVE  KeptInv'
<1>1. UNCHANGED <<main, bak, ext, saved, attempted, deleted, overlapped>> /\ Fresh(p)
  BY DEF CreateLocal, AddSubscription, Duplicate, Begin, files
<1>2. kind \in [Profiles -> {"none", "local", "subscription"}]
  BY DEF StoreInv, TypeOK
<1>3. \A r \in Profiles : kind[r] # "none" => kind'[r] # "none"
  BY <1>1, <1>2 DEF CreateLocal, AddSubscription, Duplicate, Fresh
<1>4. ASSUME Kept PROVE Sound(todo', Alive', saved)
  <2>1. PICK S : S = Alive'
    OBVIOUS
  <2>2. CASE \E c \in Contents : CreateLocal(p, c)
    <3>1. PICK c \in Contents : CreateLocal(p, c)
      BY <2>2
    <3>2. kind' = [kind EXCEPT ![p] = "local"] /\ todo' = createLocalProfile(p, c)
      BY <3>1 DEF CreateLocal, Begin
    <3>3. Alive \cup {p} \subseteq S
      BY <1>1, <1>4, <2>1, <3>2, AliveMade
    <3>4. Sound(createLocalProfile(p, c), S, saved)
      BY <1>4, <3>3, CreateLocalSound
    <3>5. QED
      BY <2>1, <3>2, <3>4
  <2>3. CASE AddSubscription(p)
    <3>2. kind' = [kind EXCEPT ![p] = "subscription"] /\ todo' = createSubscriptionProfile(p)
      BY <2>3 DEF AddSubscription, Begin
    <3>3. Alive \cup {p} \subseteq S
      BY <1>1, <1>4, <2>1, <3>2, AliveMade
    <3>4. Sound(createSubscriptionProfile(p), S, saved)
      BY <1>4, <3>3, SubscriptionSound
    <3>5. QED
      BY <2>1, <3>2, <3>4
  <2>4. CASE \E q \in Profiles : Duplicate(q, p)
    <3>1. PICK q \in Profiles : Duplicate(q, p)
      BY <2>4
    <3>2. kind' = [kind EXCEPT ![p] = kind[q]] /\ todo' = duplicateProfile(q, p) /\ q \in Listed
      BY <3>1 DEF Duplicate, Begin
    <3>3. kind[q] \in {"local", "subscription"}
      BY <1>2, <1>4, <3>2, LoadedKept DEF Alive, Listed
    <3>4. PICK k \in {"local", "subscription"} : k = kind[q]
      BY <3>3
    <3>5. Alive \cup {p} \subseteq S
      BY <1>1, <1>4, <2>1, <3>2, <3>4, AliveMade
    <3>6. Sound(duplicateProfile(q, p), S, saved)
      BY <1>4, <3>5, DuplicateSound
    <3>7. QED
      BY <2>1, <3>2, <3>6
  <2>5. QED
    BY <2>2, <2>3, <2>4
<1>5. QED
  BY <1>1, <1>3, <1>4, KeptBegins

LEMMA SectionKept ==
    ASSUME KeptInv, Kept => Sound(todo', Alive, saved),
           UNCHANGED <<main, bak, ext, kind, saved, attempted, deleted, overlapped>>
    PROVE  KeptInv'
<1>1. Alive' = Alive
  BY AliveSame
<1>2. Kept => Sound(todo', Alive', saved)
  BY <1>1
<1>3. QED
  BY <1>2, KeptBegins

LEMMA NothingSound == ASSUME NEW S, NEW list PROVE Sound(<<>>, S, list)
BY DEF Sound, Within, Last

\* Operations of the user that make no profile.
LEMMA UserKept ==
    ASSUME StoreInv, KeptInv,
           \/ \E p \in Profiles : Switch(p) \/ Delete(p) \/ Refresh(p)
           \/ \E p \in Profiles, c \in Contents : SaveConfig(p, c)
           \/ UpdateSettings \/ Reset \/ Reload
    PROVE  KeptInv'
<1>1. UNCHANGED <<main, bak, ext, kind, saved, attempted, deleted, overlapped>>
  BY DEF Switch, Delete, Refresh, SaveConfig, UpdateSettings, Reset, Reload, Begin, Quiet, files
<1>2. ASSUME Kept PROVE Sound(todo', Alive, saved)
  <2>0. Sound(Recovery, Alive, saved)
    BY <1>2, RecoveryOpens, OpeningIsSound
  <2>1. ASSUME NEW p \in Profiles, Switch(p) PROVE Sound(todo', Alive, saved)
    BY <1>2, <2>1, ActivatedSound DEF Switch, Begin
  <2>2. ASSUME NEW p \in Profiles, Delete(p) PROVE Sound(todo', Alive, saved)
    BY <1>2, <2>2, DeleteSound DEF Delete, Begin
  <2>3. ASSUME NEW p \in Profiles, Refresh(p) PROVE Sound(todo', Alive, saved)
    BY <2>0, <2>3 DEF Refresh, Begin
  <2>4. ASSUME NEW p \in Profiles, NEW c \in Contents, SaveConfig(p, c)
        PROVE  Sound(todo', Alive, saved)
    BY <1>2, <2>4, SaveRawSound DEF SaveConfig, Begin
  <2>5. CASE UpdateSettings
    <3> DEFINE p == loadProfilesState.active
               yaml == <<Write("runtime", p, Torn), Write("runtime", p, raw[p])>>
    <3>1. todo' = Recovery \o yaml /\ p # None
      BY <2>5 DEF UpdateSettings, Begin
    <3>2. p \in Profiles
      BY <3>1, LoadedGood DEF GoodLists, Lists
    <3>3. raw[p] \in Contents \cup {None, Torn}
      BY <3>2 DEF StoreInv, TypeOK
    <3> HIDE DEF p
    <3>4. yaml \in Seq(GoodWrites) /\ Plain(yaml)
      <4>1. yaml \in Seq(GoodWrites)
        BY <3>2, <3>3, YamlWrite
      <4>2. Plain(yaml)
        BY DEF Plain, Write
      <4>3. QED
        BY <4>1, <4>2
    <3> HIDE DEF yaml
    <3>5. QED
      BY <2>0, <3>1, <3>4, RecoveryGood, JoinSound
  <2>6. CASE Reset
    <3>1. PICK seq \in [1..Cardinality(Listed) -> Listed] : todo' = ResetWrites(seq)
      BY <2>6 DEF Reset, Begin
    <3>2. Listed \subseteq Profiles
      BY LoadedGood DEF Listed, GoodLists, Lists
    <3>3. Cardinality(Listed) \in Nat
      BY <3>2, FS_Subset, FS_CardinalityType
    <3>4. PICK n \in Nat : n = Cardinality(Listed)
      BY <3>3
    <3>5. seq \in [1..n -> Profiles] /\ Len(seq) = n
      BY <3>1, <3>2, <3>4
    <3>6. QED
      BY <1>2, <3>1, <3>5, ResetSound
  <2>7. CASE Reload
    BY <2>0, <2>7 DEF Reload, Begin
  <2>8. QED
    BY <2>1, <2>2, <2>3, <2>4, <2>5, <2>6, <2>7
<1>3. QED
  BY <1>1, <1>2, SectionKept

\* The end of an update, and what a section goes on with.
LEMMA UpdateKept ==
    ASSUME StoreInv, KeptInv, UpdateNext \/ Continue
    PROVE  KeptInv'
<1>1. UNCHANGED <<main, bak, ext, kind, saved, attempted, deleted, overlapped>>
  BY DEF UpdateNext, Continue, DownloadOk, DownloadNotModified, DownloadFails, Ends, Begin, files
<1>2. ASSUME Kept PROVE Sound(todo', Alive, saved)
  <2>0. Sound(Recovery, Alive, saved)
    BY <1>2, RecoveryOpens, OpeningIsSound
  <2>1. ASSUME NEW u \in Updates, Ends(u),
               \/ \E c \in Contents : todo' = Replace(updates[u].p, c) \o Save(updateProfile(updates[u]))
               \/ todo' = Save(updateProfile(updates[u]))
        PROVE  Sound(todo', Alive, saved)
    <3>1. PICK j \in Jobs : j = updates[u]
      BY <2>1, EndsKeeps
    <3>2. Sound(Save(updateProfile(j)), Alive, saved) /\ Save(updateProfile(j)) \in Seq(GoodWrites)
      BY <1>2, UpdateSound, UpdateGood
    <3>3. ASSUME NEW c \in Contents PROVE Sound(Replace(j.p, c) \o Save(updateProfile(j)), Alive, saved)
      <4>1. Replace(j.p, c) \in Seq(GoodWrites) /\ Plain(Replace(j.p, c))
        BY YamlPair, YamlPlain DEF Replace, Jobs
      <4>2. Opening(Replace(j.p, c), Alive, saved)
        BY <4>1, PlainOpens
      <4>3. QED
        BY <3>2, <4>1, <4>2, JoinSound
    <3>4. QED
      BY <2>1, <3>1, <3>2, <3>3
  <2>2. CASE UpdateNext
    BY <2>1, <2>2 DEF UpdateNext, DownloadOk, DownloadNotModified, DownloadFails, recordFailure, Begin
  <2>3. CASE Continue
    <3>1. after.op # "none" => after.p \in Profiles
      BY DEF StoreInv, TypeOK
    <3>2. PICK p : p = after.p
      OBVIOUS
    <3>3. \/ todo' = Recovery
          \/ p \in Profiles /\ p \in Listed /\ todo' = Save(Activated(p))
          \/ p \in Profiles /\ CanDelete(p) /\ todo' = DeleteWrites(p)
      BY <2>3, <3>1, <3>2 DEF Continue, Begin
    <3>4. QED
      BY <1>2, <2>0, <3>3, ActivatedSound, DeleteSound
  <2>4. QED
    BY <2>2, <2>3
<1>3. QED
  BY <1>1, <1>2, SectionKept

\* What is left of a section.
LEMMA TailIndex ==
    ASSUME NEW T, NEW s \in Seq(T), s # <<>>
    PROVE  /\ Head(s) = s[1] /\ 1 \in DOMAIN s /\ DOMAIN s \subseteq Int
           /\ \A i \in DOMAIN Tail(s) : i \in Nat /\ i >= 1 /\ i + 1 \in DOMAIN s /\ Tail(s)[i] = s[i + 1]
           /\ \A i \in DOMAIN s : i > 1 => i - 1 \in DOMAIN Tail(s)
OBVIOUS

LEMMA WriteNextKept ==
    ASSUME StoreInv, KeptInv, WriteNext
    PROVE  KeptInv'
<1> SUFFICES ASSUME overlapped' = FALSE PROVE Kept'
  BY DEF KeptInv
<1> DEFINE w == todo[1]
<1>1. todo \in Seq(GoodWrites) /\ todo # <<>> /\ todo' = Tail(todo)
  BY DEF StoreInv, GoodWrites, WriteNext
<1>2. /\ Head(todo) = w /\ 1 \in DOMAIN todo /\ DOMAIN todo \subseteq Int
      /\ \A i \in DOMAIN todo' :
             i \in Nat /\ i >= 1 /\ i + 1 \in DOMAIN todo /\ todo'[i] = todo[i + 1]
      /\ \A i \in DOMAIN todo : i > 1 => i - 1 \in DOMAIN todo'
  BY <1>1, TailIndex
<1>3. w \in GoodWrites
  BY <1>1, <1>2
<1>4. /\ main' = (IF w.file = "main" THEN w.value ELSE main)
      /\ bak' = (IF w.file = "bak" THEN w.value ELSE bak)
      /\ saved' = (IF w.file = "bak" THEN w.value ELSE saved)
      /\ attempted' = CASE w.file = "bak" -> {}
                        [] w.file = "main" /\ Readable(w.value) -> attempted \cup {w.value}
                        [] OTHER -> attempted
      /\ deleted' = (IF w.file = "bak"
                       THEN deleted \cup (saved.listed \ ListedIn(w.value)) ELSE deleted)
      /\ kind' = kind
  BY <1>2 DEF WriteNext
<1>5. overlapped = FALSE /\ (w.file \in {"main", "bak"} => ext.st # "recover")
  <2>1. overlapped' = (overlapped \/ (w.file \in {"main", "bak"} /\ ext.st = "recover"))
    BY <1>2 DEF WriteNext
  <2>2. overlapped \in BOOLEAN
    BY DEF StoreInv, TypeOK, StoreFlagsOK
  <2> HIDE DEF w
  <2>3. QED
    BY <2>1, <2>2, Zenon
<1>6. ext'.st = ext.st /\ ext'.copy = ext.copy
  <2>1. ext \in ExtStates
    BY ExtTypes
  <2>2. PICK t : ext' = [ext EXCEPT !.touched = t]
    BY DEF WriteNext
  <2>3. QED
    BY <2>1, <2>2 DEF ExtStates
<1>7. Kept
  BY <1>5 DEF KeptInv
<1>8. /\ w.file = "main" => w.value \in GoodLists \cup {None}
      /\ w.file = "bak" => w.value \in GoodLists
  BY <1>3, WriteMembers
<1>9. \A list \in GoodLists : list \in Lists /\ list # None /\ list # Corrupt /\ list.listed \subseteq Profiles
  BY GoodAreLists, StoreMarks DEF Lists
<1> HIDE DEF w
<1>10. /\ bak' = saved' \/ (bak' = None /\ saved' = Empty)
       /\ ext'.st = "recover" => ext'.copy = saved'
  BY <1>4, <1>5, <1>6, <1>7 DEF Kept
<1>11. w.file = "bak" => main \in {w.value, Corrupt}
  <2>1. ~Paired(todo, 1)
    BY <1>1 DEF Paired
  <2>2. QED
    BY <1>2, <1>7, <2>1 DEF Kept, w
<1>12. main' \in {None, Corrupt, saved'} \cup attempted'
  <2>1. CASE w.file = "bak"
    BY <1>4, <1>11, <2>1
  <2>2. CASE w.file = "main"
    BY <1>4, <1>8, <1>9, <2>2 DEF Readable
  <2>3. CASE w.file \notin {"main", "bak"}
    BY <1>4, <1>7, <2>3 DEF Kept
  <2>4. QED
    BY <2>1, <2>2, <2>3
<1>13. saved.listed \subseteq Alive /\ Alive \subseteq {p \in Profiles : kind[p] # "none"}
  BY <1>7 DEF Kept, Alive
<1>14. deleted' \subseteq {p \in Profiles : kind'[p] # "none"}
  BY <1>4, <1>7, <1>13 DEF Kept
<1>15. IsList(w) => w.value.listed \subseteq Alive
  BY <1>2, <1>7 DEF Kept, Within, w
<1>16. ASSUME w.file = "bak"
       PROVE  /\ saved' = w.value /\ w.value.listed \subseteq Alive'
              /\ (\E j \in DOMAIN todo : j > 1 /\ IsList(todo[j])) =>
                     Alive' = Alive /\ w.value = Empty /\ saved = Empty
  <2>1. w.value \in GoodLists /\ w.value # None /\ ListedIn(w.value) = w.value.listed
    BY <1>8, <1>9, <1>16 DEF ListedIn, Readable
  <2>2. w.value.listed \subseteq Alive /\ saved' = w.value
    BY <1>4, <1>15, <1>16, <2>1 DEF IsList
  <2>3. Alive' = Alive \ (saved.listed \ w.value.listed)
    BY <1>4, <1>16, <2>1 DEF Alive
  <2>4. ASSUME NEW j \in DOMAIN todo, j > 1, IsList(todo[j])
        PROVE  w.value = Empty /\ saved = Empty
    BY <1>2, <1>7, <1>16, <2>4 DEF Kept, Last, w
  <2>5. saved = Empty => Alive' = Alive
    BY <2>3 DEF Empty
  <2>6. QED
    BY <2>2, <2>3, <2>4, <2>5
<1>17. w.file # "bak" => Alive' = Alive
  BY <1>4 DEF Alive
<1>18. saved'.listed \subseteq Alive' /\ (Readable(main)' => main'.listed \subseteq Alive')
  <2>1. CASE w.file = "bak"
    BY <1>4, <1>11, <1>16, <2>1 DEF Readable
  <2>2. CASE w.file = "main"
    BY <1>4, <1>7, <1>15, <1>17, <2>2 DEF Readable, IsList, Kept
  <2>3. CASE w.file \notin {"main", "bak"}
    BY <1>4, <1>7, <1>17, <2>3 DEF Readable, Kept
  <2>4. QED
    BY <2>1, <2>2, <2>3
<1>19. Within(todo', Alive')
  <2> SUFFICES ASSUME NEW i \in DOMAIN todo', IsList(todo'[i]) PROVE todo'[i].value.listed \subseteq Alive'
    BY DEF Within
  <2>1. PICK j \in DOMAIN todo : j > 1 /\ todo'[i] = todo[j]
    BY <1>2
  <2>2. Alive' = Alive
    BY <1>16, <1>17, <2>1
  <2>3. QED
    BY <1>7, <2>1, <2>2 DEF Kept, Within
<1>20. Last(todo', saved')
  <2> SUFFICES ASSUME NEW i \in DOMAIN todo', NEW j \in DOMAIN todo', i < j,
                      todo'[i].file = "bak", IsList(todo'[j])
               PROVE  todo'[i].value = Empty /\ saved' = Empty
    BY DEF Last
  <2>1. /\ i + 1 \in DOMAIN todo /\ j + 1 \in DOMAIN todo /\ i + 1 < j + 1 /\ j + 1 > 1
        /\ todo'[i] = todo[i + 1] /\ todo'[j] = todo[j + 1]
    BY <1>2
  <2>2. todo'[i].value = Empty /\ saved = Empty
    BY <1>7, <2>1 DEF Kept, Last
  <2>3. w.file = "bak" => saved' = Empty
    BY <1>16, <2>1
  <2>4. QED
    BY <1>4, <2>2, <2>3
<1>21. ASSUME NEW i \in DOMAIN todo', todo'[i].file = "bak"
       PROVE  Paired(todo', i) \/ (i = 1 /\ main' \in {todo'[i].value, Corrupt})
  <2>1. i \in Nat /\ i >= 1 /\ i + 1 \in DOMAIN todo /\ todo'[i] = todo[i + 1]
    BY <1>2
  <2>2. Paired(todo, i + 1)
    BY <1>7, <1>21, <2>1 DEF Kept
  <2>3. i \in DOMAIN todo /\ todo[i].file = "main" /\ todo[i].value = todo'[i].value
    BY <2>1, <2>2 DEF Paired
  <2>4. CASE i = 1
    BY <1>4, <2>3, <2>4 DEF w
  <2>5. CASE i # 1
    <3>1. i - 1 \in DOMAIN todo' /\ todo'[i - 1] = todo[i]
      <4>1. i - 1 \in DOMAIN todo' /\ (i - 1) + 1 = i
        BY <1>2, <2>1, <2>3, <2>5
      <4>2. QED
        BY <1>2, <4>1
    <3>2. QED
      BY <2>3, <3>1 DEF Paired
  <2>6. QED
    BY <2>4, <2>5
<1>22. QED
  BY <1>10, <1>12, <1>14, <1>18, <1>19, <1>20, <1>21 DEF Kept, Within, Last, Paired, IsList

\* Faults of the UI process.
LEMMA UiFaultsKept ==
    ASSUME StoreInv, KeptInv, UiKill \/ WriteFails
    PROVE  KeptInv'
<1>1. UNCHANGED <<main, bak, ext, kind, saved, attempted, deleted, overlapped>>
  BY DEF UiKill, WriteFails, files
<1>2. ASSUME Kept PROVE Sound(todo', Alive, saved)
  <2>1. CASE todo' = <<>>
    BY <2>1, NothingSound
  <2>2. CASE WriteFails /\ commit # None
    <3>1. PICK j \in Jobs : j = commit
      BY <2>2, QuietTypes
    <3>2. todo' = Save(updateProfile(j))
      BY <2>2, <3>1 DEF WriteFails, recordFailure
    <3>3. QED
      BY <1>2, <3>2, UpdateSound
  <2>3. QED
    BY <2>1, <2>2 DEF UiKill, WriteFails
<1>3. QED
  BY <1>1, <1>2, SectionKept

\* The extension only ever puts the backup in place of a file that cannot be read.
LEMMA ExtKept ==
    ASSUME StoreInv, KeptInv, ExtNext \/ ExtKill \/ CorruptMain \/ UNCHANGED vars
    PROVE  KeptInv'
<1>1. UNCHANGED <<bak, kind, todo, saved, attempted, deleted>>
  BY DEF ExtNext, ExtRead, ExtRecoverRead, ExtRecover, ExtTruncate, ExtWrite, ExtLaunched, ExtFrame,
         ExtKill, CorruptMain, vars, files, section, history
<1>2. ext \in ExtStates /\ overlapped \in BOOLEAN
  BY ExtTypes
<1>3. overlapped' = FALSE => overlapped = FALSE /\ (ExtRecover => todo = <<>>)
  <2>1. CASE ExtRecover
    <3>1. overlapped' = (overlapped \/ todo # <<>>)
      BY <2>1 DEF ExtRecover
    <3>2. QED
      BY <1>2, <3>1, Zenon
  <2>2. CASE ~ExtRecover
    <3>1. overlapped' = overlapped
      BY <2>2 DEF ExtNext, ExtRead, ExtRecoverRead, ExtTruncate, ExtWrite, ExtLaunched, ExtKill,
                  CorruptMain, vars, history
    <3>2. QED
      BY <2>2, <3>1
  <2>3. QED
    BY <2>1, <2>2
<1> SUFFICES ASSUME overlapped' = FALSE PROVE Kept'
  BY DEF KeptInv
<1>4. Kept /\ (ExtRecover => todo = <<>>)
  BY <1>3 DEF KeptInv
<1>5. Alive' = Alive
  BY <1>1, AliveSame
<1>6. main' = main \/ (ExtRecover /\ main' = ext.copy /\ ext.st = "recover") \/ main' = Corrupt
  BY DEF ExtNext, ExtRead, ExtRecoverRead, ExtRecover, ExtTruncate, ExtWrite, ExtLaunched, ExtKill,
         CorruptMain, vars, files
<1>7. /\ main' \in {None, Corrupt, saved} \cup attempted
      /\ Readable(main)' => main'.listed \subseteq Alive
      /\ main' \in {main, Corrupt} \/ todo = <<>>
  BY <1>4, <1>6 DEF Kept, Readable
<1>8. ext'.st = "recover" => ext'.copy = saved
  <2>1. CASE ExtRecoverRead
    <3>1. ext'.copy = loadProfilesState /\ ~Readable(main) /\ Readable(bak)
      BY <1>2, <2>1 DEF ExtRecoverRead, ExtStates
    <3>2. QED
      BY <1>4, <3>1 DEF Kept, loadProfilesState, Readable
  <2>2. CASE ~ExtRecoverRead
    <3>1. ext' = ext \/ ext'.st # "recover"
      BY <1>2, <2>2, NoExtState
         DEF ExtNext, ExtRead, ExtRecover, ExtTruncate, ExtWrite, ExtLaunched, ExtKill, CorruptMain,
             vars, ExtStates
    <3>2. QED
      BY <1>4, <3>1 DEF Kept
  <2>3. QED
    BY <2>1, <2>2
<1>9. Within(todo', Alive') /\ Last(todo', saved')
  BY <1>1, <1>4, <1>5 DEF Kept
<1>10. \A i \in DOMAIN todo' : todo'[i].file = "bak" =>
          Paired(todo', i) \/ (i = 1 /\ main' \in {todo'[i].value, Corrupt})
  <2>1. CASE todo = <<>>
    BY <1>1, <2>1
  <2>2. CASE main' \in {main, Corrupt}
    BY <1>1, <1>4, <2>2 DEF Kept
  <2>3. QED
    BY <1>7, <2>1, <2>2
<1>11. QED
  BY <1>1, <1>4, <1>5, <1>7, <1>8, <1>9, <1>10 DEF Kept, Within, Last, Paired, IsList

LEMMA InitKept == Init => KeptInv
<1> SUFFICES ASSUME Init PROVE Kept
  BY DEF KeptInv
<1>1. PICK list \in Lists :
        /\ main \in (IF list = Empty THEN {None} ELSE {list}) /\ bak = main /\ saved = list
        /\ \A p \in Profiles : kind[p] = "none" <=> p \notin list.listed
  BY DEF Init
<1>2. todo = <<>> /\ ext = NoExt /\ deleted = {}
  BY DEF Init
<1>3. list.listed = Alive
  BY <1>1, <1>2 DEF Alive, Lists
<1>4. /\ bak = saved \/ (bak = None /\ saved = Empty)
      /\ main \in {None, Corrupt, saved} \cup attempted
      /\ Readable(main) => main = list
  BY <1>1 DEF Readable
<1>5. ext.st # "recover"
  BY <1>2, NoExtState
<1>6. QED
  BY <1>1, <1>2, <1>3, <1>4, <1>5 DEF Kept, Within, Last

LEMMA StepKept == StoreInv /\ KeptInv /\ [Next]_vars => KeptInv'
<1> SUFFICES ASSUME StoreInv, KeptInv, [Next]_vars PROVE KeptInv'
  OBVIOUS
<1>1. CASE UserNext
  BY <1>1, MadeKept, UserKept DEF UserNext
<1>2. CASE UpdateNext \/ Continue
  BY <1>2, UpdateKept
<1>3. CASE Reload
  BY <1>3, UserKept
<1>4. CASE WriteNext
  BY <1>4, WriteNextKept
<1>5. CASE ExtNext \/ UNCHANGED vars
  BY <1>5, ExtKept
<1>6. CASE FaultNext
  BY <1>6, UiFaultsKept, ExtKept DEF FaultNext
<1>7. QED
  BY <1>1, <1>2, <1>3, <1>4, <1>5, <1>6 DEF Next

LEMMA AlwaysKept == Spec => [](StoreInv /\ KeptInv)
<1>1. StoreInv /\ KeptInv /\ [Next]_vars => (StoreInv /\ KeptInv)'
  BY StepKept, StoreStep
<1>2. Init => StoreInv /\ KeptInv
  BY StoreInit, InitKept
<1>3. QED
  BY <1>1, <1>2, PTL DEF Spec

\* What a reader gets is the list of the last completed save, or of one that was begun since,
\* whatever is killed, fails or is damaged in between.
THEOREM ListsSurvive == Spec => []ListSurvives
<1>1. StoreInv /\ KeptInv => ListSurvives
  <2> SUFFICES ASSUME StoreInv, KeptInv, ~overlapped PROVE loadProfilesState \in {saved} \cup attempted
    BY DEF ListSurvives
  <2>1. overlapped \in BOOLEAN
    BY ExtTypes
  <2>2. overlapped = FALSE
    BY <2>1, Zenon
  <2>3. QED
    BY <2>2, LoadedKept DEF KeptInv
<1>2. QED
  BY <1>1, AlwaysKept, PTL

\* A profile that a completed save has removed is never listed again: every section writes
\* lists of living profiles, an update that ends after the deletion included.
THEOREM DeletedAreGone == Spec => []DeletedStaysDeleted
<1>1. StoreInv /\ KeptInv => DeletedStaysDeleted
  <2> SUFFICES ASSUME StoreInv, KeptInv, ~overlapped PROVE deleted \cap Listed = {}
    BY DEF DeletedStaysDeleted
  <2>1. overlapped \in BOOLEAN
    BY ExtTypes
  <2>2. overlapped = FALSE
    BY <2>1, Zenon
  <2>3. Listed \subseteq Alive
    BY <2>2, LoadedKept DEF KeptInv, Listed
  <2>4. QED
    BY <2>3 DEF Alive
<1>2. QED
  BY <1>1, AlwaysKept, PTL

-----------------------------------------------------------------------------
(* What a section writes *)

Pair(p, c) == <<Write("raw", p, c), Write("runtime", p, c)>>
Copied(p, c, d) == <<Write("raw", p, Torn), Write("raw", p, c), Write("runtime", p, Torn),
                     Write("runtime", p, d)>>
Erased(p) == <<Write("raw", p, None), Write("runtime", p, None), Write("selections", p, None)>>

\* Sections that make no profile.
OldSection ==
    \/ todo' = Recovery
    \/ \E L \in GoodLists : L.listed \subseteq Listed /\ todo' = Save(L)
    \/ \E p \in Profiles, c \in Contents, L \in GoodLists :
           p \in Listed /\ L.listed \subseteq Listed
             /\ todo' = Recovery \o Pair(p, c) \o saveProfilesState(L)
    \/ \E p \in Profiles, c \in Contents, L \in GoodLists :
           (\E u \in Updates : updates[u] # None /\ updates[u].p = p)
             /\ L.listed \subseteq Listed /\ todo' = Pair(p, c) \o Save(L)
    \/ \E p \in Profiles :
           /\ p \in Listed /\ raw[p] # None
           /\ todo' = Recovery \o <<Write("runtime", p, Torn), Write("runtime", p, raw[p])>>
    \/ \E p \in Profiles, L \in GoodLists :
           p \in Listed /\ L.listed = Listed \ {p} /\ todo' = Save(L) \o Erased(p)

\* Sections that make the profile p.
NewSection(p) ==
    /\ Fresh(p)
    /\ \E L \in GoodLists :
        /\ L.listed = Listed \cup {p}
        /\ \/ kind' = [kind EXCEPT ![p] = "subscription"] /\ todo' = Save(L) /\ cut' = cut
           \/ /\ kind' = [kind EXCEPT ![p] = "local"] /\ cut' = cut
              /\ \E c \in Contents : todo' = Recovery \o Pair(p, c) \o saveProfilesState(L)
           \/ \E q \in Profiles, c \in Contents \cup {Torn}, d \in Contents \cup {Torn} :
                  /\ q \in Listed /\ kind' = [kind EXCEPT ![p] = kind[q]]
                  /\ cut' = IF q \in cut \/ ext.p = q THEN cut \cup {p} ELSE cut
                  /\ c = IF raw[q] = None THEN DefaultRaw ELSE raw[q]
                  /\ d = IF runtime[q] = None THEN c ELSE runtime[q]
                  /\ todo' = Recovery \o Copied(p, c, d) \o saveProfilesState(L)

ResetSection ==
    \E n \in Nat : \E seq \in [1..n -> Profiles] :
        /\ Len(seq) = n /\ \A i \in 1..n : seq[i] \in Listed
        /\ \A i, j \in 1..n : seq[i] = seq[j] => i = j
        /\ n = 0 \/ Listed # {}
        /\ todo' = ResetWrites(seq)

SectionStep ==
    /\ todo = <<>> /\ UNCHANGED <<files, ext, saved, attempted, deleted, erased, held, overlapped>>
    /\ \A u \in Updates : updates'[u] = None \/ updates'[u] = updates[u]
                            \/ updates'[u].p \in Listed
    /\ \/ OldSection /\ UNCHANGED <<kind, cut, resetting>>
       \/ (\E p \in Profiles : NewSection(p)) /\ UNCHANGED resetting
       \/ ResetSection /\ UNCHANGED <<kind, cut>> /\ resetting' = TRUE

LEMMA BeginFrame ==
    ASSUME NEW s, NEW a, Begin(s, a), todo = <<>>
    PROVE  /\ todo' = s /\ todo = <<>>
           /\ UNCHANGED <<files, ext, saved, attempted, deleted, erased, held, overlapped>>
BY DEF Begin

LEMMA ListedProfiles == ASSUME StoreInv PROVE Listed \subseteq Profiles
BY LoadedGood DEF Listed, GoodLists, Lists

LEMMA SameUpdates ==
    ASSUME UNCHANGED updates
    PROVE  \A u \in Updates : updates'[u] = None \/ updates'[u] = updates[u]
                                \/ updates'[u].p \in Listed
OBVIOUS

LEMMA MadeSection ==
    ASSUME StoreInv, NEW p \in Profiles,
           \/ \E c \in Contents : CreateLocal(p, c)
           \/ AddSubscription(p)
           \/ \E q \in Profiles : Duplicate(q, p)
    PROVE  SectionStep
<1>1. /\ todo = <<>> /\ UNCHANGED <<files, ext, saved, attempted, deleted, erased, held, overlapped>>
      /\ UNCHANGED <<updates, resetting>> /\ Fresh(p)
  BY DEF CreateLocal, AddSubscription, Duplicate, UserOp, Idle, Begin
<1> DEFINE list == loadProfilesState
<1>2. list \in GoodLists /\ list.listed = Listed
  BY LoadedGood DEF Listed
<1>3. CASE \E c \in Contents : CreateLocal(p, c)
  <2>1. PICK c \in Contents : CreateLocal(p, c)
    BY <1>3
  <2> DEFINE first == IF list.listed = {} THEN {p} ELSE {}
             L == [active |-> IF list.listed = {} THEN p ELSE list.active,
                   listed |-> list.listed \cup {p}, flagged |-> list.flagged \cup first]
  <2>2. /\ kind' = [kind EXCEPT ![p] = "local"] /\ cut' = cut
        /\ todo' = Recovery \o Pair(p, c) \o saveProfilesState(L)
    BY <2>1 DEF CreateLocal, Begin, createLocalProfile, Pair
  <2>3. L \in GoodLists /\ L.listed = Listed \cup {p}
    <3> HIDE DEF list
    <3> QED BY <1>2 DEF GoodLists, Lists, WellFormed
  <2> HIDE DEF L
  <2>4. NewSection(p)
    BY <1>1, <2>2, <2>3 DEF NewSection
  <2>5. QED
    BY <1>1, <2>4, SameUpdates DEF SectionStep
<1>4. CASE AddSubscription(p)
  <2> DEFINE L == [list EXCEPT !.listed = @ \cup {p}]
  <2>1. kind' = [kind EXCEPT ![p] = "subscription"] /\ cut' = cut /\ todo' = Save(L)
    BY <1>4 DEF AddSubscription, Begin, createSubscriptionProfile
  <2>2. L \in GoodLists /\ L.listed = Listed \cup {p}
    <3> HIDE DEF list
    <3> QED BY <1>2 DEF GoodLists, Lists, WellFormed
  <2> HIDE DEF L
  <2>3. NewSection(p)
    BY <1>1, <2>1, <2>2 DEF NewSection
  <2>4. QED
    BY <1>1, <2>3, SameUpdates DEF SectionStep
<1>5. CASE \E q \in Profiles : Duplicate(q, p)
  <2>1. PICK q \in Profiles : Duplicate(q, p)
    BY <1>5
  <2> DEFINE L == [list EXCEPT !.listed = @ \cup {p}]
             content == IF raw[q] = None THEN DefaultRaw ELSE raw[q]
             copy == IF runtime[q] = None THEN content ELSE runtime[q]
  <2>2. /\ kind' = [kind EXCEPT ![p] = kind[q]] /\ q \in Listed
        /\ cut' = IF q \in cut \/ ext.p = q THEN cut \cup {p} ELSE cut
        /\ todo' = Recovery \o Copied(p, content, copy) \o saveProfilesState(L)
    BY <2>1 DEF Duplicate, Begin, duplicateProfile, Copied
  <2>3. L \in GoodLists /\ L.listed = Listed \cup {p}
    <3> HIDE DEF list
    <3> QED BY <1>2 DEF GoodLists, Lists, WellFormed
  <2>4. content \in Contents \cup {Torn} /\ copy \in Contents \cup {Torn}
    <3>1. raw[q] \in Contents \cup {None, Torn} /\ runtime[q] \in Contents \cup {None, Torn}
      BY DEF StoreInv, TypeOK
    <3>2. content \in Contents \cup {Torn}
      BY <3>1, StoreConstants
    <3> HIDE DEF content
    <3>3. QED
      BY <3>1, <3>2
  <2>5. PICK c \in Contents \cup {Torn} : c = content
    BY <2>4
  <2>6. PICK d \in Contents \cup {Torn} : d = copy
    BY <2>4
  <2>7. /\ c = IF raw[q] = None THEN DefaultRaw ELSE raw[q]
        /\ d = IF runtime[q] = None THEN c ELSE runtime[q]
        /\ todo' = Recovery \o Copied(p, c, d) \o saveProfilesState(L)
    BY <2>2, <2>5, <2>6
  <2> HIDE DEF L, content, copy
  <2>8. NewSection(p)
    BY <1>1, <2>2, <2>3, <2>7 DEF NewSection
  <2>9. QED
    BY <1>1, <2>8, SameUpdates DEF SectionStep
<1>6. QED
  BY <1>3, <1>4, <1>5

\* The lists that change no membership, and the one of deleteProfile.
LEMMA ListsOfSections ==
    ASSUME StoreInv, NEW p \in Profiles, p \in Listed
    PROVE  /\ Activated(p) \in GoodLists /\ Activated(p).listed \subseteq Listed
           /\ CanDelete(p) => \E L \in GoodLists :
                 L.listed = Listed \ {p} /\ DeleteWrites(p) = Save(L) \o Erased(p)
<1> DEFINE list == loadProfilesState
           next == [list EXCEPT !.listed = @ \ {p}, !.flagged = @ \cap {list.active}]
<1>1. list \in GoodLists /\ list.listed = Listed
  BY LoadedGood DEF Listed
<1>2. Activated(p) = [list EXCEPT !.active = p, !.flagged = {p}]
  BY DEF Activated
<1>3. DeleteWrites(p) = Save(next) \o Erased(p)
  BY DEF DeleteWrites, Erased
<1>4. CanDelete(p) => p # list.active
  BY DEF CanDelete
<1> HIDE DEF list
<1>5. Activated(p) \in GoodLists /\ Activated(p).listed \subseteq Listed
  BY <1>1, <1>2 DEF GoodLists, Lists, WellFormed
<1>6. ASSUME CanDelete(p) PROVE next \in GoodLists /\ next.listed = Listed \ {p}
  <2>1. next \in Lists
    BY <1>1 DEF GoodLists, Lists
  <2>2. next.active = list.active /\ next.listed = list.listed \ {p}
          /\ next.flagged = list.flagged \cap {list.active}
    BY <1>1 DEF GoodLists, Lists
  <2>3. list.flagged \cap {list.active} \subseteq list.listed \ {p}
    BY <1>1, <1>4, <1>6 DEF GoodLists, Lists, WellFormed
  <2>4. list.active \in (list.listed \ {p}) \cup {None}
    BY <1>1, <1>4, <1>6 DEF GoodLists, WellFormed
  <2> HIDE DEF next
  <2>5. QED
    BY <1>1, <2>1, <2>2, <2>3, <2>4 DEF GoodLists, WellFormed
<1> HIDE DEF next
<1>7. QED
  BY <1>3, <1>5, <1>6

LEMMA UpdatedLists ==
    ASSUME StoreInv, NEW job \in Jobs
    PROVE  updateProfile(job) \in GoodLists /\ updateProfile(job).listed \subseteq Listed
<1>1. loadProfilesState \in GoodLists /\ loadProfilesState.listed = Listed
  BY LoadedGood DEF Listed
<1>2. QED
  BY <1>1 DEF updateProfile, GoodLists, Lists, WellFormed, Jobs

LEMMA UserSection ==
    ASSUME StoreInv,
           \/ \E p \in Profiles : Switch(p) \/ Delete(p) \/ Refresh(p)
           \/ \E p \in Profiles, c \in Contents : SaveConfig(p, c)
           \/ UpdateSettings \/ Reload
    PROVE  SectionStep
<1>1. /\ todo = <<>> /\ UNCHANGED <<files, ext, saved, attempted, deleted, erased, held, overlapped>>
      /\ UNCHANGED <<updates, kind, cut, resetting>>
  BY DEF Switch, Delete, Refresh, SaveConfig, UpdateSettings, Reload, UserOp, Idle, Begin, Quiet
<1>2. OldSection
  <2>1. ASSUME NEW p \in Profiles, Switch(p) PROVE OldSection
    BY <2>1, ListsOfSections DEF Switch, Begin, OldSection
  <2>2. ASSUME NEW p \in Profiles, Delete(p) PROVE OldSection
    <3>1. CanDelete(p) /\ p \in Listed /\ todo' = DeleteWrites(p)
      BY <2>2 DEF Delete, CanDelete, Begin
    <3>2. QED
      BY <3>1, ListsOfSections DEF OldSection
  <2>3. ASSUME NEW p \in Profiles, Refresh(p) PROVE OldSection
    BY <2>3 DEF Refresh, Begin, OldSection
  <2>4. ASSUME NEW p \in Profiles, NEW c \in Contents, SaveConfig(p, c) PROVE OldSection
    <3>1. p \in Listed /\ todo' = Recovery \o Pair(p, c) \o saveProfilesState(loadProfilesState)
      BY <2>4 DEF SaveConfig, Savable, Begin, saveRawYaml, Pair
    <3>2. loadProfilesState \in GoodLists /\ loadProfilesState.listed \subseteq Listed
      BY LoadedGood DEF Listed
    <3>3. QED
      BY <3>1, <3>2 DEF OldSection
  <2>5. CASE UpdateSettings
    <3>1. PICK p : p = loadProfilesState.active
      OBVIOUS
    <3>2. /\ p # None /\ raw[p] # None
          /\ todo' = Recovery \o <<Write("runtime", p, Torn), Write("runtime", p, raw[p])>>
      BY <2>5, <3>1 DEF UpdateSettings, Begin
    <3>3. p \in Listed /\ p \in Profiles
      BY <3>1, <3>2, LoadedGood DEF Listed, GoodLists, Lists, WellFormed
    <3>4. QED
      BY <3>2, <3>3 DEF OldSection
  <2>6. CASE Reload
    BY <2>6 DEF Reload, Begin, OldSection
  <2>7. QED
    BY <2>1, <2>2, <2>3, <2>4, <2>5, <2>6
<1>3. QED
  BY <1>1, <1>2, SameUpdates DEF SectionStep

LEMMA ResetIsSection == ASSUME StoreInv, Reset PROVE SectionStep
<1>1. /\ todo = <<>> /\ UNCHANGED <<files, ext, saved, attempted, deleted, erased, held, overlapped>>
      /\ UNCHANGED <<updates, kind, cut>> /\ resetting' = TRUE
  BY DEF Reset, UserOp, Idle, Begin
<1>2. PICK seq \in [1..Cardinality(Listed) -> Listed] :
        todo' = ResetWrites(seq) /\ \A i, j \in DOMAIN seq : seq[i] = seq[j] => i = j
  BY DEF Reset, Begin
<1>3. Listed \subseteq Profiles /\ Cardinality(Listed) \in Nat
  <2>1. Listed \subseteq Profiles
    BY ListedProfiles
  <2>2. IsFiniteSet(Listed)
    BY <2>1, StoreConstants, FS_Subset
  <2>3. QED
    BY <2>1, <2>2, FS_CardinalityType
<1>4. PICK n \in Nat : n = Cardinality(Listed)
  BY <1>3
<1>5. /\ seq \in [1..n -> Profiles] /\ Len(seq) = n /\ \A i \in 1..n : seq[i] \in Listed
      /\ \A i, j \in 1..n : seq[i] = seq[j] => i = j
  BY <1>2, <1>3, <1>4
<1>6. n = 0 \/ Listed # {}
  BY <1>5
<1>7. ResetSection
  BY <1>2, <1>5, <1>6 DEF ResetSection
<1>8. QED
  BY <1>1, <1>7, SameUpdates DEF SectionStep

LEMMA UpdateSection == ASSUME StoreInv, UpdateNext PROVE SectionStep
<1>1. PICK u \in Updates :
        (\E c \in Contents : DownloadOk(u, c)) \/ DownloadNotModified(u) \/ DownloadFails(u)
  BY DEF UpdateNext
<1>2. /\ todo = <<>> /\ UNCHANGED <<files, ext, saved, attempted, deleted, erased, held, overlapped>>
      /\ UNCHANGED <<kind, cut, resetting>> /\ Ends(u)
  BY <1>1 DEF DownloadOk, DownloadNotModified, DownloadFails, Ends, Idle, Begin
<1>3. PICK job \in Jobs : job = updates[u] /\ updates[u] # None
  BY <1>2, EndsKeeps DEF Ends
<1>4. \A v \in Updates : updates'[v] = None \/ updates'[v] = updates[v]
  BY <1>2 DEF Ends, StoreInv, TypeOK
<1>5. \/ todo' = Save(updateProfile(job))
      \/ \E c \in Contents : todo' = Pair(job.p, c) \o Save(updateProfile(job))
  BY <1>1, <1>3 DEF DownloadOk, DownloadNotModified, DownloadFails, recordFailure, Begin, Replace, Pair
<1>6. updateProfile(job) \in GoodLists /\ updateProfile(job).listed \subseteq Listed
  BY UpdatedLists
<1>7. job.p \in Profiles
  BY DEF Jobs
<1>8. OldSection
  BY <1>3, <1>5, <1>6, <1>7 DEF OldSection
<1>9. QED
  BY <1>2, <1>4, <1>8 DEF SectionStep

LEMMA ContinueSection == ASSUME StoreInv, Continue PROVE SectionStep
<1>1. /\ todo = <<>> /\ UNCHANGED <<files, ext, saved, attempted, deleted, erased, held, overlapped>>
      /\ UNCHANGED <<kind, cut, resetting>>
  BY DEF Continue, Begin
<1>2. PICK p : p = after.p
  OBVIOUS
<1>3. after.op # "none" => p \in Profiles
  BY <1>2 DEF StoreInv, TypeOK
<1>4. \A v \in Updates : updates'[v] = None \/ updates'[v] = updates[v] \/ updates'[v].p \in Listed
  <2>1. CASE UNCHANGED updates
    BY <2>1
  <2>2. CASE updates' # updates
    <3>1. PICK u \in Updates : \E f : p \in Listed /\
             updates' = [updates EXCEPT ![u] = [p |-> p, op |-> after.op, flag |-> f]]
      BY <1>2, <2>2 DEF Continue
    <3>2. PICK f : p \in Listed /\
             updates' = [updates EXCEPT ![u] = [p |-> p, op |-> after.op, flag |-> f]]
      BY <3>1
    <3>3. PICK job : job = [p |-> p, op |-> after.op, flag |-> f]
      OBVIOUS
    <3>6. job.p = p
      BY <3>3
    <3>4. updates' = [updates EXCEPT ![u] = job] /\ updates \in [Updates -> Jobs \cup {None}]
      BY <3>2, <3>3 DEF StoreInv, TypeOK
    <3>5. QED
      BY <3>2, <3>4, <3>6
  <2>3. QED
    BY <2>1, <2>2
<1>5. OldSection
  <2>1. \/ todo' = Recovery
        \/ p \in Profiles /\ p \in Listed /\ todo' = Save(Activated(p))
        \/ p \in Profiles /\ CanDelete(p) /\ todo' = DeleteWrites(p)
    BY <1>2, <1>3 DEF Continue, Begin
  <2>2. CanDelete(p) => p \in Listed
    BY DEF CanDelete
  <2>3. QED
    BY <2>1, <2>2, ListsOfSections DEF OldSection
<1>6. QED
  BY <1>1, <1>4, <1>5 DEF SectionStep

\* Every step of the UI process but a write or a fault begins a section.
LEMMA SectionSteps ==
    ASSUME StoreInv, UserNext \/ UpdateNext \/ Reload \/ Continue
    PROVE  SectionStep
BY MadeSection, UserSection, ResetIsSection, UpdateSection, ContinueSection DEF UserNext

-----------------------------------------------------------------------------
(* The two YAML files of a profile *)

Yaml(w, p) == w.file \in {"raw", "runtime"} /\ w.key = p
RawWrite(w, p) == w.file = "raw" /\ w.key = p

\* Writes that leave the files of p alone.
Untouched(s, p) == \A i \in DOMAIN s : ~Yaml(s[i], p)

\* Writes that leave p a runtime YAML of its raw YAML, whose text is r before them.
Rewrites(s, p, r) ==
    \E i \in DOMAIN s :
        /\ s[i].file = "runtime" /\ s[i].key = p
        /\ \A j \in DOMAIN s : j > i => ~Yaml(s[j], p)
        /\ \/ s[i].value = r /\ \A j \in DOMAIN s : ~RawWrite(s[j], p)
           \/ \E k \in DOMAIN s : /\ RawWrite(s[k], p) /\ s[k].value = s[i].value
                                  /\ \A j \in DOMAIN s : j > k => ~RawWrite(s[j], p)

Follows(s, p, r) == Untouched(s, p) \/ Rewrites(s, p, r)

\* The runtime YAML is of the raw YAML, or will be once the running section or the extension
\* has written it.
FollowInv ==
    \A p \in Profiles \ cut :
        \/ Rewrites(todo, p, raw[p])
        \/ Untouched(todo, p) /\ (runtime[p] = raw[p] \/ (ext.st = "write" /\ ext.p = p))

LEMMA JoinUntouched ==
    ASSUME NEW T, NEW s \in Seq(T), NEW t \in Seq(T), NEW p, Untouched(s, p), Untouched(t, p)
    PROVE  Untouched(s \o t, p)
BY JoinIndex DEF Untouched

LEMMA JoinRewritesLeft ==
    ASSUME NEW T, NEW s \in Seq(T), NEW t \in Seq(T), NEW p, NEW r,
           Rewrites(s, p, r), Untouched(t, p)
    PROVE  Rewrites(s \o t, p, r)
<1> DEFINE n == Len(s)
           st == s \o t
<1>1. /\ DOMAIN s = 1..n /\ n \in Nat /\ DOMAIN st \subseteq Int
      /\ \A i \in DOMAIN st : \/ i \in DOMAIN s /\ st[i] = s[i]
                              \/ i > n /\ ~Yaml(st[i], p)
      /\ \A i \in DOMAIN s : i \in DOMAIN st /\ st[i] = s[i]
  BY JoinIndex DEF Untouched
<1> HIDE DEF n, st
<1>2. PICK i \in DOMAIN s :
        /\ s[i].file = "runtime" /\ s[i].key = p
        /\ \A j \in DOMAIN s : j > i => ~Yaml(s[j], p)
        /\ \/ s[i].value = r /\ \A j \in DOMAIN s : ~RawWrite(s[j], p)
           \/ \E k \in DOMAIN s : /\ RawWrite(s[k], p) /\ s[k].value = s[i].value
                                  /\ \A j \in DOMAIN s : j > k => ~RawWrite(s[j], p)
  BY DEF Rewrites
<1>3. /\ i \in DOMAIN st /\ st[i].file = "runtime" /\ st[i].key = p
      /\ \A j \in DOMAIN st : j > i => ~Yaml(st[j], p)
  BY <1>1, <1>2
<1>4. \A j \in DOMAIN st : RawWrite(st[j], p) => j \in DOMAIN s /\ st[j] = s[j]
  BY <1>1 DEF RawWrite, Yaml
<1>5. \/ st[i].value = r /\ \A j \in DOMAIN st : ~RawWrite(st[j], p)
      \/ \E k \in DOMAIN st : /\ RawWrite(st[k], p) /\ st[k].value = st[i].value
                              /\ \A j \in DOMAIN st : j > k => ~RawWrite(st[j], p)
  BY <1>1, <1>2, <1>4
<1>6. Rewrites(st, p, r)
  BY <1>3, <1>5 DEF Rewrites
<1>7. QED
  BY <1>6 DEF st

LEMMA JoinRewritesRight ==
    ASSUME NEW T, NEW s \in Seq(T), NEW t \in Seq(T), NEW p, NEW r,
           Untouched(s, p), Rewrites(t, p, r)
    PROVE  Rewrites(s \o t, p, r)
<1> DEFINE n == Len(s)
           st == s \o t
<1>1. /\ DOMAIN s = 1..n /\ n \in Nat /\ DOMAIN st \subseteq Int /\ DOMAIN t \subseteq Int
      /\ \A i \in DOMAIN st : \/ ~Yaml(st[i], p)
                              \/ i > n /\ i - n \in DOMAIN t /\ st[i] = t[i - n]
      /\ \A i \in DOMAIN t : i + n \in DOMAIN st /\ st[i + n] = t[i]
  BY JoinIndex DEF Untouched
<1> HIDE DEF n, st
<1>2. PICK i \in DOMAIN t :
        /\ t[i].file = "runtime" /\ t[i].key = p
        /\ \A j \in DOMAIN t : j > i => ~Yaml(t[j], p)
        /\ \/ t[i].value = r /\ \A j \in DOMAIN t : ~RawWrite(t[j], p)
           \/ \E k \in DOMAIN t : /\ RawWrite(t[k], p) /\ t[k].value = t[i].value
                                  /\ \A j \in DOMAIN t : j > k => ~RawWrite(t[j], p)
  BY DEF Rewrites
<1>3. /\ i + n \in DOMAIN st /\ st[i + n].file = "runtime" /\ st[i + n].key = p
      /\ st[i + n].value = t[i].value
  BY <1>1, <1>2
<1>4. \A j \in DOMAIN st : j > i + n => ~Yaml(st[j], p)
  <2> SUFFICES ASSUME NEW j \in DOMAIN st, j > i + n, Yaml(st[j], p) PROVE FALSE
    OBVIOUS
  <2>1. j - n \in DOMAIN t /\ st[j] = t[j - n] /\ j - n > i
    BY <1>1
  <2>2. QED
    BY <1>2, <2>1
<1>5. \A j \in DOMAIN st : RawWrite(st[j], p) => j - n \in DOMAIN t /\ RawWrite(t[j - n], p)
  BY <1>1 DEF RawWrite, Yaml
<1>6. \/ st[i + n].value = r /\ \A j \in DOMAIN st : ~RawWrite(st[j], p)
      \/ \E k \in DOMAIN st : /\ RawWrite(st[k], p) /\ st[k].value = st[i + n].value
                              /\ \A j \in DOMAIN st : j > k => ~RawWrite(st[j], p)
  <2>1. CASE t[i].value = r /\ \A j \in DOMAIN t : ~RawWrite(t[j], p)
    BY <1>3, <1>5, <2>1
  <2>2. ASSUME NEW k \in DOMAIN t, RawWrite(t[k], p), t[k].value = t[i].value,
               \A j \in DOMAIN t : j > k => ~RawWrite(t[j], p)
        PROVE  /\ k + n \in DOMAIN st /\ RawWrite(st[k + n], p)
               /\ st[k + n].value = st[i + n].value
               /\ \A j \in DOMAIN st : j > k + n => ~RawWrite(st[j], p)
    <3>1. /\ k + n \in DOMAIN st /\ RawWrite(st[k + n], p)
          /\ st[k + n].value = st[i + n].value
      BY <1>1, <1>3, <2>2
    <3>2. ASSUME NEW j \in DOMAIN st, j > k + n, RawWrite(st[j], p) PROVE FALSE
      <4>1. j - n \in DOMAIN t /\ RawWrite(t[j - n], p) /\ j - n > k
        BY <1>1, <1>5, <3>2
      <4>2. QED
        BY <2>2, <4>1
    <3>3. QED
      BY <3>1, <3>2
  <2>3. QED
    BY <1>2, <2>1, <2>2
<1>7. Rewrites(st, p, r)
  BY <1>3, <1>4, <1>6 DEF Rewrites
<1>8. QED
  BY <1>7 DEF st

LEMMA JoinFollows ==
    ASSUME NEW T, NEW s \in Seq(T), NEW t \in Seq(T), NEW p, NEW r,
           \/ Untouched(s, p) /\ Follows(t, p, r)
           \/ Follows(s, p, r) /\ Untouched(t, p)
    PROVE  Follows(s \o t, p, r)
BY JoinUntouched, JoinRewritesLeft, JoinRewritesRight DEF Follows

\* The first of the writes.
LEMMA TailFollows ==
    ASSUME NEW T, NEW s \in Seq(T), s # <<>>, NEW p, NEW r, NEW r1,
           r1 = IF RawWrite(s[1], p) THEN s[1].value ELSE r
    PROVE  /\ Untouched(s, p) => Untouched(Tail(s), p) /\ ~Yaml(s[1], p)
           /\ Rewrites(s, p, r) =>
                 \/ Rewrites(Tail(s), p, r1)
                 \/ /\ Untouched(Tail(s), p)
                    /\ s[1].file = "runtime" /\ s[1].key = p /\ s[1].value = r1
<1> DEFINE t == Tail(s)
<1>1. /\ 1 \in DOMAIN s /\ DOMAIN s \subseteq Int /\ DOMAIN t \subseteq Int
      /\ \A i \in DOMAIN s : i >= 1
      /\ \A i \in DOMAIN t : i >= 1 /\ i + 1 \in DOMAIN s /\ t[i] = s[i + 1]
      /\ \A i \in DOMAIN s : i > 1 => i - 1 \in DOMAIN t /\ t[i - 1] = s[i]
  OBVIOUS
<1> HIDE DEF t
<1>2. Untouched(s, p) => Untouched(t, p) /\ ~Yaml(s[1], p)
  BY <1>1 DEF Untouched
<1>3. ASSUME Rewrites(s, p, r)
      PROVE  \/ Rewrites(t, p, r1)
             \/ Untouched(t, p) /\ s[1].file = "runtime" /\ s[1].key = p /\ s[1].value = r1
  <2>1. PICK i \in DOMAIN s :
          /\ s[i].file = "runtime" /\ s[i].key = p
          /\ \A j \in DOMAIN s : j > i => ~Yaml(s[j], p)
          /\ \/ s[i].value = r /\ \A j \in DOMAIN s : ~RawWrite(s[j], p)
             \/ \E k \in DOMAIN s : /\ RawWrite(s[k], p) /\ s[k].value = s[i].value
                                    /\ \A j \in DOMAIN s : j > k => ~RawWrite(s[j], p)
    BY <1>3 DEF Rewrites
  <2>2. CASE i = 1
    <3>1. Untouched(t, p)
      <4>1. ASSUME NEW j \in DOMAIN t PROVE ~Yaml(t[j], p)
        BY <1>1, <2>1, <2>2
      <4>2. QED
        BY <4>1 DEF Untouched
    <3>2. \A j \in DOMAIN s : ~RawWrite(s[j], p)
      BY <1>1, <2>1, <2>2 DEF RawWrite, Yaml
    <3>3. QED
      BY <1>1, <2>1, <2>2, <3>1, <3>2
  <2>3. CASE i # 1
    <3>1. i - 1 \in DOMAIN t /\ t[i - 1] = s[i]
      BY <1>1, <2>3
    <3>2. \A j \in DOMAIN t : j > i - 1 => ~Yaml(t[j], p)
      <4> SUFFICES ASSUME NEW j \in DOMAIN t, j > i - 1 PROVE ~Yaml(t[j], p)
        OBVIOUS
      <4>1. j + 1 \in DOMAIN s /\ j + 1 > i /\ t[j] = s[j + 1]
        BY <1>1
      <4>2. QED
        BY <2>1, <4>1
    <3>3. \/ t[i - 1].value = r1 /\ \A j \in DOMAIN t : ~RawWrite(t[j], p)
          \/ \E k \in DOMAIN t : /\ RawWrite(t[k], p) /\ t[k].value = t[i - 1].value
                                 /\ \A j \in DOMAIN t : j > k => ~RawWrite(t[j], p)
      <4>1. CASE s[i].value = r /\ \A j \in DOMAIN s : ~RawWrite(s[j], p)
        <5>1. r1 = r
          BY <1>1, <4>1
        <5>2. \A j \in DOMAIN t : ~RawWrite(t[j], p)
          BY <1>1, <4>1
        <5>3. QED
          BY <3>1, <4>1, <5>1, <5>2
      <4>2. ASSUME NEW k \in DOMAIN s, RawWrite(s[k], p), s[k].value = s[i].value,
                   \A j \in DOMAIN s : j > k => ~RawWrite(s[j], p)
            PROVE  \/ t[i - 1].value = r1 /\ \A j \in DOMAIN t : ~RawWrite(t[j], p)
                   \/ \E h \in DOMAIN t : /\ RawWrite(t[h], p) /\ t[h].value = t[i - 1].value
                                          /\ \A j \in DOMAIN t : j > h => ~RawWrite(t[j], p)
        <5>1. CASE k = 1
          <6>1. ASSUME NEW j \in DOMAIN t PROVE ~RawWrite(t[j], p)
            <7>1. j + 1 \in DOMAIN s /\ j + 1 > k /\ t[j] = s[j + 1]
              BY <1>1, <5>1
            <7>2. QED
              BY <4>2, <7>1
          <6>2. QED
            BY <3>1, <4>2, <5>1, <6>1
        <5>2. CASE k # 1
          <6>1. k - 1 \in DOMAIN t /\ t[k - 1] = s[k]
            BY <1>1, <5>2
          <6>2. ASSUME NEW j \in DOMAIN t, j > k - 1 PROVE ~RawWrite(t[j], p)
            <7>1. j + 1 \in DOMAIN s /\ j + 1 > k /\ t[j] = s[j + 1]
              BY <1>1, <6>2
            <7>2. QED
              BY <4>2, <7>1
          <6>3. QED
            BY <3>1, <4>2, <6>1, <6>2
        <5>3. QED
          BY <5>1, <5>2
      <4>3. QED
        BY <2>1, <4>1, <4>2
    <3>4. QED
      BY <2>1, <3>1, <3>2, <3>3 DEF Rewrites
  <2>4. QED
    BY <2>2, <2>3
<1>4. QED
  BY <1>2, <1>3 DEF t
\* The writes of list files leave the YAML files alone.
ListsOnly(s) == \A i \in DOMAIN s : s[i].file \in {"main", "bak"}

LEMMA ListsLeaveYaml ==
    ASSUME NEW s, ListsOnly(s), NEW p
    PROVE  Untouched(s, p)
BY DEF ListsOnly, Untouched, Yaml

LEMMA SaveStateLists == ASSUME NEW L PROVE ListsOnly(saveProfilesState(L))
BY DEF ListsOnly, saveProfilesState, Write

LEMMA JoinLists ==
    ASSUME NEW T, NEW s \in Seq(T), NEW t \in Seq(T), ListsOnly(s), ListsOnly(t)
    PROVE  ListsOnly(s \o t)
BY JoinIndex DEF ListsOnly

LEMMA RecoveryLists == ASSUME StoreInv PROVE ListsOnly(Recovery)
<1> DEFINE aside == IF main = Corrupt THEN <<Write("main", None, None)>> ELSE <<>>
           restore == IF Readable(bak) THEN <<Write("main", None, loadProfilesState)>>
                                       ELSE saveProfilesState(loadProfilesState)
<1>1. aside \in Seq(GoodWrites) /\ restore \in Seq(GoodWrites)
  BY MainWrite, SaveStateGood, LoadedGood
<1>2. ListsOnly(aside)
  BY DEF ListsOnly, Write
<1>3. ListsOnly(restore)
  <2>1. ListsOnly(<<Write("main", None, loadProfilesState)>>)
    BY DEF ListsOnly, Write
  <2>2. QED
    BY <2>1, SaveStateLists
<1>4. Recovery = IF Readable(main) THEN <<>> ELSE aside \o restore
  BY DEF Recovery
<1> HIDE DEF aside, restore
<1>5. ListsOnly(aside \o restore)
  BY <1>1, <1>2, <1>3, JoinLists
<1>6. ListsOnly(<<>>)
  BY DEF ListsOnly
<1>7. QED
  BY <1>4, <1>5, <1>6

LEMMA SaveLists ==
    ASSUME StoreInv, NEW L \in GoodLists
    PROVE  ListsOnly(Save(L))
BY RecoveryLists, SaveStateLists, RecoveryGood, SaveStateGood, JoinLists DEF Save

\* Recovery, other files, and the list.
LEMMA SectionFollows ==
    ASSUME StoreInv, NEW y \in Seq(GoodWrites), NEW L \in GoodLists, NEW p, NEW r, Follows(y, p, r)
    PROVE  /\ Follows(Recovery \o y, p, r) /\ Follows(Save(L) \o y, p, r) /\ Follows(y \o Save(L), p, r)
           /\ Follows(Recovery \o y \o saveProfilesState(L), p, r)
<1>1. /\ Recovery \in Seq(GoodWrites) /\ Save(L) \in Seq(GoodWrites)
      /\ saveProfilesState(L) \in Seq(GoodWrites) /\ Recovery \o y \in Seq(GoodWrites)
  BY RecoveryGood, SaveGood, SaveStateGood, Concatenated
<1>2. Untouched(Recovery, p) /\ Untouched(Save(L), p) /\ Untouched(saveProfilesState(L), p)
  BY RecoveryLists, SaveLists, SaveStateLists, ListsLeaveYaml
<1>3. Follows(Recovery \o y, p, r)
  BY <1>1, <1>2, JoinFollows
<1>4. Follows(Recovery \o y \o saveProfilesState(L), p, r)
  BY <1>1, <1>2, <1>3, JoinFollows
<1>5. Follows(Save(L) \o y, p, r) /\ Follows(y \o Save(L), p, r)
  BY <1>1, <1>2, JoinFollows
<1>6. QED
  BY <1>3, <1>4, <1>5

\* Both files with the same text, or the runtime YAML alone.
LEMMA PairFollows ==
    ASSUME NEW p, NEW c, NEW q, NEW r
    PROVE  /\ Follows(<<Write("raw", p, c), Write("runtime", p, c)>>, q, r)
           /\ Follows(<<Write("raw", p, c), Write("runtime", p, c), Write("selections", p, None)>>, q, r)
           /\ r = c \/ p # q => Follows(<<Write("runtime", p, Torn), Write("runtime", p, c)>>, q, r)
           /\ Follows(<<Write("raw", p, Torn), Write("raw", p, c),
                        Write("runtime", p, Torn), Write("runtime", p, c)>>, q, r)
<1>1. Follows(<<Write("raw", p, c), Write("runtime", p, c)>>, q, r)
  <2> DEFINE s == <<Write("raw", p, c), Write("runtime", p, c)>>
  <2>1. /\ DOMAIN s = {1, 2} /\ \A i \in {1, 2} : s[i].key = p /\ s[i].value = c
        /\ s[1].file = "raw" /\ s[2].file = "runtime"
    BY DEF Write
  <2> HIDE DEF s
  <2>2. Follows(s, q, r)
    BY <2>1 DEF Follows, Untouched, Rewrites, Yaml, RawWrite
  <2>3. QED
    BY <2>2 DEF s
<1>2. Follows(<<Write("raw", p, c), Write("runtime", p, c), Write("selections", p, None)>>, q, r)
  <2> DEFINE s == <<Write("raw", p, c), Write("runtime", p, c), Write("selections", p, None)>>
  <2>1. /\ DOMAIN s = {1, 2, 3} /\ \A i \in {1, 2} : s[i].key = p /\ s[i].value = c
        /\ s[1].file = "raw" /\ s[2].file = "runtime" /\ s[3].file = "selections"
    BY DEF Write
  <2> HIDE DEF s
  <2>2. Follows(s, q, r)
    BY <2>1 DEF Follows, Untouched, Rewrites, Yaml, RawWrite
  <2>3. QED
    BY <2>2 DEF s
<1>3. ASSUME r = c \/ p # q
      PROVE  Follows(<<Write("runtime", p, Torn), Write("runtime", p, c)>>, q, r)
  <2> DEFINE s == <<Write("runtime", p, Torn), Write("runtime", p, c)>>
  <2>1. /\ DOMAIN s = {1, 2} /\ \A i \in {1, 2} : s[i].key = p /\ s[i].file = "runtime"
        /\ s[2].value = c
    BY DEF Write
  <2> HIDE DEF s
  <2>2. Follows(s, q, r)
    BY <1>3, <2>1 DEF Follows, Untouched, Rewrites, Yaml, RawWrite
  <2>3. QED
    BY <2>2 DEF s
<1>4. Follows(<<Write("raw", p, Torn), Write("raw", p, c),
                Write("runtime", p, Torn), Write("runtime", p, c)>>, q, r)
  <2> DEFINE s == <<Write("raw", p, Torn), Write("raw", p, c),
                    Write("runtime", p, Torn), Write("runtime", p, c)>>
  <2>1. /\ DOMAIN s = {1, 2, 3, 4} /\ \A i \in {1, 2, 3, 4} : s[i].key = p
        /\ s[1].file = "raw" /\ s[2].file = "raw" /\ s[3].file = "runtime" /\ s[4].file = "runtime"
        /\ s[2].value = c /\ s[4].value = c
    BY DEF Write
  <2> HIDE DEF s
  <2>2. Follows(s, q, r)
    BY <2>1 DEF Follows, Untouched, Rewrites, Yaml, RawWrite
  <2>3. QED
    BY <2>2 DEF s
<1>5. QED
  BY <1>1, <1>2, <1>3, <1>4

\* A reset deletes both files of every listed profile.
LEMMA ResetFollows ==
    ASSUME StoreInv, NEW n \in Nat, NEW seq \in [1..n -> Profiles], Len(seq) = n,
           \A i, j \in 1..n : seq[i] = seq[j] => i = j, NEW p, NEW r
    PROVE  Follows(ResetWrites(seq), p, r)
<1> DEFINE yaml == [i \in 1..2 * n |->
             Write(IF i % 2 = 1 THEN "raw" ELSE "runtime", seq[(i + 1) \div 2], None)]
           rest == <<Write("main", None, None), Write("selections", None, None)>>
<1>1. \A i \in 1..2 * n : (i + 1) \div 2 \in 1..n
  OBVIOUS
<1>2. \A i \in 1..2 * n :
        Write(IF i % 2 = 1 THEN "raw" ELSE "runtime", seq[(i + 1) \div 2], None) \in GoodWrites
  BY <1>1, YamlWrite
<1>3. yaml \in Seq(GoodWrites) /\ DOMAIN yaml = 1..2 * n
  BY <1>2
<1>4. \A i \in 1..2 * n : /\ yaml[i].file = IF i % 2 = 1 THEN "raw" ELSE "runtime"
                          /\ yaml[i].key = seq[(i + 1) \div 2] /\ yaml[i].value = None
  BY DEF Write
<1>5. rest \in Seq(GoodWrites)
  BY MainWrite, SelectionsWrite
<1>6. Untouched(rest, p)
  BY DEF Untouched, Yaml, Write
<1>7. ResetWrites(seq) = Recovery \o yaml \o rest \o saveProfilesState(Empty)
  BY DEF ResetWrites
<1> HIDE DEF yaml, rest
<1>8. Follows(yaml, p, r)
  <2>1. CASE \A m \in 1..n : seq[m] # p
    BY <1>1, <1>3, <1>4, <2>1 DEF Follows, Untouched, Yaml
  <2>2. ASSUME NEW m \in 1..n, seq[m] = p PROVE Follows(yaml, p, r)
    <3>1. /\ 2 * m \in 1..2 * n /\ (2 * m) % 2 # 1 /\ (2 * m + 1) \div 2 = m
          /\ 2 * m - 1 \in 1..2 * n /\ (2 * m - 1) % 2 = 1 /\ ((2 * m - 1) + 1) \div 2 = m
      OBVIOUS
    <3>2. /\ yaml[2 * m].file = "runtime" /\ yaml[2 * m].key = p /\ yaml[2 * m].value = None
          /\ RawWrite(yaml[2 * m - 1], p) /\ yaml[2 * m - 1].value = None
      BY <1>4, <2>2, <3>1 DEF RawWrite
    <3>3. \A j \in 1..2 * n : yaml[j].key = p => j \in {2 * m - 1, 2 * m}
      <4> SUFFICES ASSUME NEW j \in 1..2 * n, yaml[j].key = p PROVE j \in {2 * m - 1, 2 * m}
        OBVIOUS
      <4>1. (j + 1) \div 2 = m
        BY <1>1, <1>4, <2>2
      <4>2. QED
        BY <4>1
    <3>4. PICK a \in 1..2 * n : a = 2 * m - 1
      BY <3>1
    <3>5. PICK b \in 1..2 * n : b = 2 * m
      BY <3>1
    <3>6. /\ yaml[b].file = "runtime" /\ yaml[b].key = p /\ yaml[b].value = None
          /\ RawWrite(yaml[a], p) /\ yaml[a].value = None
          /\ \A j \in 1..2 * n : j > b => ~Yaml(yaml[j], p)
          /\ \A j \in 1..2 * n : j > a => ~RawWrite(yaml[j], p)
      <4>1. ASSUME NEW j \in 1..2 * n, j > b PROVE ~Yaml(yaml[j], p)
        BY <3>3, <3>5, <4>1 DEF Yaml
      <4>2. ASSUME NEW j \in 1..2 * n, j > a, RawWrite(yaml[j], p) PROVE FALSE
        <5>1. j = 2 * m
          BY <3>3, <3>4, <4>2 DEF RawWrite
        <5>2. QED
          BY <3>2, <4>2, <5>1 DEF RawWrite
      <4>3. QED
        BY <3>2, <3>4, <3>5, <4>1, <4>2
    <3>7. Rewrites(yaml, p, r)
      BY <1>3, <3>6 DEF Rewrites
    <3>8. QED
      BY <3>7 DEF Follows
  <2>3. QED
    BY <2>1, <2>2
<1>9. Follows(Recovery \o yaml, p, r) /\ Recovery \o yaml \in Seq(GoodWrites)
  BY <1>3, <1>8, SectionFollows, GoodAreLists, RecoveryGood, Concatenated
<1>10. Follows(Recovery \o yaml \o rest, p, r) /\ Recovery \o yaml \o rest \in Seq(GoodWrites)
  BY <1>5, <1>6, <1>9, JoinFollows, Concatenated
<1>11. Untouched(saveProfilesState(Empty), p) /\ saveProfilesState(Empty) \in Seq(GoodWrites)
  BY SaveStateLists, ListsLeaveYaml, SaveStateGood, GoodAreLists
<1> DEFINE before == Recovery \o yaml \o rest
           end == saveProfilesState(Empty)
<1>12. /\ ResetWrites(seq) = before \o end /\ before \in Seq(GoodWrites) /\ end \in Seq(GoodWrites)
       /\ Follows(before, p, r) /\ Untouched(end, p)
  BY <1>7, <1>10, <1>11
<1> HIDE DEF before, end
<1>13. QED
  BY <1>12, JoinFollows

-----------------------------------------------------------------------------
(* Every step keeps the two YAML files together *)

LEMMA EmptyFollows ==
    ASSUME NEW p, NEW r
    PROVE  Untouched(<<>>, p) /\ ~Rewrites(<<>>, p, r)
BY DEF Untouched, Rewrites

\* Between sections.
LEMMA FollowsAtRest ==
    ASSUME FollowInv, todo = <<>>, NEW p \in Profiles, p \notin cut
    PROVE  runtime[p] = raw[p] \/ (ext.st = "write" /\ ext.p = p)
<1>1. ~Rewrites(todo, p, raw[p])
  BY EmptyFollows
<1>2. QED
  BY <1>1 DEF FollowInv

LEMMA FollowBegins ==
    ASSUME FollowInv, todo = <<>>, UNCHANGED <<raw, runtime, ext>>, cut \subseteq cut',
           \A p \in Profiles : p \notin cut' => Follows(todo', p, raw[p])
    PROVE  FollowInv'
<1> SUFFICES ASSUME NEW p \in Profiles, p \notin cut'
             PROVE  \/ Rewrites(todo', p, raw'[p])
                    \/ Untouched(todo', p) /\ (runtime'[p] = raw'[p] \/ (ext'.st = "write" /\ ext'.p = p))
  BY DEF FollowInv
<1>1. Follows(todo', p, raw[p]) /\ p \notin cut
  OBVIOUS
<1>2. runtime[p] = raw[p] \/ (ext.st = "write" /\ ext.p = p)
  BY <1>1, FollowsAtRest
<1>3. QED
  BY <1>1, <1>2 DEF Follows

LEMMA ListsFollow ==
    ASSUME NEW s, ListsOnly(s), NEW p, NEW r
    PROVE  Follows(s, p, r)
BY ListsLeaveYaml DEF Follows

LEMMA PairGood ==
    ASSUME NEW p \in Profiles, NEW c \in Contents \cup {None, Torn}, NEW d \in Contents \cup {None, Torn}
    PROVE  /\ Pair(p, c) \in Seq(GoodWrites) /\ Erased(p) \in Seq(GoodWrites)
           /\ Copied(p, c, d) \in Seq(GoodWrites)
           /\ <<Write("runtime", p, Torn), Write("runtime", p, c)>> \in Seq(GoodWrites)
<1>1. /\ \A f \in {"raw", "runtime"} : \A v \in {c, d, None, Torn} : Write(f, p, v) \in GoodWrites
      /\ Write("selections", p, None) \in GoodWrites
  BY YamlWrite, SelectionsWrite
<1>2. QED
  BY <1>1 DEF Pair, Erased, Copied

LEMMA OldSectionFollows ==
    ASSUME StoreInv, OldSection, NEW q \in Profiles
    PROVE  Follows(todo', q, raw[q])
<1>1. CASE todo' = Recovery
  BY <1>1, RecoveryLists, ListsFollow
<1>2. CASE \E L \in GoodLists : L.listed \subseteq Listed /\ todo' = Save(L)
  BY <1>2, SaveLists, ListsFollow
<1>3. ASSUME NEW p \in Profiles, NEW c \in Contents, NEW L \in GoodLists,
             \/ todo' = Recovery \o Pair(p, c) \o saveProfilesState(L)
             \/ todo' = Pair(p, c) \o Save(L)
      PROVE  Follows(todo', q, raw[q])
  <2>1. Pair(p, c) \in Seq(GoodWrites)
    BY PairGood
  <2>2. Follows(Pair(p, c), q, raw[q])
    BY PairFollows DEF Pair
  <2>3. QED
    BY <1>3, <2>1, <2>2, SectionFollows
<1>4. ASSUME NEW p \in Profiles,
             todo' = Recovery \o <<Write("runtime", p, Torn), Write("runtime", p, raw[p])>>
      PROVE  Follows(todo', q, raw[q])
  <2>1. PICK c \in Contents \cup {None, Torn} : c = raw[p]
    BY DEF StoreInv, TypeOK
  <2>2. PICK s : s = <<Write("runtime", p, Torn), Write("runtime", p, c)>>
    OBVIOUS
  <2>3. s \in Seq(GoodWrites)
    BY <2>2, PairGood
  <2>4. Follows(s, q, raw[q])
    BY <2>1, <2>2, PairFollows
  <2>5. todo' = Recovery \o s
    BY <1>4, <2>1, <2>2
  <2>6. QED
    BY <2>3, <2>4, <2>5, SectionFollows, GoodAreLists
<1>5. ASSUME NEW p \in Profiles, NEW L \in GoodLists, todo' = Save(L) \o Erased(p)
      PROVE  Follows(todo', q, raw[q])
  <2>1. Erased(p) \in Seq(GoodWrites)
    BY PairGood
  <2>2. Follows(Erased(p), q, raw[q])
    BY PairFollows DEF Erased
  <2>3. QED
    BY <1>5, <2>1, <2>2, SectionFollows
<1>6. QED
  BY <1>1, <1>2, <1>3, <1>4, <1>5 DEF OldSection

\* A copy of files that belong together.
LEMMA NewSectionFollows ==
    ASSUME StoreInv, FollowInv, todo = <<>>, NEW p \in Profiles, NewSection(p),
           NEW z \in Profiles, z \notin cut'
    PROVE  Follows(todo', z, raw[z])
<1>1. PICK L \in GoodLists :
        \/ todo' = Save(L)
        \/ \E c \in Contents : todo' = Recovery \o Pair(p, c) \o saveProfilesState(L)
        \/ \E q \in Profiles, c \in Contents \cup {Torn}, d \in Contents \cup {Torn} :
                  /\ cut' = IF q \in cut \/ ext.p = q THEN cut \cup {p} ELSE cut
                  /\ c = IF raw[q] = None THEN DefaultRaw ELSE raw[q]
                  /\ d = IF runtime[q] = None THEN c ELSE runtime[q]
                  /\ todo' = Recovery \o Copied(p, c, d) \o saveProfilesState(L)
  BY DEF NewSection
<1>2. CASE todo' = Save(L)
  BY <1>2, SaveLists, ListsFollow
<1>3. ASSUME NEW c \in Contents, todo' = Recovery \o Pair(p, c) \o saveProfilesState(L)
      PROVE  Follows(todo', z, raw[z])
  <2>1. Pair(p, c) \in Seq(GoodWrites)
    BY PairGood
  <2>2. Follows(Pair(p, c), z, raw[z])
    BY PairFollows DEF Pair
  <2>3. QED
    BY <1>3, <2>1, <2>2, SectionFollows
<1>4. ASSUME NEW q \in Profiles, NEW c \in Contents \cup {Torn}, NEW d \in Contents \cup {Torn},
             cut' = IF q \in cut \/ ext.p = q THEN cut \cup {p} ELSE cut,
             c = IF raw[q] = None THEN DefaultRaw ELSE raw[q],
             d = IF runtime[q] = None THEN c ELSE runtime[q],
             todo' = Recovery \o Copied(p, c, d) \o saveProfilesState(L)
      PROVE  Follows(todo', z, raw[z])
  <2>1. Copied(p, c, d) \in Seq(GoodWrites)
    BY PairGood
  <2>2. CASE z = p
    <3>1. q \notin cut /\ ext.p # q
      BY <1>4, <2>2
    <3>2. runtime[q] = raw[q]
      BY <3>1, FollowsAtRest
    <3>3. d = c
      BY <1>4, <3>2
    <3>4. Follows(Copied(p, c, d), z, raw[z])
      BY <3>3, PairFollows DEF Copied
    <3>5. QED
      BY <1>4, <2>1, <3>4, SectionFollows
  <2>3. CASE z # p
    <3>1. Untouched(Copied(p, c, d), z)
      BY <2>3 DEF Untouched, Copied, Yaml, Write
    <3>2. QED
      BY <1>4, <2>1, <3>1, SectionFollows DEF Follows
  <2>4. QED
    BY <2>2, <2>3
<1>5. QED
  BY <1>1, <1>2, <1>3, <1>4

LEMMA SectionStepFollows ==
    ASSUME StoreInv, FollowInv, SectionStep
    PROVE  FollowInv'
<1>1. todo = <<>> /\ UNCHANGED <<raw, runtime, ext>>
  BY DEF SectionStep, files
<1>2. CASE OldSection /\ cut' = cut
  BY <1>1, <1>2, OldSectionFollows, FollowBegins
<1>3. ASSUME NEW p \in Profiles, NewSection(p) PROVE FollowInv'
  <2>1. cut \subseteq cut'
    BY <1>3 DEF NewSection
  <2>2. \A z \in Profiles : z \notin cut' => Follows(todo', z, raw[z])
    BY <1>1, <1>3, NewSectionFollows
  <2>3. QED
    BY <1>1, <2>1, <2>2, FollowBegins
<1>4. CASE ResetSection /\ cut' = cut
  <2>1. \A z \in Profiles : Follows(todo', z, raw[z])
    <3>1. PICK n \in Nat : \E seq \in [1..n -> Profiles] :
            /\ Len(seq) = n /\ \A i, j \in 1..n : seq[i] = seq[j] => i = j
            /\ todo' = ResetWrites(seq)
      BY <1>4 DEF ResetSection
    <3>2. PICK seq \in [1..n -> Profiles] :
            /\ Len(seq) = n /\ \A i, j \in 1..n : seq[i] = seq[j] => i = j
            /\ todo' = ResetWrites(seq)
      BY <3>1
    <3>3. QED
      BY <3>2, ResetFollows
  <2>2. QED
    BY <1>1, <1>4, <2>1, FollowBegins
<1>5. QED
  BY <1>2, <1>3, <1>4 DEF SectionStep

LEMMA WriteNextFollows ==
    ASSUME StoreInv, FollowInv, WriteNext
    PROVE  FollowInv'
<1> SUFFICES ASSUME NEW p \in Profiles, p \notin cut'
             PROVE  \/ Rewrites(todo', p, raw'[p])
                    \/ Untouched(todo', p) /\ (runtime'[p] = raw'[p] \/ (ext'.st = "write" /\ ext'.p = p))
  BY DEF FollowInv
<1> DEFINE w == todo[1]
<1>1. todo \in Seq(GoodWrites) /\ todo # <<>> /\ todo' = Tail(todo) /\ p \notin cut
  BY DEF StoreInv, GoodWrites, WriteNext
<1>2. w \in GoodWrites /\ w = Head(todo)
  BY <1>1, TailIndex
<1>3. /\ raw' = (IF w.file = "raw" THEN [raw EXCEPT ![w.key] = w.value] ELSE raw)
      /\ runtime' = (IF w.file = "runtime" THEN [runtime EXCEPT ![w.key] = w.value] ELSE runtime)
      /\ ext' = [ext EXCEPT !.touched =
                     IF w.file \in {"raw", "runtime"} /\ w.key = ext.p THEN {w.key} ELSE @]
  BY <1>2 DEF WriteNext
<1>4. ext'.st = ext.st /\ ext'.p = ext.p
  BY <1>3, ExtTypes DEF ExtStates
<1> HIDE DEF w
<1>5. /\ raw'[p] = IF RawWrite(w, p) THEN w.value ELSE raw[p]
      /\ runtime'[p] = IF w.file = "runtime" /\ w.key = p THEN w.value ELSE runtime[p]
  BY <1>3, ExtTypes DEF RawWrite, StoreInv, TypeOK
<1>6. PICK s \in Seq(GoodWrites) : s = todo
  BY <1>1
<1>7. PICK r : r = raw[p]
  OBVIOUS
<1>8. PICK r1 : r1 = raw'[p]
  OBVIOUS
<1>9. s # <<>> /\ w = s[1] /\ r1 = IF RawWrite(s[1], p) THEN s[1].value ELSE r
  BY <1>1, <1>5, <1>6, <1>7, <1>8 DEF w
<1>10. /\ Untouched(s, p) => Untouched(Tail(s), p) /\ ~Yaml(s[1], p)
       /\ Rewrites(s, p, r) =>
             \/ Rewrites(Tail(s), p, r1)
             \/ /\ Untouched(Tail(s), p)
                /\ s[1].file = "runtime" /\ s[1].key = p /\ s[1].value = r1
  BY <1>9, TailFollows
<1>11. CASE Untouched(s, p) /\ (runtime[p] = raw[p] \/ (ext.st = "write" /\ ext.p = p))
  <2>1. raw'[p] = raw[p] /\ runtime'[p] = runtime[p] /\ Untouched(Tail(s), p)
    BY <1>5, <1>9, <1>10, <1>11 DEF RawWrite, Yaml
  <2>2. QED
    BY <1>1, <1>4, <1>6, <1>11, <2>1
<1>12. CASE Rewrites(s, p, r)
  <2>1. CASE Rewrites(Tail(s), p, r1)
    BY <1>1, <1>6, <1>8, <2>1
  <2>2. CASE Untouched(Tail(s), p) /\ s[1].file = "runtime" /\ s[1].key = p /\ s[1].value = r1
    BY <1>1, <1>5, <1>6, <1>8, <1>9, <2>2
  <2>3. QED
    BY <1>10, <1>12, <2>1, <2>2
<1>13. QED
  BY <1>1, <1>6, <1>7, <1>11, <1>12 DEF FollowInv

\* What is cut short leaves the profiles it had no writes for alone.
LEMMA UiFaultFollows ==
    ASSUME StoreInv, FollowInv, UiKill \/ WriteFails
    PROVE  FollowInv'
<1> SUFFICES ASSUME NEW p \in Profiles, p \notin cut'
             PROVE  Untouched(todo', p) /\ (runtime'[p] = raw'[p] \/ (ext'.st = "write" /\ ext'.p = p))
  BY DEF FollowInv
<1>1. UNCHANGED <<raw, runtime, ext>> /\ cut' = cut \cup Pending
  BY DEF UiKill, WriteFails, files
<1>2. Untouched(todo, p)
  BY <1>1 DEF Untouched, Pending, Yaml
<1>3. ~Rewrites(todo, p, raw[p])
  BY <1>2 DEF Untouched, Rewrites, Yaml
<1>4. runtime[p] = raw[p] \/ (ext.st = "write" /\ ext.p = p)
  BY <1>1, <1>3 DEF FollowInv
<1>5. Untouched(todo', p)
  <2>1. CASE todo' = <<>>
    BY <2>1, EmptyFollows
  <2>2. CASE commit # None /\ todo' = recordFailure(commit)
    <3>1. PICK job \in Jobs : job = commit
      BY <2>2 DEF StoreInv, TypeOK
    <3>2. updateProfile(job) \in GoodLists
      BY UpdatedLists
    <3>3. ListsOnly(Save(updateProfile(job)))
      BY <3>2, SaveLists
    <3>4. QED
      BY <2>2, <3>1, <3>3, ListsLeaveYaml DEF recordFailure
  <2>3. QED
    BY <2>1, <2>2 DEF UiKill, WriteFails
<1>6. QED
  BY <1>1, <1>4, <1>5

\* The extension: between the truncation and the write it owes the runtime YAML.
LEMMA ExtFollows ==
    ASSUME StoreInv, LaunchInv, FollowInv, ExtNext \/ ExtKill
    PROVE  FollowInv'
<1> SUFFICES ASSUME NEW p \in Profiles, p \notin cut'
             PROVE  \/ Rewrites(todo', p, raw'[p])
                    \/ Untouched(todo', p) /\ (runtime'[p] = raw'[p] \/ (ext'.st = "write" /\ ext'.p = p))
  BY DEF FollowInv
<1>1. raw' = raw /\ todo' = todo /\ ext \in ExtStates /\ runtime \in [Profiles -> Contents \cup {None, Torn}]
  BY ExtTypes DEF ExtNext, ExtRead, ExtRecoverRead, ExtRecover, ExtTruncate, ExtWrite, ExtLaunched,
                  ExtFrame, ExtKill, files, section
<1>2. p \notin cut
  BY DEF ExtNext, ExtRead, ExtRecoverRead, ExtRecover, ExtTruncate, ExtWrite, ExtLaunched, ExtKill
<1>3. \/ Rewrites(todo, p, raw[p])
      \/ Untouched(todo, p) /\ (runtime[p] = raw[p] \/ (ext.st = "write" /\ ext.p = p))
  BY <1>2 DEF FollowInv
<1>4. SUFFICES ASSUME runtime[p] = raw[p] \/ (ext.st = "write" /\ ext.p = p)
               PROVE  runtime'[p] = raw'[p] \/ (ext'.st = "write" /\ ext'.p = p)
  BY <1>1, <1>3
<1>5. CASE runtime' = runtime /\ ext.st # "write"
  BY <1>1, <1>4, <1>5
<1>6. CASE ExtTruncate
  <2>1. ext'.st = "write" /\ ext'.p = ext.p /\ runtime' = [runtime EXCEPT ![ext.p] = Torn]
    BY <1>1, <1>6 DEF ExtTruncate, ExtStates
  <2>2. QED
    BY <1>1, <1>4, <1>6, <2>1 DEF ExtTruncate
<1>7. CASE ExtWrite
  <2>1. CASE ext.p = p
    <3>1. ext.touched = {}
      BY <1>7, <2>1 DEF ExtWrite, Touched
    <3>2. runtime' = [runtime EXCEPT ![ext.p] = ext.seen] /\ ext.st = "write"
      BY <1>7, <3>1 DEF ExtWrite, Touched
    <3>3. ext.seen = raw[ext.p]
      BY <3>1, <3>2 DEF LaunchInv
    <3>4. QED
      BY <1>1, <2>1, <3>2, <3>3
  <2>2. CASE ext.p # p
    <3>1. runtime'[p] = runtime[p]
      BY <1>1, <1>7, <2>2 DEF ExtWrite
    <3>2. QED
      BY <1>1, <1>4, <2>2, <3>1
  <2>3. QED
    BY <2>1, <2>2
<1>8. CASE ExtKill
  <2>1. runtime' = runtime /\ (ext.st = "write" => ext.p # p)
    BY <1>8 DEF ExtKill, files
  <2>2. QED
    BY <1>1, <1>4, <2>1
<1>9. CASE (\E q \in Profiles : ExtRead(q)) \/ ExtRecoverRead \/ ExtRecover \/ ExtLaunched
  <2>1. runtime' = runtime /\ ext.st # "write"
    BY <1>9 DEF ExtRead, ExtRecoverRead, ExtRecover, ExtLaunched, ExtBegins
  <2>2. QED
    BY <1>5, <2>1
<1>10. QED
  BY <1>6, <1>7, <1>8, <1>9 DEF ExtNext

LEMMA StepFollows == StoreInv /\ LaunchInv /\ FollowInv /\ [Next]_vars => FollowInv'
<1> SUFFICES ASSUME StoreInv, LaunchInv, FollowInv, [Next]_vars PROVE FollowInv'
  OBVIOUS
<1>1. CASE UserNext \/ UpdateNext \/ Reload \/ Continue
  BY <1>1, SectionSteps, SectionStepFollows
<1>2. CASE WriteNext
  BY <1>2, WriteNextFollows
<1>3. CASE ExtNext \/ ExtKill
  BY <1>3, ExtFollows
<1>4. CASE UiKill \/ WriteFails
  BY <1>4, UiFaultFollows
<1>5. CASE CorruptMain \/ UNCHANGED vars
  <2>1. UNCHANGED <<raw, runtime, ext, todo, cut>>
    BY <1>5 DEF CorruptMain, vars, files, section, history
  <2>2. QED
    BY <2>1 DEF FollowInv
<1>6. QED
  BY <1>1, <1>2, <1>3, <1>4, <1>5 DEF Next, FaultNext

\* Between sections the runtime YAML of a profile is generated from its raw YAML, in every
\* interleaving with the extension, unless a kill or a failed write cut a section between the
\* two files or both processes wrote them at once.
THEOREM RuntimesFollowRaw == Spec => []RuntimeFollowsRaw
<1>1. Init => FollowInv
  <2> SUFFICES ASSUME Init PROVE FollowInv
    OBVIOUS
  <2>1. todo = <<>> /\ runtime = raw
    BY DEF Init
  <2>2. QED
    BY <2>1, EmptyFollows DEF FollowInv
<1>2. FollowInv => RuntimeFollowsRaw
  BY FollowsAtRest DEF RuntimeFollowsRaw
<1>3. Init => LaunchInv
  <2>1. Init => ext = NoExt
    BY DEF Init
  <2>2. QED
    BY <2>1, NoExtState DEF LaunchInv
<1>4. QED
  BY <1>1, <1>2, <1>3, AlwaysStoreInv, StepLaunch, StepFollows, PTL DEF Spec

-----------------------------------------------------------------------------
(* What deleteProfile leaves *)

\* Neither file of p is written and no list with p is.
Clear(s, p) ==
    \A i \in DOMAIN s : ~Yaml(s[i], p) /\ (IsList(s[i]) => p \notin s[i].value.listed)

Erasure(w, p) == w.file = "selections" /\ w.key = p
NoErasure(s) == \A p \in Profiles : \A i \in DOMAIN s : ~Erasure(s[i], p)

Unlisted(p) == p \notin ListedIn(main) /\ p \notin ListedIn(bak) /\ p \notin saved.listed
Unused(p) == p \in held \/ ~InUse(p)

\* The n-th write is that of the last list, and it lacks p.
Removes(s, p, n) ==
    /\ n \in DOMAIN s /\ s[n].file = "bak" /\ p \notin s[n].value.listed
    /\ \A i \in DOMAIN s : i > n => s[i].file \notin {"main", "bak"}

\* Only files of p are written, and after the n-th write.
FilesLast(s, p, n) == \A j \in DOMAIN s : \A q : Yaml(s[j], q) => q = p /\ j > n

Awaits(s, f, p, n) == \E j \in DOMAIN s : j > n /\ s[j].file = f /\ s[j].key = p

\* deleteProfile is at work: the list has not been replaced yet, or the profile is out of
\* profiles.json and whoever used it then has been noted.
Removing(p) ==
    /\ kind[p] # "none" /\ \A j \in DOMAIN todo : Yaml(todo[j], p) => todo[j].value = None
    /\ \/ \E n \in DOMAIN todo :
              /\ n > 1 /\ Removes(todo, p, n) /\ Paired(todo, n)
              /\ Awaits(todo, "raw", p, n) /\ Awaits(todo, "runtime", p, n)
       \/ /\ Unused(p) /\ p \notin ListedIn(main)
          /\ raw[p] = None \/ p \in held \/ Awaits(todo, "raw", p, 0)
          /\ runtime[p] = None \/ p \in held \/ Awaits(todo, "runtime", p, 0)
          /\ Removes(todo, p, 1) \/ (Plain(todo) /\ Unlisted(p))

\* Nothing of the profile is left and nothing will bring it back.
Absent(p) ==
    /\ raw[p] = None /\ runtime[p] = None /\ p \notin selections
    /\ kind[p] # "none" /\ Unlisted(p) /\ ~InUse(p) /\ Clear(todo, p)

Gone ==
    /\ \A p \in Profiles : \A i \in DOMAIN todo :
           Erasure(todo[i], p) => i = Len(todo) /\ Removing(p)
    /\ \A p \in erased \ held : Absent(p)

GoneInv == overlapped = FALSE => Gone

LEMMA JoinClear ==
    ASSUME NEW T, NEW s \in Seq(T), NEW t \in Seq(T), NEW p, Clear(s, p), Clear(t, p)
    PROVE  Clear(s \o t, p)
BY JoinIndex DEF Clear

LEMMA JoinNoErasure ==
    ASSUME NEW T, NEW s \in Seq(T), NEW t \in Seq(T), NoErasure(s), NoErasure(t)
    PROVE  NoErasure(s \o t)
BY JoinIndex DEF NoErasure

LEMMA ListsNoErasure == ASSUME NEW s, ListsOnly(s) PROVE NoErasure(s)
BY DEF ListsOnly, NoErasure, Erasure

LEMMA SaveStateClear ==
    ASSUME NEW L, NEW p, p \notin L.listed
    PROVE  Clear(saveProfilesState(L), p)
<1> DEFINE s == saveProfilesState(L)
<1>1. DOMAIN s = {1, 2} /\ \A i \in {1, 2} : s[i].file \in {"main", "bak"} /\ s[i].value = L
  BY DEF saveProfilesState, Write
<1> HIDE DEF s
<1>2. Clear(s, p)
  BY <1>1 DEF Clear, Yaml
<1>3. QED
  BY <1>2 DEF s

LEMMA RecoveryClear ==
    ASSUME StoreInv, NEW p, p \notin Listed
    PROVE  Clear(Recovery, p)
<1> DEFINE list == loadProfilesState
           aside == IF main = Corrupt THEN <<Write("main", None, None)>> ELSE <<>>
           restore == IF Readable(bak) THEN <<Write("main", None, list)>>
                                       ELSE saveProfilesState(list)
<1>1. aside \in Seq(GoodWrites) /\ restore \in Seq(GoodWrites)
  BY MainWrite, SaveStateGood, LoadedGood
<1>2. Clear(aside, p)
  BY DEF Clear, Write, Yaml, IsList
<1>3. Clear(restore, p)
  <2>1. p \notin list.listed
    BY DEF Listed
  <2> HIDE DEF list
  <2>2. Clear(<<Write("main", None, list)>>, p)
    BY <2>1 DEF Clear, Write, Yaml
  <2>3. QED
    BY <2>1, <2>2, SaveStateClear
<1>4. Recovery = IF Readable(main) THEN <<>> ELSE aside \o restore
  BY DEF Recovery
<1> HIDE DEF aside, restore
<1>5. Clear(aside \o restore, p)
  BY <1>1, <1>2, <1>3, JoinClear
<1>6. Clear(<<>>, p)
  BY DEF Clear
<1>7. QED
  BY <1>4, <1>5, <1>6

LEMMA SectionClear ==
    ASSUME StoreInv, NEW y \in Seq(GoodWrites), NEW L \in GoodLists, NEW p, p \notin Listed
    PROVE  /\ p \notin L.listed => Clear(Save(L), p)
           /\ Clear(y, p) => Clear(Recovery \o y, p)
           /\ Clear(y, p) /\ p \notin L.listed =>
                 /\ Clear(Save(L) \o y, p) /\ Clear(y \o Save(L), p)
                 /\ Clear(Recovery \o y \o saveProfilesState(L), p)
<1>1. /\ Recovery \in Seq(GoodWrites) /\ Save(L) \in Seq(GoodWrites)
      /\ saveProfilesState(L) \in Seq(GoodWrites) /\ Recovery \o y \in Seq(GoodWrites)
  BY RecoveryGood, SaveGood, SaveStateGood, Concatenated
<1>2. Clear(Recovery, p) /\ (p \notin L.listed => Clear(saveProfilesState(L), p))
  BY RecoveryClear, SaveStateClear
<1>3. p \notin L.listed => Clear(Save(L), p)
  BY <1>1, <1>2, JoinClear DEF Save
<1>4. Clear(y, p) => Clear(Recovery \o y, p)
  BY <1>1, <1>2, JoinClear
<1>5. Clear(y, p) /\ p \notin L.listed => Clear(Recovery \o y \o saveProfilesState(L), p)
  BY <1>1, <1>2, <1>4, JoinClear
<1>6. Clear(y, p) /\ p \notin L.listed => Clear(Save(L) \o y, p) /\ Clear(y \o Save(L), p)
  BY <1>1, <1>3, JoinClear
<1>7. QED
  BY <1>3, <1>4, <1>5, <1>6

LEMMA SectionNoErasure ==
    ASSUME StoreInv, NEW y \in Seq(GoodWrites), NEW L \in GoodLists, NoErasure(y)
    PROVE  /\ NoErasure(Save(L)) /\ NoErasure(Recovery) /\ NoErasure(Recovery \o y)
           /\ NoErasure(y \o Save(L)) /\ NoErasure(Recovery \o y \o saveProfilesState(L))
<1>1. /\ Recovery \in Seq(GoodWrites) /\ Save(L) \in Seq(GoodWrites)
      /\ saveProfilesState(L) \in Seq(GoodWrites) /\ Recovery \o y \in Seq(GoodWrites)
  BY RecoveryGood, SaveGood, SaveStateGood, Concatenated
<1>2. NoErasure(Recovery) /\ NoErasure(Save(L)) /\ NoErasure(saveProfilesState(L))
  BY RecoveryLists, SaveLists, SaveStateLists, ListsNoErasure
<1>3. NoErasure(Recovery \o y)
  BY <1>1, <1>2, JoinNoErasure
<1>4. NoErasure(y \o Save(L)) /\ NoErasure(Recovery \o y \o saveProfilesState(L))
  BY <1>1, <1>2, <1>3, JoinNoErasure
<1>5. QED
  BY <1>2, <1>3, <1>4

LEMMA PairClear ==
    ASSUME NEW q, NEW c, NEW p
    PROVE  NoErasure(Pair(q, c)) /\ (q # p => Clear(Pair(q, c), p))
BY DEF NoErasure, Erasure, Clear, IsList, Yaml, Pair, Write

LEMMA RuntimeClear ==
    ASSUME NEW q, NEW c, NEW p, NEW s, s = <<Write("runtime", q, Torn), Write("runtime", q, c)>>
    PROVE  NoErasure(s) /\ (q # p => Clear(s, p))
BY DEF NoErasure, Erasure, Clear, IsList, Yaml, Write

LEMMA CopiedClear ==
    ASSUME NEW q, NEW c, NEW d, NEW p
    PROVE  NoErasure(Copied(q, c, d)) /\ (q # p => Clear(Copied(q, c, d), p))
<1>1. NoErasure(Copied(q, c, d))
  BY DEF NoErasure, Erasure, Copied, Write
<1>2. q # p => Clear(Copied(q, c, d), p)
  BY DEF Clear, IsList, Yaml, Copied, Write
<1>3. QED
  BY <1>1, <1>2

LEMMA ErasedClear == ASSUME NEW q, NEW p, q # p PROVE Clear(Erased(q), p)
BY DEF Clear, IsList, Yaml, Erased, Write

LEMMA ResetClear ==
    ASSUME StoreInv, NEW n \in Nat, NEW seq \in [1..n -> Profiles], Len(seq) = n,
           NEW p, p \notin Listed
    PROVE  /\ NoErasure(ResetWrites(seq))
           /\ (\A i \in 1..n : seq[i] # p) => Clear(ResetWrites(seq), p)
<1> DEFINE yaml == [i \in 1..2 * n |->
             Write(IF i % 2 = 1 THEN "raw" ELSE "runtime", seq[(i + 1) \div 2], None)]
           rest == <<Write("main", None, None), Write("selections", None, None)>>
<1>1. \A i \in 1..2 * n : (i + 1) \div 2 \in 1..n
  OBVIOUS
<1>2. \A i \in 1..2 * n :
        Write(IF i % 2 = 1 THEN "raw" ELSE "runtime", seq[(i + 1) \div 2], None) \in GoodWrites
  BY <1>1, YamlWrite
<1>3. yaml \in Seq(GoodWrites) /\ DOMAIN yaml = 1..2 * n
  BY <1>2
<1>4. \A i \in 1..2 * n : yaml[i].file \in {"raw", "runtime"} /\ yaml[i].key = seq[(i + 1) \div 2]
  BY DEF Write
<1>5. rest \in Seq(GoodWrites)
  BY MainWrite, SelectionsWrite
<1>6. Clear(rest, p) /\ NoErasure(rest)
  BY StoreConstants DEF Clear, NoErasure, Erasure, IsList, Yaml, Write
<1>7. ResetWrites(seq) = Recovery \o yaml \o rest \o saveProfilesState(Empty)
  BY DEF ResetWrites
<1> HIDE DEF yaml, rest
<1>8. NoErasure(yaml) /\ ((\A i \in 1..n : seq[i] # p) => Clear(yaml, p))
  BY <1>1, <1>3, <1>4 DEF NoErasure, Erasure, Clear, IsList, Yaml
<1> DEFINE opening == Recovery \o yaml
           before == opening \o rest
           end == saveProfilesState(Empty)
<1>9. /\ opening \in Seq(GoodWrites) /\ NoErasure(opening)
      /\ ((\A i \in 1..n : seq[i] # p) => Clear(opening, p))
  BY <1>3, <1>8, SectionClear, SectionNoErasure, GoodAreLists, RecoveryGood, Concatenated
<1>10. ResetWrites(seq) = before \o end
  BY <1>7
<1> HIDE DEF opening
<1>11. /\ before \in Seq(GoodWrites) /\ NoErasure(before)
       /\ ((\A i \in 1..n : seq[i] # p) => Clear(before, p))
  BY <1>5, <1>6, <1>9, JoinClear, JoinNoErasure, Concatenated
<1>12. end \in Seq(GoodWrites) /\ NoErasure(end) /\ Clear(end, p)
  <2>1. p \notin Empty.listed
    BY DEF Empty
  <2>2. QED
    BY <2>1, SaveStateClear, SaveStateLists, ListsNoErasure, SaveStateGood, GoodAreLists
<1> HIDE DEF before, end
<1>13. QED
  BY <1>10, <1>11, <1>12, JoinClear, JoinNoErasure

LEMMA ErasedGood == ASSUME NEW p \in Profiles PROVE Erased(p) \in Seq(GoodWrites)
BY YamlWrite, SelectionsWrite DEF Erased

LEMMA JoinLen ==
    ASSUME NEW T, NEW s \in Seq(T), NEW t \in Seq(T)
    PROVE  Len(s \o t) = Len(s) + Len(t)
OBVIOUS

\* The section of deleteProfile, before its first write.
LEMMA ErasingSection ==
    ASSUME StoreInv, NEW p \in Profiles, NEW L \in GoodLists, p \notin L.listed,
           NEW s, s = Save(L) \o Erased(p)
    PROVE  /\ \A q \in Profiles : \A i \in DOMAIN s : Erasure(s[i], q) => i = Len(s) /\ q = p
           /\ \A j \in DOMAIN s : Yaml(s[j], p) => s[j].value = None
           /\ \E n \in DOMAIN s :
                  /\ n > 1 /\ Removes(s, p, n) /\ Paired(s, n)
                  /\ Awaits(s, "raw", p, n) /\ Awaits(s, "runtime", p, n)
                  /\ FilesLast(s, p, n)
<1> DEFINE save == saveProfilesState(L)
           h == Save(L)
           e == Erased(p)
<1>1. Recovery \in Seq(GoodWrites) /\ save \in Seq(GoodWrites) /\ h \in Seq(GoodWrites)
        /\ e \in Seq(GoodWrites) /\ ListsOnly(h) /\ h = Recovery \o save /\ s = h \o e
  BY RecoveryGood, SaveStateGood, SaveGood, SaveLists, PairGood DEF Save
<1>2. /\ DOMAIN save = {1, 2} /\ Len(save) = 2 /\ save[1].file = "main" /\ save[2].file = "bak"
      /\ save[1].value = L /\ save[2].value = L
  BY DEF saveProfilesState, Write
<1>3. /\ DOMAIN e = {1, 2, 3} /\ Len(e) = 3
      /\ e[1].file = "raw" /\ e[2].file = "runtime" /\ e[3].file = "selections"
      /\ \A i \in {1, 2, 3} : e[i].key = p /\ e[i].value = None
  BY DEF Erased, Write
<1> HIDE DEF save, h, e
<1>4. PICK m \in Nat : m = Len(Recovery)
  BY <1>1
<1>5. /\ Len(h) = m + 2 /\ h[m + 1].file = "main" /\ h[m + 2].file = "bak"
      /\ h[m + 1].value = L /\ h[m + 2].value = L /\ m + 1 \in DOMAIN h /\ m + 2 \in DOMAIN h
  <2>1. \A i \in DOMAIN save : i + m \in DOMAIN h /\ h[i + m] = save[i]
    BY <1>1, <1>4, JoinIndex
  <2>2. Len(h) = m + 2
    <3>1. Len(Recovery \o save) = Len(Recovery) + Len(save)
      BY <1>1, JoinLen
    <3>2. QED
      BY <1>1, <1>2, <1>4, <3>1
  <2>3. 1 + m = m + 1 /\ 2 + m = m + 2
    BY <1>4
  <2>4. QED
    BY <1>2, <2>1, <2>2, <2>3
<1>6. PICK n \in Nat : n = m + 2
  OBVIOUS
<1>7. /\ DOMAIN s \subseteq Int /\ Len(s) = n + 3
      /\ \A i \in DOMAIN s : \/ s[i].file \in {"main", "bak"} /\ i <= n
                             \/ i > n /\ i - n \in {1, 2, 3} /\ s[i] = e[i - n]
      /\ n \in DOMAIN s /\ n - 1 \in DOMAIN s /\ s[n] = h[n] /\ s[n - 1] = h[n - 1]
      /\ n + 1 \in DOMAIN s /\ s[n + 1] = e[1] /\ n + 2 \in DOMAIN s /\ s[n + 2] = e[2]
  <2>1. Len(h) = n /\ n - 1 = m + 1
    BY <1>5, <1>6
  <2>2. /\ DOMAIN h = 1..n
        /\ \A i \in DOMAIN s : \/ i \in DOMAIN h /\ s[i] = h[i]
                               \/ i > n /\ i - n \in DOMAIN e /\ s[i] = e[i - n]
        /\ \A i \in DOMAIN h : i \in DOMAIN s /\ s[i] = h[i]
        /\ \A i \in DOMAIN e : i + n \in DOMAIN s /\ s[i + n] = e[i]
    BY <1>1, <2>1, JoinIndex
  <2>3. DOMAIN s \subseteq Int /\ Len(s) = n + 3
    <3>1. Len(h \o e) = Len(h) + Len(e)
      BY <1>1, JoinLen
    <3>2. Len(s) = n + 3
      BY <1>1, <1>3, <2>1, <3>1
    <3>3. s \in Seq(GoodWrites)
      BY <1>1, Concatenated
    <3>4. QED
      BY <3>2, <3>3
  <2>4. \A i \in DOMAIN s : \/ s[i].file \in {"main", "bak"} /\ i <= n
                            \/ i > n /\ i - n \in {1, 2, 3} /\ s[i] = e[i - n]
    BY <1>1, <1>3, <2>2 DEF ListsOnly
  <2>5. n \in DOMAIN s /\ n - 1 \in DOMAIN s /\ s[n] = h[n] /\ s[n - 1] = h[n - 1]
    BY <1>5, <1>6, <2>1, <2>2
  <2>6. 1 + n = n + 1 /\ 2 + n = n + 2
    OBVIOUS
  <2>7. n + 1 \in DOMAIN s /\ s[n + 1] = e[1] /\ n + 2 \in DOMAIN s /\ s[n + 2] = e[2]
    BY <1>3, <2>2, <2>6
  <2>8. QED
    BY <2>3, <2>4, <2>5, <2>7
<1>8. \A q \in Profiles : \A i \in DOMAIN s : Erasure(s[i], q) => i = Len(s) /\ q = p
  <2> SUFFICES ASSUME NEW q \in Profiles, NEW i \in DOMAIN s, Erasure(s[i], q)
               PROVE  i = Len(s) /\ q = p
    OBVIOUS
  <2>1. i > n /\ i - n \in {1, 2, 3} /\ s[i] = e[i - n]
    BY <1>7 DEF Erasure
  <2>2. PICK k \in {1, 2, 3} : k = i - n /\ s[i] = e[k]
    BY <2>1
  <2>3. k = 3
    BY <1>3, <2>2 DEF Erasure
  <2>4. q = p
    BY <1>3, <2>2 DEF Erasure
  <2>5. i = n + 3
    BY <1>7, <2>2, <2>3
  <2>6. QED
    BY <1>7, <2>4, <2>5
<1>9. \A j \in DOMAIN s : Yaml(s[j], p) => s[j].value = None
  <2> SUFFICES ASSUME NEW j \in DOMAIN s, Yaml(s[j], p) PROVE s[j].value = None
    OBVIOUS
  <2>1. PICK k \in {1, 2, 3} : s[j] = e[k]
    BY <1>7 DEF Yaml
  <2>2. QED
    BY <1>3, <2>1
<1>10. Removes(s, p, n)
  <2>1. s[n].file = "bak" /\ s[n].value = L
    BY <1>5, <1>6, <1>7
  <2>2. ASSUME NEW i \in DOMAIN s, i > n PROVE s[i].file \notin {"main", "bak"}
    <3>1. i - n \in {1, 2, 3} /\ s[i] = e[i - n]
      BY <1>7, <2>2
    <3>2. PICK k \in {1, 2, 3} : s[i] = e[k]
      BY <3>1
    <3>3. QED
      BY <1>3, <3>2
  <2>3. QED
    BY <1>7, <2>1, <2>2 DEF Removes
<1>11. Paired(s, n)
  <2>1. n - 1 = m + 1
    BY <1>6
  <2>2. QED
    BY <1>5, <1>6, <1>7, <2>1 DEF Paired
<1>12. Awaits(s, "raw", p, n) /\ Awaits(s, "runtime", p, n)
  <2>1. n + 1 > n /\ s[n + 1].file = "raw" /\ s[n + 1].key = p
    BY <1>3, <1>7
  <2>2. n + 2 > n /\ s[n + 2].file = "runtime" /\ s[n + 2].key = p
    BY <1>3, <1>7
  <2>3. QED
    BY <1>7, <2>1, <2>2 DEF Awaits
<1>13. n > 1
  BY <1>6
<1>14. FilesLast(s, p, n)
  <2> SUFFICES ASSUME NEW j \in DOMAIN s, NEW q, Yaml(s[j], q) PROVE q = p /\ j > n
    BY DEF FilesLast
  <2>1. j > n /\ j - n \in {1, 2, 3} /\ s[j] = e[j - n]
    BY <1>7 DEF Yaml
  <2>2. PICK k \in {1, 2, 3} : s[j] = e[k]
    BY <2>1
  <2>3. QED
    BY <1>3, <2>1, <2>2 DEF Yaml
<1>15. QED
  BY <1>7, <1>8, <1>9, <1>10, <1>11, <1>12, <1>13, <1>14

\* What a section may touch: listed profiles, the one it makes, those of the updates.
LEMMA OldSectionClear ==
    ASSUME StoreInv, OldSection, NEW p \in Profiles, p \notin Listed, ~InUse(p)
    PROVE  Clear(todo', p)
<1>1. CASE todo' = Recovery
  BY <1>1, RecoveryClear
<1>2. CASE \E L \in GoodLists : L.listed \subseteq Listed /\ todo' = Save(L)
  <2>1. PICK L \in GoodLists : L.listed \subseteq Listed /\ todo' = Save(L)
    BY <1>2
  <2>2. <<>> \in Seq(GoodWrites)
    OBVIOUS
  <2>3. QED
    BY <2>1, <2>2, SectionClear
<1>3. ASSUME NEW q \in Profiles, NEW c \in Contents, NEW L \in GoodLists, L.listed \subseteq Listed,
             \/ q \in Listed /\ todo' = Recovery \o Pair(q, c) \o saveProfilesState(L)
             \/ (\E u \in Updates : updates[u] # None /\ updates[u].p = q)
                  /\ todo' = Pair(q, c) \o Save(L)
      PROVE  Clear(todo', p)
  <2>1. q # p
    BY <1>3 DEF InUse
  <2>2. PICK y \in Seq(GoodWrites) : y = Pair(q, c) /\ Clear(y, p)
    BY <2>1, PairGood, PairClear
  <2>3. p \notin L.listed
    BY <1>3
  <2>4. Clear(Recovery \o y \o saveProfilesState(L), p) /\ Clear(y \o Save(L), p)
    BY <2>2, <2>3, SectionClear
  <2>5. QED
    BY <1>3, <2>2, <2>4
<1>4. ASSUME NEW q \in Profiles, q \in Listed,
             todo' = Recovery \o <<Write("runtime", q, Torn), Write("runtime", q, raw[q])>>
      PROVE  Clear(todo', p)
  <2>1. PICK c \in Contents \cup {None, Torn} : c = raw[q]
    BY DEF StoreInv, TypeOK
  <2>2. PICK s : s = <<Write("runtime", q, Torn), Write("runtime", q, c)>>
    OBVIOUS
  <2>3. s \in Seq(GoodWrites)
    BY <2>2, PairGood
  <2>4. Clear(s, p)
    BY <1>4, <2>2, RuntimeClear
  <2>5. todo' = Recovery \o s
    BY <1>4, <2>1, <2>2
  <2>6. QED
    BY <2>3, <2>4, <2>5, SectionClear, GoodAreLists
<1>5. ASSUME NEW q \in Profiles, NEW L \in GoodLists, q \in Listed, L.listed = Listed \ {q},
             todo' = Save(L) \o Erased(q)
      PROVE  Clear(todo', p)
  <2>1. Erased(q) \in Seq(GoodWrites) /\ Clear(Erased(q), p)
    BY <1>5, ErasedGood, ErasedClear
  <2>2. QED
    BY <1>5, <2>1, SectionClear
<1>6. QED
  BY <1>1, <1>2, <1>3, <1>4, <1>5 DEF OldSection

LEMMA OldSectionErasure ==
    ASSUME StoreInv, OldSection
    PROVE  \/ NoErasure(todo')
           \/ \E p \in Profiles, L \in GoodLists :
                  p \in Listed /\ p \notin L.listed /\ todo' = Save(L) \o Erased(p)
<1>1. CASE todo' = Recovery
  BY <1>1, RecoveryLists, ListsNoErasure
<1>2. CASE \E L \in GoodLists : L.listed \subseteq Listed /\ todo' = Save(L)
  BY <1>2, SaveLists, ListsNoErasure
<1>3. ASSUME NEW q \in Profiles, NEW c \in Contents, NEW L \in GoodLists,
             \/ todo' = Recovery \o Pair(q, c) \o saveProfilesState(L)
             \/ todo' = Pair(q, c) \o Save(L)
      PROVE  NoErasure(todo')
  <2>1. Pair(q, c) \in Seq(GoodWrites) /\ NoErasure(Pair(q, c))
    BY PairGood, PairClear
  <2>2. QED
    BY <1>3, <2>1, SectionNoErasure
<1>4. ASSUME NEW q \in Profiles,
             todo' = Recovery \o <<Write("runtime", q, Torn), Write("runtime", q, raw[q])>>
      PROVE  NoErasure(todo')
  <2>1. PICK c \in Contents \cup {None, Torn} : c = raw[q]
    BY DEF StoreInv, TypeOK
  <2>2. PICK s : s = <<Write("runtime", q, Torn), Write("runtime", q, c)>>
    OBVIOUS
  <2>3. s \in Seq(GoodWrites) /\ NoErasure(s)
    BY <2>2, PairGood, RuntimeClear
  <2>4. todo' = Recovery \o s
    BY <1>4, <2>1, <2>2
  <2>5. QED
    BY <2>3, <2>4, SectionNoErasure, GoodAreLists
<1>5. ASSUME NEW q \in Profiles, NEW L \in GoodLists, q \in Listed, L.listed = Listed \ {q},
             todo' = Save(L) \o Erased(q)
      PROVE  q \in Listed /\ q \notin L.listed /\ todo' = Save(L) \o Erased(q)
  BY <1>5
<1>6. QED
  BY <1>1, <1>2, <1>3, <1>4, <1>5 DEF OldSection

LEMMA NewSectionClear ==
    ASSUME StoreInv, NEW p \in Profiles, NewSection(p)
    PROVE  /\ NoErasure(todo')
           /\ \A z \in Profiles : z \notin Listed /\ z # p => Clear(todo', z)
<1>1. PICK L \in GoodLists :
        /\ L.listed = Listed \cup {p}
        /\ \/ todo' = Save(L)
           \/ \E c \in Contents : todo' = Recovery \o Pair(p, c) \o saveProfilesState(L)
           \/ \E c \in Contents \cup {Torn}, d \in Contents \cup {Torn} :
                  todo' = Recovery \o Copied(p, c, d) \o saveProfilesState(L)
  BY DEF NewSection
<1>2. CASE todo' = Save(L)
  <2>1. <<>> \in Seq(GoodWrites)
    OBVIOUS
  <2>2. QED
    BY <1>1, <1>2, <2>1, SaveLists, ListsNoErasure, SectionClear
<1>3. ASSUME NEW y \in Seq(GoodWrites), NoErasure(y), \A z : z # p => Clear(y, z),
             todo' = Recovery \o y \o saveProfilesState(L)
      PROVE  /\ NoErasure(todo')
             /\ \A z \in Profiles : z \notin Listed /\ z # p => Clear(todo', z)
  BY <1>1, <1>3, SectionClear, SectionNoErasure
<1>4. ASSUME NEW c \in Contents
      PROVE  /\ Pair(p, c) \in Seq(GoodWrites) /\ NoErasure(Pair(p, c))
             /\ \A z : z # p => Clear(Pair(p, c), z)
  <2>1. c \in Contents \cup {None, Torn}
    BY <1>4
  <2>2. Pair(p, c) \in Seq(GoodWrites)
    BY <2>1, PairGood
  <2>3. NoErasure(Pair(p, c))
    BY PairClear
  <2>4. \A z : z # p => Clear(Pair(p, c), z)
    BY PairClear
  <2>5. QED
    BY <2>2, <2>3, <2>4
<1>5. ASSUME NEW c \in Contents \cup {Torn}, NEW d \in Contents \cup {Torn}
      PROVE  /\ Copied(p, c, d) \in Seq(GoodWrites) /\ NoErasure(Copied(p, c, d))
             /\ \A z : z # p => Clear(Copied(p, c, d), z)
  <2>1. c \in Contents \cup {None, Torn} /\ d \in Contents \cup {None, Torn}
    BY <1>5
  <2>2. Copied(p, c, d) \in Seq(GoodWrites)
    BY <2>1, PairGood
  <2>3. NoErasure(Copied(p, c, d))
    BY CopiedClear
  <2>4. \A z : z # p => Clear(Copied(p, c, d), z)
    BY CopiedClear
  <2>5. QED
    BY <2>2, <2>3, <2>4
<1>6. QED
  BY <1>1, <1>2, <1>3, <1>4, <1>5

LEMMA ListedIsRead == Listed \subseteq ListedIn(main) \cup ListedIn(bak)
<1>1. Empty.listed = {}
  BY DEF Empty
<1>2. QED
  BY <1>1 DEF Listed, ListedIn, loadProfilesState

\* A section that does not concern an absent profile.
LEMMA AbsentStays ==
    ASSUME NEW p \in Profiles, Absent(p), SectionStep, Clear(todo', p), kind'[p] # "none"
    PROVE  Absent(p)'
<1>1. UNCHANGED <<main, bak, raw, runtime, selections, saved, ext>>
  BY DEF SectionStep, files
<1>2. p \notin Listed
  BY ListedIsRead DEF Absent, Unlisted
<1>3. ~InUse(p)'
  BY <1>1, <1>2 DEF SectionStep, Absent, InUse
<1>4. Unlisted(p)'
  BY <1>1 DEF Absent, Unlisted, ListedIn
<1>5. QED
  BY <1>1, <1>3, <1>4 DEF Absent

LEMMA GoneFrom ==
    ASSUME UNCHANGED <<erased, held>>, \A p \in erased \ held : Absent(p)',
           \A p \in Profiles : \A i \in DOMAIN todo' :
               Erasure(todo'[i], p) => i = Len(todo') /\ Removing(p)'
    PROVE  Gone'
BY DEF Gone, Erasure

LEMMA SectionStepGone ==
    ASSUME StoreInv, KeptInv, GoneInv, SectionStep
    PROVE  GoneInv'
<1> SUFFICES ASSUME overlapped' = FALSE PROVE Gone'
  BY DEF GoneInv
<1>1. /\ UNCHANGED <<files, ext, saved, erased, held, overlapped>>
  BY DEF SectionStep
<1>2. Kept /\ Gone
  BY <1>1 DEF KeptInv, GoneInv
<1>3. erased \subseteq Profiles /\ kind \in [Profiles -> {"none", "local", "subscription"}]
  BY DEF StoreInv, TypeOK
<1>4. SUFFICES /\ \A p \in Profiles : \A i \in DOMAIN todo' :
                      Erasure(todo'[i], p) => i = Len(todo') /\ Removing(p)'
               /\ \A p \in erased \ held : Clear(todo', p) /\ kind'[p] # "none"
  <2>1. \A p \in erased \ held : Absent(p)'
    BY <1>2, <1>3, <1>4, AbsentStays DEF Gone
  <2>2. QED
    BY <1>1, <1>4, <2>1, GoneFrom
<1>5. \A p \in erased \ held : p \in Profiles /\ p \notin Listed /\ ~InUse(p) /\ kind[p] # "none"
  BY <1>2, <1>3, ListedIsRead DEF Gone, Absent, Unlisted
<1>6. CASE OldSection /\ UNCHANGED kind
  <2>1. \A p \in erased \ held : Clear(todo', p) /\ kind'[p] # "none"
    BY <1>5, <1>6, OldSectionClear
  <2>2. CASE NoErasure(todo')
    BY <2>1, <2>2 DEF NoErasure
  <2>3. ASSUME NEW p \in Profiles, NEW L \in GoodLists,
               p \in Listed, p \notin L.listed, todo' = Save(L) \o Erased(p)
        PROVE  \A q \in Profiles : \A i \in DOMAIN todo' :
                   Erasure(todo'[i], q) => i = Len(todo') /\ Removing(q)'
    <3>1. kind[p] # "none"
      BY <1>2, <2>3, LoadedKept DEF Alive, Listed
    <3>2. PICK s : s = todo'
      OBVIOUS
    <3>3. /\ \A q \in Profiles : \A i \in DOMAIN s : Erasure(s[i], q) => i = Len(s) /\ q = p
          /\ \A j \in DOMAIN s : Yaml(s[j], p) => s[j].value = None
          /\ \E n \in DOMAIN s :
                 /\ n > 1 /\ Removes(s, p, n) /\ Paired(s, n)
                 /\ Awaits(s, "raw", p, n) /\ Awaits(s, "runtime", p, n)
      BY <2>3, <3>2, ErasingSection
    <3>4. Removing(p)'
      BY <1>6, <3>1, <3>2, <3>3 DEF Removing
    <3>5. QED
      BY <3>2, <3>3, <3>4
  <2>4. QED
    BY <1>6, <2>1, <2>2, <2>3, OldSectionErasure
<1>7. ASSUME NEW p \in Profiles, NewSection(p)
      PROVE  /\ NoErasure(todo')
             /\ \A z \in erased \ held : Clear(todo', z) /\ kind'[z] # "none"
  <2>1. kind[p] = "none" /\ \A z \in Profiles : z # p => kind'[z] = kind[z]
    BY <1>3, <1>7 DEF NewSection, Fresh
  <2>2. QED
    BY <1>5, <1>7, <2>1, NewSectionClear
<1>8. CASE ResetSection /\ UNCHANGED kind
  <2>1. PICK n \in Nat : \E seq \in [1..n -> Profiles] :
          /\ Len(seq) = n /\ \A i \in 1..n : seq[i] \in Listed
          /\ todo' = ResetWrites(seq)
    BY <1>8 DEF ResetSection
  <2>2. PICK seq \in [1..n -> Profiles] :
          /\ Len(seq) = n /\ \A i \in 1..n : seq[i] \in Listed
          /\ todo' = ResetWrites(seq)
    BY <2>1
  <2>3. None \notin Listed
    BY ListedProfiles, StoreConstants
  <2>4. NoErasure(todo')
    BY <2>2, <2>3, ResetClear
  <2>5. \A p \in erased \ held : Clear(todo', p)
    BY <1>5, <2>2, ResetClear
  <2>6. QED
    BY <1>5, <1>8, <2>4, <2>5 DEF NoErasure
<1>9. QED
  BY <1>6, <1>7, <1>8 DEF SectionStep, NoErasure

LEMMA TailAwaits ==
    ASSUME NEW T, NEW s \in Seq(T), s # <<>>, NEW f, NEW p, NEW n \in Nat, Awaits(s, f, p, n)
    PROVE  /\ n > 0 => Awaits(Tail(s), f, p, n - 1)
           /\ Awaits(Tail(s), f, p, 0) \/ (s[1].file = f /\ s[1].key = p)
<1>1. PICK j \in DOMAIN s : j > n /\ s[j].file = f /\ s[j].key = p
  BY DEF Awaits
<1>2. \A i \in DOMAIN s : i > 1 => i - 1 \in DOMAIN Tail(s) /\ Tail(s)[i - 1] = s[i]
  OBVIOUS
<1>3. j \in Nat /\ j >= 1
  OBVIOUS
<1>4. CASE j = 1
  BY <1>1, <1>4
<1>5. CASE j # 1
  <2>1. j - 1 \in DOMAIN Tail(s) /\ Tail(s)[j - 1] = s[j] /\ j - 1 > 0 /\ (n > 0 => j - 1 > n - 1)
    BY <1>1, <1>2, <1>3, <1>5
  <2>2. QED
    BY <1>1, <2>1 DEF Awaits
<1>6. QED
  BY <1>4, <1>5

LEMMA TailRemoves ==
    ASSUME NEW T, NEW s \in Seq(T), s # <<>>, NEW p, NEW n, Removes(s, p, n)
    PROVE  /\ n > 1 => Removes(Tail(s), p, n - 1)
           /\ n > 2 /\ Paired(s, n) => Paired(Tail(s), n - 1)
           /\ n = 2 /\ Paired(s, n) => s[1].file = "main" /\ p \notin s[1].value.listed
           /\ n = 1 => s[1].file = "bak" /\ p \notin s[1].value.listed /\ Plain(Tail(s))
<1> DEFINE t == Tail(s)
<1>1. /\ n \in DOMAIN s /\ s[n].file = "bak" /\ p \notin s[n].value.listed
      /\ \A i \in DOMAIN s : i > n => s[i].file \notin {"main", "bak"}
  BY DEF Removes
<1>2. /\ DOMAIN s \subseteq Int /\ DOMAIN t \subseteq Int
      /\ \A i \in DOMAIN t : i >= 1 /\ i + 1 \in DOMAIN s /\ t[i] = s[i + 1]
      /\ \A i \in DOMAIN s : i > 1 => i - 1 \in DOMAIN t /\ t[i - 1] = s[i]
  OBVIOUS
<1> HIDE DEF t
<1>3. \A i \in DOMAIN t : i > n - 1 => t[i].file \notin {"main", "bak"}
  <2> SUFFICES ASSUME NEW i \in DOMAIN t, i > n - 1 PROVE t[i].file \notin {"main", "bak"}
    OBVIOUS
  <2>1. i + 1 \in DOMAIN s /\ i + 1 > n /\ t[i] = s[i + 1]
    BY <1>1, <1>2
  <2>2. QED
    BY <1>1, <2>1
<1>4. n > 1 => Removes(t, p, n - 1)
  BY <1>1, <1>2, <1>3 DEF Removes
<1>5. ASSUME n > 2, Paired(s, n) PROVE Paired(t, n - 1)
  <2>1. n - 1 \in DOMAIN s /\ s[n - 1].file = "main" /\ s[n - 1].value = s[n].value
    BY <1>5 DEF Paired
  <2>2. t[n - 1] = s[n] /\ (n - 1) - 1 \in DOMAIN t /\ t[(n - 1) - 1] = s[n - 1]
    BY <1>1, <1>2, <1>5, <2>1
  <2>3. QED
    BY <2>1, <2>2 DEF Paired
<1>6. n = 2 /\ Paired(s, n) => s[1].file = "main" /\ p \notin s[1].value.listed
  BY <1>1 DEF Paired
<1>7. n = 1 => s[1].file = "bak" /\ p \notin s[1].value.listed /\ Plain(t)
  BY <1>1, <1>2, <1>3 DEF Plain
<1>8. QED
  BY <1>4, <1>5, <1>6, <1>7 DEF t

\* The parts of a write that the removal of a profile depends on.
LEMMA WriteNextParts ==
    ASSUME StoreInv, WriteNext
    PROVE  /\ todo \in Seq(GoodWrites) /\ todo # <<>> /\ todo' = Tail(todo) /\ todo[1] \in GoodWrites
           /\ main' = IF todo[1].file = "main" THEN todo[1].value ELSE main
           /\ bak' = IF todo[1].file = "bak" THEN todo[1].value ELSE bak
           /\ saved' = IF todo[1].file = "bak" THEN todo[1].value ELSE saved
           /\ kind' = kind /\ held \subseteq held' /\ selections' \subseteq selections
           /\ \A p \in Profiles : /\ InUse(p)' <=> InUse(p)
                                  /\ todo[1].file = "main" /\ p \notin ListedIn(todo[1].value) => Unused(p)'
                                  /\ Unused(p) => Unused(p)'
           /\ \A p \in Profiles :
                  /\ raw'[p] = IF RawWrite(todo[1], p) THEN todo[1].value ELSE raw[p]
                  /\ runtime'[p] = IF todo[1].file = "runtime" /\ todo[1].key = p
                                     THEN todo[1].value ELSE runtime[p]
           /\ \A p \in Profiles : Erasure(todo[1], p) => p \notin selections'
           /\ \A p \in erased' : p \in erased \/ (p \in Profiles /\ Erasure(todo[1], p))
<1> DEFINE w == todo[1]
<1>1. todo \in Seq(GoodWrites) /\ todo # <<>> /\ todo' = Tail(todo)
  BY DEF StoreInv, GoodWrites, WriteNext
<1>2. w \in GoodWrites /\ w = Head(todo)
  BY <1>1, TailIndex
<1>3. /\ raw' = (IF w.file = "raw" THEN [raw EXCEPT ![w.key] = w.value] ELSE raw)
      /\ runtime' = (IF w.file = "runtime" THEN [runtime EXCEPT ![w.key] = w.value] ELSE runtime)
      /\ ext' = [ext EXCEPT !.touched =
                     IF w.file \in {"raw", "runtime"} /\ w.key = ext.p THEN {w.key} ELSE @]
      /\ main' = (IF w.file = "main" THEN w.value ELSE main)
      /\ bak' = (IF w.file = "bak" THEN w.value ELSE bak)
      /\ saved' = (IF w.file = "bak" THEN w.value ELSE saved)
      /\ kind' = kind /\ updates' = updates
      /\ held' = (IF w.file = "main"
                    THEN held \cup {p \in Profiles : InUse(p) /\ p \notin ListedIn(w.value)} ELSE held)
      /\ selections' = (IF w.file # "selections" THEN selections
                        ELSE IF w.key = None THEN {} ELSE selections \ {w.key})
      /\ erased' = (IF w.file = "selections" /\ w.key # None THEN erased \cup {w.key} ELSE erased)
  BY <1>2 DEF WriteNext
<1>4. ext'.p = ext.p
  BY <1>3, ExtTypes DEF ExtStates
<1> HIDE DEF w
<1>5. \A p \in Profiles :
        /\ raw'[p] = IF RawWrite(w, p) THEN w.value ELSE raw[p]
        /\ runtime'[p] = IF w.file = "runtime" /\ w.key = p THEN w.value ELSE runtime[p]
  BY <1>3, ExtTypes DEF RawWrite, StoreInv, TypeOK
<1>6. \A p \in Profiles : InUse(p)' <=> InUse(p)
  BY <1>3, <1>4 DEF InUse
<1>7. held \subseteq held' /\ selections' \subseteq selections
  BY <1>3
<1>8. \A p \in Profiles : /\ w.file = "main" /\ p \notin ListedIn(w.value) => Unused(p)'
                          /\ Unused(p) => Unused(p)'
  <2> SUFFICES ASSUME NEW p \in Profiles
               PROVE  /\ w.file = "main" /\ p \notin ListedIn(w.value) => Unused(p)'
                      /\ Unused(p) => Unused(p)'
    OBVIOUS
  <2>1. Unused(p)' <=> p \in held' \/ ~InUse(p)'
    BY DEF Unused
  <2>2. QED
    BY <1>3, <1>6, <1>7, <2>1 DEF Unused
<1>9. \A p \in Profiles : Erasure(w, p) => p \notin selections'
  BY <1>3 DEF Erasure
<1>10. \A p \in erased' : p \in erased \/ (p \in Profiles /\ Erasure(w, p))
  BY <1>2, <1>3, WriteMembers DEF Erasure
<1>11. QED
  BY <1>1, <1>2, <1>3, <1>5, <1>6, <1>7, <1>8, <1>9, <1>10 DEF w

LEMMA WriteNextRemoving ==
    ASSUME StoreInv, WriteNext, NEW p \in Profiles, Removing(p)
    PROVE  Removing(p)'
<1>1. PICK s \in Seq(GoodWrites) : s = todo /\ s # <<>> /\ todo' = Tail(s) /\ s[1] \in GoodWrites
  BY WriteNextParts
<1>2. /\ main' = IF s[1].file = "main" THEN s[1].value ELSE main
      /\ bak' = IF s[1].file = "bak" THEN s[1].value ELSE bak
      /\ saved' = IF s[1].file = "bak" THEN s[1].value ELSE saved
      /\ kind' = kind /\ held \subseteq held' /\ (Unused(p) => Unused(p)')
      /\ s[1].file = "main" /\ p \notin ListedIn(s[1].value) => Unused(p)'
      /\ raw'[p] = IF RawWrite(s[1], p) THEN s[1].value ELSE raw[p]
      /\ runtime'[p] = IF s[1].file = "runtime" /\ s[1].key = p THEN s[1].value ELSE runtime[p]
  BY <1>1, WriteNextParts
<1>3. /\ kind[p] # "none" /\ \A j \in DOMAIN s : Yaml(s[j], p) => s[j].value = None
      /\ \/ \E n \in DOMAIN s : /\ n > 1 /\ Removes(s, p, n) /\ Paired(s, n)
                                /\ Awaits(s, "raw", p, n) /\ Awaits(s, "runtime", p, n)
         \/ /\ Unused(p) /\ p \notin ListedIn(main)
            /\ raw[p] = None \/ p \in held \/ Awaits(s, "raw", p, 0)
            /\ runtime[p] = None \/ p \in held \/ Awaits(s, "runtime", p, 0)
            /\ Removes(s, p, 1) \/ (Plain(s) /\ Unlisted(p))
  BY <1>1 DEF Removing
<1>4. PICK t : t = Tail(s)
  OBVIOUS
<1>5. /\ 1 \in DOMAIN s /\ DOMAIN s \subseteq Nat
      /\ \A i \in DOMAIN t : i + 1 \in DOMAIN s /\ t[i] = s[i + 1]
  BY <1>1, <1>4
<1>6. kind'[p] # "none" /\ \A j \in DOMAIN t : Yaml(t[j], p) => t[j].value = None
  BY <1>2, <1>3, <1>5
<1>7. ASSUME raw[p] = None \/ p \in held \/ Awaits(s, "raw", p, 0)
      PROVE  raw'[p] = None \/ p \in held' \/ Awaits(t, "raw", p, 0)
  <2>1. CASE RawWrite(s[1], p)
    BY <1>2, <1>3, <1>5, <2>1 DEF RawWrite, Yaml
  <2>2. CASE ~RawWrite(s[1], p)
    BY <1>1, <1>2, <1>4, <1>7, <2>2, TailAwaits DEF RawWrite
  <2>3. QED
    BY <2>1, <2>2
<1>8. ASSUME runtime[p] = None \/ p \in held \/ Awaits(s, "runtime", p, 0)
      PROVE  runtime'[p] = None \/ p \in held' \/ Awaits(t, "runtime", p, 0)
  <2>1. CASE s[1].file = "runtime" /\ s[1].key = p
    BY <1>2, <1>3, <1>5, <2>1 DEF Yaml
  <2>2. CASE ~(s[1].file = "runtime" /\ s[1].key = p)
    BY <1>1, <1>2, <1>4, <1>8, <2>2, TailAwaits
  <2>3. QED
    BY <2>1, <2>2
<1> DEFINE Before == \E n \in DOMAIN t : /\ n > 1 /\ Removes(t, p, n) /\ Paired(t, n)
                                         /\ Awaits(t, "raw", p, n) /\ Awaits(t, "runtime", p, n)
           Since == /\ Unused(p)' /\ p \notin ListedIn(main')
                    /\ raw'[p] = None \/ p \in held' \/ Awaits(t, "raw", p, 0)
                    /\ runtime'[p] = None \/ p \in held' \/ Awaits(t, "runtime", p, 0)
                    /\ \/ Removes(t, p, 1)
                       \/ Plain(t) /\ p \notin ListedIn(main') /\ p \notin ListedIn(bak') /\ p \notin saved'.listed
<1>9. ASSUME NEW n \in DOMAIN s, n > 1, Removes(s, p, n), Paired(s, n),
             Awaits(s, "raw", p, n), Awaits(s, "runtime", p, n)
      PROVE  Before \/ Since
  <2>1. n \in Nat /\ Removes(t, p, n - 1)
    BY <1>1, <1>4, <1>5, <1>9, TailRemoves
  <2>2. Awaits(t, "raw", p, n - 1) /\ Awaits(t, "runtime", p, n - 1)
    BY <1>1, <1>4, <1>9, <2>1, TailAwaits
  <2>3. CASE n > 2
    <3>1. Paired(t, n - 1)
      BY <1>1, <1>4, <1>9, <2>3, TailRemoves
    <3>2. n - 1 \in DOMAIN t
      BY <2>1 DEF Removes
    <3>3. n - 1 > 1
      BY <2>1, <2>3
    <3>4. Before
      BY <2>1, <2>2, <3>1, <3>2, <3>3
    <3>5. QED
      BY <3>4
  <2>4. CASE n = 2
    <3>1. s[1].file = "main" /\ p \notin s[1].value.listed
      BY <1>1, <1>9, <2>4, TailRemoves
    <3>2. p \notin ListedIn(s[1].value) /\ main' = s[1].value
      BY <1>2, <3>1 DEF ListedIn
    <3>3. Unused(p)' /\ p \notin ListedIn(main')
      BY <1>2, <3>1, <3>2
    <3>4. Removes(t, p, 1)
      BY <2>1, <2>4
    <3>5. Awaits(t, "raw", p, 0) /\ Awaits(t, "runtime", p, 0)
      <4>1. \A f : Awaits(t, f, p, n - 1) => Awaits(t, f, p, 0)
        BY <1>4, <2>4 DEF Awaits
      <4>2. QED
        BY <2>2, <4>1
    <3>6. QED
      BY <3>3, <3>4, <3>5
  <2>5. QED
    BY <1>9, <2>1, <2>3, <2>4
<1>10. ASSUME Unused(p), p \notin ListedIn(main),
              raw[p] = None \/ p \in held \/ Awaits(s, "raw", p, 0),
              runtime[p] = None \/ p \in held \/ Awaits(s, "runtime", p, 0),
              Removes(s, p, 1) \/ (Plain(s) /\ Unlisted(p))
       PROVE  Since
  <2>1. CASE Removes(s, p, 1)
    <3>1. s[1].file = "bak" /\ p \notin s[1].value.listed /\ Plain(t)
      BY <1>1, <1>4, <2>1, TailRemoves
    <3>2. main' = main /\ bak' = s[1].value /\ saved' = s[1].value
      BY <1>2, <3>1
    <3>3. QED
      BY <1>2, <1>7, <1>8, <1>10, <3>1, <3>2 DEF ListedIn
  <2>2. CASE Plain(s) /\ Unlisted(p)
    <3>1. s[1].file \notin {"main", "bak"} /\ Plain(t)
      BY <1>5, <2>2 DEF Plain
    <3>2. main' = main /\ bak' = bak /\ saved' = saved
      BY <1>2, <3>1
    <3>3. QED
      BY <1>2, <1>7, <1>8, <1>10, <2>2, <3>1, <3>2 DEF Unlisted
  <2>3. QED
    BY <1>10, <2>1, <2>2
<1>11. Before \/ Since
  BY <1>3, <1>9, <1>10
<1>12. ListedIn(main)' = ListedIn(main') /\ ListedIn(bak)' = ListedIn(bak')
  BY DEF ListedIn, Readable
<1>13. QED
  BY <1>1, <1>4, <1>6, <1>11, <1>12 DEF Removing, Unlisted

LEMMA WriteNextAbsent ==
    ASSUME StoreInv, WriteNext, NEW p \in Profiles, Absent(p)
    PROVE  Absent(p)'
<1>1. PICK s \in Seq(GoodWrites) : s = todo /\ s # <<>> /\ todo' = Tail(s) /\ s[1] \in GoodWrites
  BY WriteNextParts
<1>2. /\ 1 \in DOMAIN s
      /\ \A i \in DOMAIN Tail(s) : i + 1 \in DOMAIN s /\ Tail(s)[i] = s[i + 1]
  BY <1>1
<1>3. ~Yaml(s[1], p) /\ (IsList(s[1]) => p \notin s[1].value.listed) /\ Clear(Tail(s), p)
  BY <1>1, <1>2 DEF Absent, Clear
<1>4. raw'[p] = None /\ runtime'[p] = None /\ p \notin selections' /\ kind'[p] # "none"
  BY <1>1, <1>3, WriteNextParts DEF Absent, Yaml, RawWrite
<1>5. /\ main' = IF s[1].file = "main" THEN s[1].value ELSE main
      /\ bak' = IF s[1].file = "bak" THEN s[1].value ELSE bak
      /\ saved' = IF s[1].file = "bak" THEN s[1].value ELSE saved
      /\ ~InUse(p)'
  BY <1>1, WriteNextParts DEF Absent
<1>6. p \notin ListedIn(main') /\ p \notin ListedIn(bak') /\ p \notin saved'.listed
  <2>1. p \notin ListedIn(main) /\ p \notin ListedIn(bak) /\ p \notin saved.listed
    BY DEF Absent, Unlisted
  <2>2. s[1].file = "bak" => s[1].value # None
    BY <1>1, WriteMembers, GoodAreLists, StoreMarks
  <2>3. QED
    BY <1>3, <1>5, <2>1, <2>2 DEF ListedIn, IsList, Readable
<1>7. ListedIn(main)' = ListedIn(main') /\ ListedIn(bak)' = ListedIn(bak')
  BY DEF ListedIn, Readable
<1>8. QED
  BY <1>1, <1>3, <1>4, <1>5, <1>6, <1>7 DEF Absent, Unlisted

\* The last write of deleteProfile.
LEMMA LastWriteAbsent ==
    ASSUME StoreInv, WriteNext, NEW p \in Profiles, Removing(p), Erasure(todo[1], p), Len(todo) = 1,
           p \notin held'
    PROVE  Absent(p)'
<1>1. PICK s \in Seq(GoodWrites) : s = todo /\ s # <<>> /\ todo' = Tail(s) /\ s[1] \in GoodWrites
  BY WriteNextParts
<1>2. DOMAIN s = {1} /\ Tail(s) = <<>> /\ s[1].file = "selections" /\ s[1].key = p
  BY <1>1 DEF Erasure
<1>3. /\ kind'[p] # "none" /\ p \notin selections' /\ main' = main /\ bak' = bak /\ saved' = saved
      /\ raw'[p] = raw[p] /\ runtime'[p] = runtime[p] /\ p \notin held /\ (InUse(p)' <=> InUse(p))
  BY <1>1, <1>2, WriteNextParts DEF Removing, RawWrite
<1>4. \A n : ~Removes(s, p, n) /\ \A f \in {"raw", "runtime"} : ~Awaits(s, f, p, n)
  BY <1>2 DEF Removes, Awaits
<1>5. ~InUse(p) /\ raw[p] = None /\ runtime[p] = None /\ Unlisted(p)
  BY <1>1, <1>3, <1>4 DEF Removing, Unused
<1>6. Unlisted(p)'
  BY <1>3, <1>5 DEF Unlisted, ListedIn
<1>7. Clear(todo', p)
  BY <1>1, <1>2 DEF Clear
<1>8. QED
  BY <1>3, <1>5, <1>6, <1>7 DEF Absent

LEMMA WriteNextGone ==
    ASSUME StoreInv, GoneInv, WriteNext
    PROVE  GoneInv'
<1> SUFFICES ASSUME overlapped' = FALSE PROVE Gone'
  BY DEF GoneInv
<1>1. overlapped = FALSE
  BY DEF WriteNext, StoreInv, TypeOK, StoreFlagsOK
<1>2. Gone /\ erased \subseteq Profiles
  BY <1>1 DEF GoneInv, StoreInv, TypeOK
<1>3. PICK s \in Seq(GoodWrites) : s = todo /\ s # <<>> /\ todo' = Tail(s)
  BY WriteNextParts
<1>4. ASSUME NEW p \in Profiles, NEW i \in DOMAIN todo', Erasure(todo'[i], p)
      PROVE  i = Len(todo') /\ Removing(p)'
  <2>1. i + 1 \in DOMAIN s /\ s[i + 1] = todo'[i] /\ Len(todo') = Len(s) - 1 /\ i \in Nat
    BY <1>3, <1>4
  <2>2. i + 1 = Len(s) /\ Removing(p)
    BY <1>2, <1>3, <1>4, <2>1 DEF Gone
  <2>3. Len(s) \in Nat
    OBVIOUS
  <2>4. QED
    BY <2>1, <2>2, <2>3, WriteNextRemoving
<1>5. ASSUME NEW p \in erased', p \notin held' PROVE Absent(p)'
  <2>1. p \notin held
    BY <1>5, WriteNextParts
  <2>2. CASE p \in erased
    BY <1>2, <2>1, <2>2, WriteNextAbsent DEF Gone
  <2>3. CASE p \in Profiles /\ Erasure(todo[1], p)
    <3>1. 1 \in DOMAIN todo
      BY <1>3
    <3>2. Len(todo) = 1 /\ Removing(p)
      BY <1>2, <2>3, <3>1 DEF Gone
    <3>3. QED
      BY <1>5, <2>3, <3>2, LastWriteAbsent
  <2>4. QED
    BY <2>2, <2>3, <1>5, WriteNextParts
<1>6. QED
  BY <1>4, <1>5 DEF Gone

\* Steps that leave the lists and the files of p alone and give it no new user.
LEMMA AbsentKept ==
    ASSUME NEW p, Absent(p), UNCHANGED <<bak, saved, selections, kind>>,
           raw'[p] = raw[p], runtime'[p] = runtime[p], Clear(todo', p), InUse(p)' => InUse(p),
           ListedIn(main)' \subseteq ListedIn(main) \cup saved.listed
    PROVE  Absent(p)'
<1>1. Unlisted(p)'
  BY DEF Absent, Unlisted, ListedIn
<1>2. QED
  BY <1>1 DEF Absent

LEMMA UiFaultGone ==
    ASSUME StoreInv, GoneInv, UiKill \/ WriteFails
    PROVE  GoneInv'
<1> SUFFICES ASSUME overlapped' = FALSE PROVE Gone'
  BY DEF GoneInv
<1>1. UNCHANGED <<main, bak, raw, runtime, selections, kind, ext, saved, erased, held, overlapped>>
  BY DEF UiKill, WriteFails, files
<1>2. Gone /\ erased \subseteq Profiles
  BY <1>1 DEF GoneInv, StoreInv, TypeOK
<1>3. \A p : InUse(p)' => InUse(p)
  <2>1. \A u \in Updates : updates'[u] = None \/ updates'[u] = updates[u]
    BY DEF UiKill, WriteFails
  <2>2. QED
    BY <1>1, <2>1 DEF InUse
<1>4. ListsOnly(todo') /\ \A p : p \notin Listed => Clear(todo', p)
  <2>1. CASE todo' = <<>>
    BY <2>1 DEF ListsOnly, Clear
  <2>2. CASE commit # None /\ todo' = recordFailure(commit)
    <3>1. PICK job \in Jobs : job = commit
      BY <2>2 DEF StoreInv, TypeOK
    <3>2. PICK L \in GoodLists : L = updateProfile(job) /\ L.listed \subseteq Listed
      BY UpdatedLists
    <3>3. todo' = Save(L)
      BY <2>2, <3>1, <3>2 DEF recordFailure
    <3>4. <<>> \in Seq(GoodWrites)
      OBVIOUS
    <3>5. QED
      BY <3>2, <3>3, <3>4, SaveLists, SectionClear
  <2>3. QED
    BY <2>1, <2>2 DEF UiKill, WriteFails
<1>5. \A p \in Profiles : \A i \in DOMAIN todo' : ~Erasure(todo'[i], p)
  BY <1>4, ListsNoErasure DEF NoErasure
<1>6. ASSUME NEW p \in erased, p \notin held PROVE Absent(p)'
  <2>1. Absent(p)
    BY <1>2, <1>6 DEF Gone
  <2>2. p \notin Listed
    BY <2>1, ListedIsRead DEF Absent, Unlisted
  <2>3. ListedIn(main)' = ListedIn(main)
    BY <1>1 DEF ListedIn
  <2>4. QED
    BY <1>1, <1>3, <1>4, <2>1, <2>2, <2>3, AbsentKept
<1>7. QED
  BY <1>1, <1>5, <1>6 DEF Gone

\* The extension takes up no profile that profiles.json does not list, and writes no file of
\* a profile it has not taken up.
LEMMA ExtGone ==
    ASSUME StoreInv, KeptInv, GoneInv, ExtNext \/ ExtKill \/ CorruptMain
    PROVE  GoneInv'
<1> SUFFICES ASSUME overlapped' = FALSE PROVE Gone'
  BY DEF GoneInv
<1>1. UNCHANGED <<bak, raw, selections, kind, todo, updates, saved, erased, held>>
  BY DEF ExtNext, ExtRead, ExtRecoverRead, ExtRecover, ExtTruncate, ExtWrite, ExtLaunched,
         ExtFrame, ExtKill, CorruptMain, files, section, history
<1>2. overlapped = FALSE /\ (ExtRecover => todo = <<>>)
  BY DEF ExtNext, ExtRead, ExtRecoverRead, ExtRecover, ExtTruncate, ExtWrite, ExtLaunched,
         ExtKill, CorruptMain, history, StoreInv, TypeOK, StoreFlagsOK
<1>3. Gone /\ Kept /\ erased \subseteq Profiles
  BY <1>2 DEF GoneInv, KeptInv, StoreInv, TypeOK
<1>4. ext \in ExtStates /\ runtime \in [Profiles -> Contents \cup {None, Torn}]
  BY ExtTypes
<1>5. \/ main' = main
      \/ main' = Corrupt
      \/ ExtRecover /\ main' = saved
  BY <1>3 DEF ExtNext, ExtRead, ExtRecoverRead, ExtRecover, ExtTruncate, ExtWrite, ExtLaunched,
              ExtKill, CorruptMain, files, Kept
<1>6. /\ ListedIn(main)' \subseteq ListedIn(main) \cup saved.listed
      /\ ~ExtRecover => ListedIn(main)' \subseteq ListedIn(main)
  BY <1>5 DEF ListedIn, Readable
<1>7. ext'.p = ext.p \/ ext'.p = None \/ ext'.p \in ListedIn(main)
  <2>1. ASSUME NEW p \in Profiles, ExtRead(p) PROVE ext'.p \in ListedIn(main)
    BY <1>4, <2>1 DEF ExtRead, ExtStates, ListedIn
  <2>2. CASE ExtRecoverRead \/ ExtTruncate \/ ExtWrite \/ CorruptMain
    BY <1>4, <2>2 DEF ExtRecoverRead, ExtTruncate, ExtWrite, CorruptMain, ExtStates
  <2>3. CASE ExtRecover \/ ExtLaunched \/ ExtKill
    BY <2>3, NoExtState DEF ExtRecover, ExtLaunched, ExtKill, NoExt
  <2>4. QED
    BY <2>1, <2>2, <2>3 DEF ExtNext
<1>8. \A p \in Profiles : p \notin ListedIn(main) => (InUse(p)' => InUse(p))
  BY <1>1, <1>7, StoreConstants DEF InUse
<1>9. \A p \in Profiles : runtime'[p] = runtime[p] \/ p = ext.p
  BY <1>4 DEF ExtNext, ExtRead, ExtRecoverRead, ExtRecover, ExtTruncate, ExtWrite, ExtLaunched,
              ExtKill, CorruptMain, files
<1>10. ASSUME NEW p \in Profiles, NEW i \in DOMAIN todo, Removing(p) PROVE Removing(p)'
  <2>1. todo # <<>>
    BY <1>10
  <2>2. ~ExtRecover
    BY <1>2, <2>1
  <2>3. CASE \E n \in DOMAIN todo : /\ n > 1 /\ Removes(todo, p, n) /\ Paired(todo, n)
                                    /\ Awaits(todo, "raw", p, n) /\ Awaits(todo, "runtime", p, n)
    BY <1>1, <1>10, <2>3 DEF Removing
  <2>4. CASE /\ Unused(p) /\ p \notin ListedIn(main)
             /\ raw[p] = None \/ p \in held \/ Awaits(todo, "raw", p, 0)
             /\ runtime[p] = None \/ p \in held \/ Awaits(todo, "runtime", p, 0)
             /\ Removes(todo, p, 1) \/ (Plain(todo) /\ Unlisted(p))
    <3>1. Unused(p)'
      BY <1>1, <1>8, <2>4 DEF Unused
    <3>2. runtime'[p] = None \/ p \in held \/ Awaits(todo, "runtime", p, 0)
      BY <1>9, <2>4 DEF Unused, InUse
    <3>3. p \notin ListedIn(main)' /\ (Unlisted(p) => Unlisted(p)')
      BY <1>1, <1>6, <2>2, <2>4 DEF Unlisted, ListedIn
    <3>4. QED
      BY <1>1, <1>10, <2>4, <3>1, <3>2, <3>3 DEF Removing
  <2>5. QED
    BY <1>10, <2>3, <2>4 DEF Removing
<1>11. ASSUME NEW p \in erased, p \notin held PROVE Absent(p)'
  <2>1. Absent(p) /\ p \in Profiles
    BY <1>3, <1>11 DEF Gone
  <2>2. runtime'[p] = runtime[p] /\ (InUse(p)' => InUse(p))
    BY <1>8, <1>9, <2>1 DEF Absent, InUse, Unlisted
  <2>3. Clear(todo', p)
    BY <1>1, <2>1 DEF Absent
  <2>4. QED
    BY <1>1, <1>6, <2>1, <2>2, <2>3, AbsentKept
<1>12. QED
  BY <1>1, <1>3, <1>10, <1>11 DEF Gone

LEMMA StepGone == StoreInv /\ KeptInv /\ GoneInv /\ [Next]_vars => GoneInv'
<1> SUFFICES ASSUME StoreInv, KeptInv, GoneInv, [Next]_vars PROVE GoneInv'
  OBVIOUS
<1>1. CASE UserNext \/ UpdateNext \/ Reload \/ Continue
  BY <1>1, SectionSteps, SectionStepGone
<1>2. CASE WriteNext
  BY <1>2, WriteNextGone
<1>3. CASE ExtNext \/ ExtKill \/ CorruptMain
  BY <1>3, ExtGone
<1>4. CASE UiKill \/ WriteFails
  BY <1>4, UiFaultGone
<1>5. CASE UNCHANGED vars
  BY <1>5 DEF vars, files, section, history, GoneInv, Gone, Absent, Removing, Unlisted, Unused, InUse,
              ListedIn
<1>6. QED
  BY <1>1, <1>2, <1>3, <1>4, <1>5 DEF Next, FaultNext

\* A deleteProfile that ran to its end leaves neither YAML file nor selection behind, whatever
\* was killed or failed before and after it, unless an update or the extension was using the
\* profile when it left profiles.json.
THEOREM DeletionsLeaveNothing == Spec => []DeletedLeavesNothing
<1>1. Init => GoneInv
  BY DEF Init, GoneInv, Gone
<1>2. StoreInv /\ GoneInv => DeletedLeavesNothing
  <2> SUFFICES ASSUME StoreInv, GoneInv, ~overlapped, NEW p \in erased \ held
               PROVE  raw[p] = None /\ runtime[p] = None /\ p \notin selections
    BY DEF DeletedLeavesNothing
  <2>1. overlapped = FALSE
    BY DEF StoreInv, TypeOK, StoreFlagsOK
  <2>2. QED
    BY <2>1 DEF GoneInv, Gone, Absent
<1>3. QED
  BY <1>1, <1>2, AlwaysKept, StepGone, PTL DEF Spec

-----------------------------------------------------------------------------
(* Local profiles have their files *)

Lacks(s, p) == \A i \in DOMAIN s : IsList(s[i]) => p \notin s[i].value.listed
Drops(w, p) == Yaml(w, p) /\ w.value = None
NoDrops(s) == \A i \in DOMAIN s : s[i].file \in {"raw", "runtime"} => s[i].value # None

NoBak(s) == \A i \in DOMAIN s : s[i].file # "bak"
BakBefore(s, i) == \E b \in DOMAIN s : b < i /\ s[b].file = "bak"

\* No list follows the one that ends in the backup.
Tidy(s) == \A i \in DOMAIN s : IsList(s[i]) => ~BakBefore(s, i)

\* By its i-th write the section has written the file f of p.
Provides(s, i, f, p) ==
    \E j \in DOMAIN s : j < i /\ s[j].file = f /\ s[j].key = p /\ s[j].value # None

\* A file is deleted after the last list, which lacks the profile, or during a reset, or when no
\* list holds the profile.
MayDrop(p, j) ==
    /\ \A i \in DOMAIN todo : i > j /\ IsList(todo[i]) => p \notin todo[i].value.listed
    /\ \/ resetting = TRUE /\ ~BakBefore(todo, j)
       \/ \E n \in DOMAIN todo : n < j /\ Removes(todo, p, n)
       \/ p \notin ListedIn(main) /\ p \notin ListedIn(bak) /\ Lacks(todo, p)

Stocked ==
    /\ resetting = FALSE =>
           \A p \in Profiles : p \in ListedIn(main) \cup ListedIn(bak) /\ kind[p] = "local" =>
               raw[p] # None /\ runtime[p] # None
    /\ \A i \in DOMAIN todo : IsList(todo[i]) /\ (resetting = FALSE \/ BakBefore(todo, i)) =>
           \A p \in Profiles : p \in todo[i].value.listed /\ kind[p] = "local" =>
               /\ raw[p] # None \/ Provides(todo, i, "raw", p)
               /\ runtime[p] # None \/ Provides(todo, i, "runtime", p)
    /\ \A p \in Profiles : \A j \in DOMAIN todo : Drops(todo[j], p) => MayDrop(p, j)
    /\ ext.st \in {"prepare", "write"} => ext.seen # None

StockedInv == overlapped = FALSE => Stocked

LEMMA JoinLacks ==
    ASSUME NEW T, NEW s \in Seq(T), NEW t \in Seq(T), NEW p, Lacks(s, p), Lacks(t, p)
    PROVE  Lacks(s \o t, p)
BY JoinIndex DEF Lacks

LEMMA JoinNoDrops ==
    ASSUME NEW T, NEW s \in Seq(T), NEW t \in Seq(T), NoDrops(s), NoDrops(t)
    PROVE  NoDrops(s \o t)
BY JoinIndex DEF NoDrops

LEMMA JoinNoBak ==
    ASSUME NEW T, NEW s \in Seq(T), NEW t \in Seq(T), NoBak(s), NoBak(t)
    PROVE  NoBak(s \o t)
BY JoinIndex DEF NoBak

LEMMA JoinTidy ==
    ASSUME NEW T, NEW s \in Seq(T), NEW t \in Seq(T),
           \/ NoBak(s) /\ Tidy(t)
           \/ Tidy(s) /\ Plain(t)
    PROVE  Tidy(s \o t)
<1> DEFINE n == Len(s)
           st == s \o t
<1>1. /\ DOMAIN s = 1..n /\ n \in Nat /\ DOMAIN st \subseteq Int /\ DOMAIN t \subseteq Nat
      /\ \A i \in DOMAIN st : \/ i \in DOMAIN s /\ st[i] = s[i]
                              \/ i > n /\ i - n \in DOMAIN t /\ st[i] = t[i - n]
  BY JoinIndex
<1> HIDE DEF n, st
<1>2. ASSUME NEW i \in DOMAIN st, IsList(st[i]), NEW b \in DOMAIN st, b < i, st[b].file = "bak"
      PROVE  FALSE
  <2>1. CASE NoBak(s) /\ Tidy(t)
    <3>1. b > n /\ b - n \in DOMAIN t /\ st[b] = t[b - n]
      BY <1>1, <1>2, <2>1 DEF NoBak
    <3>2. i > n /\ i - n \in DOMAIN t /\ st[i] = t[i - n] /\ b - n < i - n
      BY <1>1, <1>2, <3>1
    <3>3. QED
      BY <1>2, <2>1, <3>1, <3>2 DEF Tidy, BakBefore
  <2>2. CASE Tidy(s) /\ Plain(t)
    <3>1. i \in DOMAIN s /\ st[i] = s[i]
      BY <1>1, <1>2, <2>2 DEF Plain, IsList
    <3>2. b \in DOMAIN s /\ st[b] = s[b]
      BY <1>1, <1>2, <3>1
    <3>3. QED
      BY <1>2, <2>2, <3>1, <3>2 DEF Tidy, BakBefore
  <2>3. QED
    BY <2>1, <2>2
<1>3. Tidy(st)
  BY <1>2 DEF Tidy, BakBefore
<1>4. QED
  BY <1>3 DEF st

LEMMA SimpleTidy ==
    ASSUME NEW s
    PROVE  /\ Plain(s) => NoBak(s) /\ \A p : Lacks(s, p)
           /\ NoBak(s) => Tidy(s)
           /\ ListsOnly(s) => NoDrops(s)
           /\ \A p : Clear(s, p) => Lacks(s, p)
BY DEF Plain, NoBak, Lacks, IsList, Tidy, BakBefore, ListsOnly, NoDrops, Clear

LEMMA SaveStateTidy ==
    ASSUME NEW L
    PROVE  /\ Tidy(saveProfilesState(L)) /\ NoDrops(saveProfilesState(L))
           /\ \A p : p \notin L.listed => Lacks(saveProfilesState(L), p)
<1> DEFINE s == saveProfilesState(L)
<1>1. DOMAIN s = {1, 2} /\ s[1].file = "main" /\ s[2].file = "bak" /\ s[1].value = L /\ s[2].value = L
  BY DEF saveProfilesState, Write
<1> HIDE DEF s
<1>2. Tidy(s) /\ NoDrops(s) /\ \A p : p \notin L.listed => Lacks(s, p)
  BY <1>1 DEF Tidy, BakBefore, NoDrops, Lacks
<1>3. QED
  BY <1>2 DEF s

\* Only where there is no list at all does loadProfilesState write the backup.
LEMMA RecoveryTidy ==
    ASSUME StoreInv
    PROVE  /\ Listed # {} => NoBak(Recovery)
           /\ NoDrops(Recovery) /\ \A p : p \notin Listed => Lacks(Recovery, p)
<1>1. NoDrops(Recovery) /\ \A p : p \notin Listed => Lacks(Recovery, p)
  BY RecoveryLists, RecoveryClear, SimpleTidy
<1>2. ASSUME Listed # {} PROVE NoBak(Recovery)
  <2>1. Readable(main) \/ Readable(bak)
    BY <1>2 DEF Listed, loadProfilesState, Empty
  <2> DEFINE aside == IF main = Corrupt THEN <<Write("main", None, None)>> ELSE <<>>
             restore == <<Write("main", None, loadProfilesState)>>
  <2>2. aside \in Seq(GoodWrites) /\ restore \in Seq(GoodWrites)
    BY MainWrite, LoadedGood
  <2>3. Recovery = IF Readable(main) THEN <<>> ELSE aside \o restore
    BY <2>1 DEF Recovery
  <2>4. NoBak(aside) /\ NoBak(restore) /\ NoBak(<<>>)
    BY DEF NoBak, Write
  <2> HIDE DEF aside, restore
  <2>5. NoBak(aside \o restore)
    BY <2>2, <2>4, JoinNoBak
  <2>6. QED
    BY <2>3, <2>4, <2>5
<1>3. QED
  BY <1>1, <1>2

\* A section around a part that writes no list.
LEMMA SectionTidy ==
    ASSUME StoreInv, NEW y \in Seq(GoodWrites), Plain(y), NEW L \in GoodLists
    PROVE  /\ Listed # {} => /\ Tidy(Recovery) /\ Tidy(Save(L)) /\ Tidy(Recovery \o y)
                             /\ Tidy(Save(L) \o y) /\ Tidy(y \o Save(L))
                             /\ Tidy(Recovery \o y \o saveProfilesState(L))
           /\ \A p : p \notin Listed =>
                  /\ Lacks(Recovery, p) /\ Lacks(Recovery \o y, p)
                  /\ p \notin L.listed =>
                        /\ Lacks(Save(L), p) /\ Lacks(Save(L) \o y, p) /\ Lacks(y \o Save(L), p)
                        /\ Lacks(Recovery \o y \o saveProfilesState(L), p)
           /\ NoDrops(Recovery) /\ NoDrops(Save(L))
           /\ NoDrops(y) => /\ NoDrops(Recovery \o y) /\ NoDrops(y \o Save(L))
                            /\ NoDrops(Recovery \o y \o saveProfilesState(L))
<1> DEFINE r == Recovery
           v == saveProfilesState(L)
           h == Save(L)
<1>1. /\ r \in Seq(GoodWrites) /\ v \in Seq(GoodWrites) /\ h \in Seq(GoodWrites) /\ h = r \o v
      /\ r \o y \in Seq(GoodWrites)
  BY RecoveryGood, SaveGood, SaveStateGood, Concatenated DEF Save
<1>2. /\ Listed # {} => NoBak(r)
      /\ NoDrops(r) /\ \A p : p \notin Listed => Lacks(r, p)
  BY RecoveryTidy
<1>3. Tidy(v) /\ NoDrops(v) /\ \A p : p \notin L.listed => Lacks(v, p)
  BY SaveStateTidy
<1>4. NoBak(y) /\ \A p : Lacks(y, p)
  BY SimpleTidy
<1> HIDE DEF r, v, h
<1>5. Listed # {} => Tidy(r) /\ Tidy(h) /\ NoBak(r \o y)
  BY <1>1, <1>2, <1>3, <1>4, SimpleTidy, JoinTidy, JoinNoBak
<1>6. Listed # {} => Tidy(r \o y) /\ Tidy(h \o y) /\ Tidy(y \o h) /\ Tidy(r \o y \o v)
  BY <1>1, <1>3, <1>4, <1>5, SimpleTidy, JoinTidy
<1>7. \A p : p \notin Listed => Lacks(r \o y, p) /\ (p \notin L.listed => Lacks(h, p))
  BY <1>1, <1>2, <1>3, <1>4, JoinLacks
<1>8. \A p : p \notin Listed /\ p \notin L.listed =>
        Lacks(h \o y, p) /\ Lacks(y \o h, p) /\ Lacks(r \o y \o v, p)
  BY <1>1, <1>3, <1>4, <1>7, JoinLacks
<1>9. NoDrops(h) /\ (NoDrops(y) => NoDrops(r \o y))
  BY <1>1, <1>2, <1>3, JoinNoDrops
<1>10. NoDrops(y) => NoDrops(y \o h) /\ NoDrops(r \o y \o v)
  BY <1>1, <1>3, <1>9, JoinNoDrops
<1>11. QED
  BY <1>2, <1>5, <1>6, <1>7, <1>8, <1>9, <1>10 DEF r, v, h

\* What sections do besides: no list but of listed profiles, and nothing after the backup.
Orderly(s) ==
    /\ \A p \in Profiles : p \notin Listed => Lacks(s, p)
    /\ Listed # {} => Tidy(s)

LEMMA PairPlain ==
    ASSUME NEW p \in Profiles, NEW c \in Contents \cup {Torn}, NEW d \in Contents \cup {Torn}
    PROVE  /\ Plain(Pair(p, c)) /\ NoDrops(Pair(p, c))
           /\ Plain(Copied(p, c, d)) /\ NoDrops(Copied(p, c, d))
<1>1. Torn # None /\ \A v \in Contents \cup {Torn} : v # None
  BY StoreConstants
<1>2. Plain(Pair(p, c)) /\ NoDrops(Pair(p, c))
  BY <1>1 DEF Plain, NoDrops, Pair, Write
<1>3. Plain(Copied(p, c, d))
  BY DEF Plain, Copied, Write
<1>4. NoDrops(Copied(p, c, d))
  BY <1>1 DEF NoDrops, Copied, Write
<1>5. QED
  BY <1>2, <1>3, <1>4

LEMMA ErasedPlain == ASSUME NEW p PROVE Plain(Erased(p))
BY DEF Plain, Erased, Write

LEMMA OldSectionOrderly ==
    ASSUME StoreInv, OldSection
    PROVE  /\ Orderly(todo')
           /\ \/ NoDrops(todo')
              \/ \E p \in Profiles, L \in GoodLists :
                     p \notin L.listed /\ todo' = Save(L) \o Erased(p)
<1>1. <<>> \in Seq(GoodWrites) /\ Plain(<<>>) /\ Empty \in GoodLists
  BY GoodAreLists DEF Plain
<1>2. CASE todo' = Recovery
  BY <1>1, <1>2, SectionTidy DEF Orderly
<1>3. CASE \E L \in GoodLists : L.listed \subseteq Listed /\ todo' = Save(L)
  <2>1. PICK L \in GoodLists : L.listed \subseteq Listed /\ todo' = Save(L)
    BY <1>3
  <2>2. QED
    BY <1>1, <2>1, SectionTidy DEF Orderly
<1>4. ASSUME NEW q \in Profiles, NEW c \in Contents, NEW L \in GoodLists, L.listed \subseteq Listed,
             \/ todo' = Recovery \o Pair(q, c) \o saveProfilesState(L)
             \/ todo' = Pair(q, c) \o Save(L)
      PROVE  Orderly(todo') /\ NoDrops(todo')
  <2>1. PICK y \in Seq(GoodWrites) : y = Pair(q, c) /\ Plain(y) /\ NoDrops(y)
    BY PairGood, PairPlain
  <2>2. CASE todo' = Recovery \o y \o saveProfilesState(L)
    BY <1>4, <2>1, <2>2, SectionTidy DEF Orderly
  <2>3. CASE todo' = y \o Save(L)
    BY <1>4, <2>1, <2>3, SectionTidy DEF Orderly
  <2>4. QED
    BY <1>4, <2>1, <2>2, <2>3
<1>5. ASSUME NEW q \in Profiles, raw[q] # None,
             todo' = Recovery \o <<Write("runtime", q, Torn), Write("runtime", q, raw[q])>>
      PROVE  Orderly(todo') /\ NoDrops(todo')
  <2>1. PICK c \in Contents \cup {None, Torn} : c = raw[q]
    BY DEF StoreInv, TypeOK
  <2>2. PICK y : y = <<Write("runtime", q, Torn), Write("runtime", q, c)>>
    OBVIOUS
  <2>3. y \in Seq(GoodWrites)
    BY <2>2, PairGood
  <2>4. Plain(y) /\ NoDrops(y)
    BY <1>5, <2>1, <2>2, StoreConstants DEF Plain, NoDrops, Write
  <2>5. todo' = Recovery \o y
    BY <1>5, <2>1, <2>2
  <2>6. QED
    BY <1>1, <2>3, <2>4, <2>5, SectionTidy DEF Orderly
<1>6. ASSUME NEW q \in Profiles, NEW L \in GoodLists, L.listed = Listed \ {q},
             todo' = Save(L) \o Erased(q)
      PROVE  Orderly(todo') /\ q \notin L.listed
  <2>1. PICK y \in Seq(GoodWrites) : y = Erased(q) /\ Plain(y)
    BY ErasedGood, ErasedPlain
  <2>2. QED
    BY <1>6, <2>1, SectionTidy DEF Orderly
<1>7. QED
  BY <1>2, <1>3, <1>4, <1>5, <1>6 DEF OldSection

\* The files of a profile that a section makes are written before a list holds it.
LEMMA Provided ==
    ASSUME NEW T, NEW x \in Seq(T), NEW y \in Seq(T), NEW t \in Seq(T), NEW s, s = x \o y \o t,
           NEW p, Lacks(x, p), Plain(y), NEW f, NEW a \in DOMAIN y,
           y[a].file = f, y[a].key = p, y[a].value # None,
           NEW i \in DOMAIN s, IsList(s[i]), p \in s[i].value.listed
    PROVE  Provides(s, i, f, p)
<1> DEFINE xy == x \o y
           n == Len(x)
<1>1. xy \in Seq(T)
  BY Concatenated
<1>2. /\ DOMAIN x = 1..n /\ n \in Nat
      /\ \A k \in DOMAIN xy : \/ k \in DOMAIN x /\ xy[k] = x[k]
                              \/ k > n /\ k - n \in DOMAIN y /\ xy[k] = y[k - n]
      /\ \A k \in DOMAIN y : k + n \in DOMAIN xy /\ xy[k + n] = y[k]
  BY JoinIndex
<1>3. PICK m \in Nat : m = Len(xy)
  BY <1>1
<1>4. /\ DOMAIN xy = 1..m /\ DOMAIN s \subseteq Int
      /\ \A k \in DOMAIN s : \/ k \in DOMAIN xy /\ s[k] = xy[k]
                             \/ k > m /\ k - m \in DOMAIN t /\ s[k] = t[k - m]
      /\ \A k \in DOMAIN xy : k \in DOMAIN s /\ s[k] = xy[k]
  <2>1. s = xy \o t
    OBVIOUS
  <2> HIDE DEF xy
  <2>2. s \in Seq(T)
    BY <1>1, <2>1, Concatenated
  <2>3. DOMAIN s \subseteq Int
    BY <2>2
  <2>4. /\ DOMAIN xy = 1..Len(xy)
        /\ \A k \in DOMAIN (xy \o t) :
               \/ k \in DOMAIN xy /\ (xy \o t)[k] = xy[k]
               \/ k > Len(xy) /\ k - Len(xy) \in DOMAIN t /\ (xy \o t)[k] = t[k - Len(xy)]
        /\ \A k \in DOMAIN xy : k \in DOMAIN (xy \o t) /\ (xy \o t)[k] = xy[k]
    BY <1>1, JoinIndex
  <2>5. QED
    BY <1>3, <2>1, <2>3, <2>4
<1> HIDE DEF xy, n
<1>5. ~(i \in DOMAIN xy /\ s[i] = xy[i])
  <2> SUFFICES ASSUME i \in DOMAIN xy, s[i] = xy[i] PROVE FALSE
    OBVIOUS
  <2>1. ~(i \in DOMAIN x /\ xy[i] = x[i])
    BY DEF Lacks
  <2>2. ~(i - n \in DOMAIN y /\ xy[i] = y[i - n])
    BY DEF Plain, IsList
  <2>3. QED
    BY <1>2, <2>1, <2>2
<1>6. i > m
  BY <1>4, <1>5
<1>7. a + n \in DOMAIN s /\ s[a + n] = y[a] /\ a + n < i
  BY <1>2, <1>3, <1>4, <1>6
<1>8. QED
  BY <1>7 DEF Provides

LEMMA NewSectionFiles ==
    ASSUME StoreInv, NEW p \in Profiles, p \notin Listed, NewSection(p)
    PROVE  /\ \A z \in Profiles : z \notin Listed /\ z # p => Lacks(todo', z)
           /\ Listed # {} => Tidy(todo')
           /\ NoDrops(todo')
           /\ \A i \in DOMAIN todo' :
                  IsList(todo'[i]) /\ p \in todo'[i].value.listed /\ kind'[p] = "local" =>
                      Provides(todo', i, "raw", p) /\ Provides(todo', i, "runtime", p)
<1>1. \A z \in Profiles : z \notin Listed /\ z # p => Lacks(todo', z)
  BY NewSectionClear, SimpleTidy
<1>2. PICK L \in GoodLists :
        \/ todo' = Save(L) /\ kind' = [kind EXCEPT ![p] = "subscription"]
        \/ \E c \in Contents : todo' = Recovery \o Pair(p, c) \o saveProfilesState(L)
        \/ \E c \in Contents \cup {Torn}, d \in Contents \cup {Torn} :
               todo' = Recovery \o Copied(p, c, d) \o saveProfilesState(L)
  BY DEF NewSection
<1>3. CASE todo' = Save(L) /\ kind' = [kind EXCEPT ![p] = "subscription"]
  <2>1. <<>> \in Seq(GoodWrites) /\ Plain(<<>>)
    BY DEF Plain
  <2>2. kind'[p] # "local"
    BY <1>3 DEF StoreInv, TypeOK
  <2>3. QED
    BY <1>1, <1>3, <2>1, <2>2, SectionTidy
<1>4. ASSUME NEW y \in Seq(GoodWrites), Plain(y), NoDrops(y),
             NEW a \in DOMAIN y, y[a].file = "raw", y[a].key = p, y[a].value # None,
             NEW b \in DOMAIN y, y[b].file = "runtime", y[b].key = p, y[b].value # None,
             todo' = Recovery \o y \o saveProfilesState(L)
      PROVE  /\ Listed # {} => Tidy(todo')
             /\ NoDrops(todo')
             /\ \A i \in DOMAIN todo' :
                    IsList(todo'[i]) /\ p \in todo'[i].value.listed /\ kind'[p] = "local" =>
                        Provides(todo', i, "raw", p) /\ Provides(todo', i, "runtime", p)
  <2>1. /\ Recovery \in Seq(GoodWrites) /\ saveProfilesState(L) \in Seq(GoodWrites)
        /\ Lacks(Recovery, p)
    BY RecoveryGood, SaveStateGood, RecoveryTidy
  <2>2. PICK s : s = todo'
    OBVIOUS
  <2>3. ASSUME NEW i \in DOMAIN s, IsList(s[i]), p \in s[i].value.listed
        PROVE  Provides(s, i, "raw", p) /\ Provides(s, i, "runtime", p)
    BY <1>4, <2>1, <2>2, <2>3, Provided
  <2>4. (Listed # {} => Tidy(s)) /\ NoDrops(s)
    BY <1>4, <2>2, SectionTidy
  <2>5. QED
    BY <2>2, <2>3, <2>4
<1>5. ASSUME NEW c \in Contents, todo' = Recovery \o Pair(p, c) \o saveProfilesState(L)
      PROVE  \E y \in Seq(GoodWrites) : \E a, b \in DOMAIN y :
               /\ Plain(y) /\ NoDrops(y) /\ todo' = Recovery \o y \o saveProfilesState(L)
               /\ y[a].file = "raw" /\ y[a].key = p /\ y[a].value # None
               /\ y[b].file = "runtime" /\ y[b].key = p /\ y[b].value # None
  <2>1. PICK y \in Seq(GoodWrites) : y = Pair(p, c) /\ Plain(y) /\ NoDrops(y)
    BY PairGood, PairPlain
  <2>2. /\ DOMAIN y = {1, 2} /\ y[1].file = "raw" /\ y[2].file = "runtime"
        /\ \A i \in {1, 2} : y[i].key = p /\ y[i].value = c
    BY <2>1 DEF Pair, Write
  <2>3. c # None
    BY StoreConstants
  <2>4. QED
    BY <1>5, <2>1, <2>2, <2>3
<1>6. ASSUME NEW c \in Contents \cup {Torn}, NEW d \in Contents \cup {Torn},
             todo' = Recovery \o Copied(p, c, d) \o saveProfilesState(L)
      PROVE  \E y \in Seq(GoodWrites) : \E a, b \in DOMAIN y :
               /\ Plain(y) /\ NoDrops(y) /\ todo' = Recovery \o y \o saveProfilesState(L)
               /\ y[a].file = "raw" /\ y[a].key = p /\ y[a].value # None
               /\ y[b].file = "runtime" /\ y[b].key = p /\ y[b].value # None
  <2>1. PICK y \in Seq(GoodWrites) : y = Copied(p, c, d) /\ Plain(y) /\ NoDrops(y)
    BY PairGood, PairPlain
  <2>2. /\ DOMAIN y = {1, 2, 3, 4} /\ y[2].file = "raw" /\ y[4].file = "runtime"
        /\ y[2].key = p /\ y[4].key = p /\ y[2].value = c /\ y[4].value = d
    BY <2>1 DEF Copied, Write
  <2>3. c # None /\ d # None
    BY StoreConstants
  <2>4. /\ 2 \in DOMAIN y /\ y[2].file = "raw" /\ y[2].key = p /\ y[2].value # None
        /\ 4 \in DOMAIN y /\ y[4].file = "runtime" /\ y[4].key = p /\ y[4].value # None
    BY <2>2, <2>3
  <2>5. todo' = Recovery \o y \o saveProfilesState(L)
    BY <1>6, <2>1
  <2>6. QED
    BY <2>1, <2>4, <2>5, Zenon
<1>7. QED
  BY <1>1, <1>2, <1>3, <1>4, <1>5, <1>6

\* After the deletion of a file no list holds its profile.
Late(s) ==
    \A p : \A j \in DOMAIN s : Drops(s[j], p) =>
        \A i \in DOMAIN s : i > j /\ IsList(s[i]) => p \notin s[i].value.listed

LEMMA JoinLate ==
    ASSUME NEW T, NEW s \in Seq(T), NEW t \in Seq(T), Late(s), \A p : Lacks(t, p)
    PROVE  Late(s \o t)
<1> DEFINE n == Len(s)
           st == s \o t
<1>1. /\ DOMAIN s = 1..n /\ n \in Nat /\ DOMAIN st \subseteq Int
      /\ \A i \in DOMAIN st : \/ i \in DOMAIN s /\ st[i] = s[i]
                              \/ i > n /\ i - n \in DOMAIN t /\ st[i] = t[i - n]
  BY JoinIndex
<1> HIDE DEF n, st
<1>2. ASSUME NEW p, NEW j \in DOMAIN st, Drops(st[j], p),
             NEW i \in DOMAIN st, i > j, IsList(st[i])
      PROVE  p \notin st[i].value.listed
  <2>1. CASE i > n /\ i - n \in DOMAIN t /\ st[i] = t[i - n]
    BY <1>2, <2>1 DEF Lacks
  <2>2. CASE i \in DOMAIN s /\ st[i] = s[i]
    <3>1. j \in DOMAIN s /\ st[j] = s[j]
      BY <1>1, <1>2, <2>2
    <3>2. QED
      BY <1>2, <2>2, <3>1 DEF Late
  <2>3. QED
    BY <1>1, <2>1, <2>2
<1>3. Late(st)
  BY <1>2 DEF Late
<1>4. QED
  BY <1>3 DEF st

\* resetAllConfiguration deletes files before it writes a backup.
LEMMA JoinUnbacked ==
    ASSUME NEW T, NEW s \in Seq(T), NEW t \in Seq(T), NoBak(s), ListsOnly(t),
           NEW j \in DOMAIN (s \o t), NEW p, Drops((s \o t)[j], p)
    PROVE  ~BakBefore(s \o t, j)
<1> DEFINE n == Len(s)
           st == s \o t
<1>1. /\ DOMAIN s = 1..n /\ n \in Nat /\ DOMAIN st \subseteq Int /\ j \in DOMAIN st /\ Drops(st[j], p)
      /\ \A i \in DOMAIN st : \/ i \in DOMAIN s /\ st[i] = s[i]
                              \/ i > n /\ i - n \in DOMAIN t /\ st[i] = t[i - n]
  BY JoinIndex
<1> HIDE DEF n, st
<1>2. j \in DOMAIN s
  BY <1>1 DEF ListsOnly, Drops, Yaml
<1>3. \A b \in DOMAIN st : b < j => b \in DOMAIN s /\ st[b] = s[b]
  BY <1>1, <1>2
<1>4. ~BakBefore(st, j)
  BY <1>3 DEF BakBefore, NoBak
<1>5. QED
  BY <1>4 DEF st

LEMMA ResetOrderly ==
    ASSUME StoreInv, NEW n \in Nat, NEW seq \in [1..n -> Profiles], Len(seq) = n,
           \A i \in 1..n : seq[i] \in Listed, n = 0 \/ Listed # {},
           NEW s, s = ResetWrites(seq)
    PROVE  /\ Orderly(s) /\ Late(s)
           /\ \A p : \A j \in DOMAIN s : Drops(s[j], p) => ~BakBefore(s, j)
<1> DEFINE yaml == [i \in 1..2 * n |->
             Write(IF i % 2 = 1 THEN "raw" ELSE "runtime", seq[(i + 1) \div 2], None)]
           rest == <<Write("main", None, None), Write("selections", None, None)>>
           end == saveProfilesState(Empty)
<1>1. \A i \in 1..2 * n : (i + 1) \div 2 \in 1..n
  OBVIOUS
<1>2. \A i \in 1..2 * n :
        Write(IF i % 2 = 1 THEN "raw" ELSE "runtime", seq[(i + 1) \div 2], None) \in GoodWrites
  BY <1>1, YamlWrite
<1>3. yaml \in Seq(GoodWrites) /\ DOMAIN yaml = 1..2 * n
  BY <1>2
<1>4. \A i \in 1..2 * n : yaml[i].file \in {"raw", "runtime"}
  BY DEF Write
<1>5. rest \in Seq(GoodWrites) /\ end \in Seq(GoodWrites)
  BY MainWrite, SelectionsWrite, SaveStateGood, GoodAreLists
<1>6. NoBak(rest) /\ NoDrops(rest) /\ \A p : Lacks(rest, p)
  BY DEF NoBak, NoDrops, Lacks, IsList, Write
<1>7. s = Recovery \o yaml \o rest \o end
  BY DEF ResetWrites
<1>8. Tidy(end) /\ NoDrops(end) /\ ListsOnly(end) /\ \A p : Lacks(end, p)
  <2>1. \A p : p \notin Empty.listed
    BY DEF Empty
  <2>2. QED
    BY <2>1, SaveStateTidy, SaveStateLists
<1> HIDE DEF yaml, rest, end
<1>9. Plain(yaml) /\ (n = 0 => NoDrops(yaml))
  BY <1>3, <1>4 DEF Plain, NoDrops
<1>10. NoBak(yaml) /\ \A p : Lacks(yaml, p)
  BY <1>9, SimpleTidy
<1>11. Recovery \in Seq(GoodWrites) /\ NoDrops(Recovery) /\ Late(Recovery) /\ (Listed # {} => NoBak(Recovery))
  <2>1. Late(Recovery)
    BY RecoveryLists DEF ListsOnly, Late, Drops, Yaml
  <2>2. QED
    BY <2>1, RecoveryGood, RecoveryTidy
<1> DEFINE b1 == Recovery \o yaml
           b2 == b1 \o rest
<1>12. /\ b1 \in Seq(GoodWrites) /\ Late(b1) /\ (Listed # {} => NoBak(b1)) /\ (n = 0 => NoDrops(b1))
  BY <1>3, <1>9, <1>10, <1>11, JoinLate, JoinNoBak, JoinNoDrops, Concatenated
<1>13. s = b2 \o end
  BY <1>7
<1> HIDE DEF b1
<1>14. /\ b2 \in Seq(GoodWrites) /\ Late(b2) /\ (Listed # {} => NoBak(b2)) /\ (n = 0 => NoDrops(b2))
  BY <1>5, <1>6, <1>12, JoinLate, JoinNoBak, JoinNoDrops, Concatenated
<1> HIDE DEF b2
<1>15. Late(s) /\ (Listed # {} => Tidy(s)) /\ (n = 0 => NoDrops(s))
  BY <1>5, <1>8, <1>13, <1>14, JoinLate, JoinTidy, JoinNoDrops
<1>16. \A p \in Profiles : p \notin Listed => Lacks(s, p)
  BY ResetClear, SimpleTidy
<1>17. ASSUME NEW p, NEW j \in DOMAIN s, Drops(s[j], p) PROVE ~BakBefore(s, j)
  <2>1. n # 0
    BY <1>15, <1>17 DEF NoDrops, Drops, Yaml
  <2>2. NoBak(b2)
    BY <1>14, <2>1
  <2>3. j \in DOMAIN (b2 \o end) /\ Drops((b2 \o end)[j], p)
    BY <1>13, <1>17
  <2>4. ~BakBefore(b2 \o end, j)
    BY <1>5, <1>8, <1>14, <2>2, <2>3, JoinUnbacked
  <2>5. QED
    BY <1>13, <2>4
<1>18. QED
  BY <1>15, <1>16, <1>17 DEF Orderly

\* A section that begins: p is the profile it makes, if it makes one.
LEMMA StockedBegins ==
    ASSUME StoreInv, Stocked, UNCHANGED <<main, bak, raw, runtime, ext>>,
           resetting' = resetting \/ resetting' = TRUE,
           \A z \in Profiles : z \in ListedIn(main) \cup ListedIn(bak) => kind'[z] = kind[z],
           resetting' = TRUE =>
               \A i \in DOMAIN todo' : IsList(todo'[i]) /\ BakBefore(todo', i) => Listed = {},
           \A i \in DOMAIN todo', z \in Profiles :
               IsList(todo'[i]) /\ z \in todo'[i].value.listed /\ z \notin Listed /\ kind'[z] = "local" =>
                   Provides(todo', i, "raw", z) /\ Provides(todo', i, "runtime", z),
           \A z \in Profiles : \A j \in DOMAIN todo' : Drops(todo'[j], z) => MayDrop(z, j)'
    PROVE  Stocked'
<1>1. resetting \in BOOLEAN /\ resetting' \in BOOLEAN
  BY DEF StoreInv, TypeOK, StoreFlagsOK
<1>2. ListedIn(main)' = ListedIn(main) /\ ListedIn(bak)' = ListedIn(bak)
  BY DEF ListedIn
<1>3. resetting' = FALSE => resetting = FALSE
  BY <1>1
<1>4. ASSUME resetting' = FALSE, NEW p \in Profiles, p \in ListedIn(main) \cup ListedIn(bak),
             kind'[p] = "local"
      PROVE  raw[p] # None /\ runtime[p] # None
  BY <1>3, <1>4 DEF Stocked
<1>5. ASSUME NEW i \in DOMAIN todo', IsList(todo'[i]), resetting' = FALSE \/ BakBefore(todo', i),
             NEW p \in Profiles, p \in todo'[i].value.listed, kind'[p] = "local"
      PROVE  /\ raw[p] # None \/ Provides(todo', i, "raw", p)
             /\ runtime[p] # None \/ Provides(todo', i, "runtime", p)
  <2>1. CASE p \notin Listed
    BY <1>5, <2>1
  <2>2. CASE p \in Listed
    <3>1. resetting' = FALSE
      BY <1>1, <1>5, <2>2
    <3>2. QED
      BY <1>4, <1>5, <2>2, <3>1, ListedIsRead
  <2>3. QED
    BY <2>1, <2>2
<1>6. ext'.st \in {"prepare", "write"} => ext'.seen # None
  BY DEF Stocked
<1>7. QED
  BY <1>2, <1>4, <1>5, <1>6 DEF Stocked

LEMMA SectionStepStocked ==
    ASSUME StoreInv, KeptInv, StockedInv, SectionStep
    PROVE  StockedInv'
<1> SUFFICES ASSUME overlapped' = FALSE PROVE Stocked'
  BY DEF StockedInv
<1>1. UNCHANGED <<main, bak, raw, runtime, ext, overlapped>>
  BY DEF SectionStep, files
<1>2. Kept /\ Stocked
  BY <1>1 DEF KeptInv, StockedInv
<1>3. resetting' = resetting \/ resetting' = TRUE
  BY DEF SectionStep
<1>4. \A z \in Profiles : z \in ListedIn(main) \cup ListedIn(bak) => kind[z] # "none"
  <2>1. ListedIn(bak) \subseteq saved.listed
    BY <1>2 DEF Kept, ListedIn, Readable
  <2>2. ListedIn(main) \subseteq Alive /\ saved.listed \subseteq Alive
    BY <1>2 DEF Kept, ListedIn
  <2>3. QED
    BY <2>1, <2>2 DEF Alive
<1>5. ASSUME UNCHANGED kind, Orderly(todo'),
             \A z \in Profiles : \A j \in DOMAIN todo' : Drops(todo'[j], z) => MayDrop(z, j)'
      PROVE  Stocked'
  BY <1>1, <1>2, <1>3, <1>5, StockedBegins DEF Orderly, Tidy, Lacks
<1>6. CASE OldSection /\ UNCHANGED kind
  <2>1. Orderly(todo')
    BY <1>6, OldSectionOrderly
  <2>2. CASE NoDrops(todo')
    BY <1>5, <1>6, <2>1, <2>2 DEF NoDrops, Drops, Yaml
  <2>3. ASSUME NEW p \in Profiles, NEW L \in GoodLists, p \notin L.listed,
               todo' = Save(L) \o Erased(p),
               NEW z \in Profiles, NEW j \in DOMAIN todo', Drops(todo'[j], z)
        PROVE  MayDrop(z, j)'
    <3>1. PICK s : s = todo'
      OBVIOUS
    <3>2. PICK n \in DOMAIN s : Removes(s, p, n) /\ FilesLast(s, p, n)
      <4>1. s = Save(L) \o Erased(p) /\ p \notin L.listed
        BY <2>3, <3>1
      <4>2. QED
        BY <4>1, ErasingSection
    <3>3. z = p /\ j > n
      BY <2>3, <3>1, <3>2 DEF Drops, FilesLast
    <3>4. \A i \in DOMAIN s : i > j => ~IsList(s[i])
      <4>1. s \in Seq(GoodWrites)
        BY <2>3, <3>1, SaveGood, ErasedGood, Concatenated
      <4>2. DOMAIN s \subseteq Int
        BY <4>1
      <4>3. \A i \in DOMAIN s : i > j => i > n
        BY <2>3, <3>1, <3>2, <3>3, <4>2
      <4>4. QED
        BY <3>2, <4>3 DEF Removes, IsList
    <3>5. QED
      BY <3>1, <3>2, <3>3, <3>4 DEF MayDrop
  <2>4. QED
    BY <1>5, <1>6, <2>1, <2>2, <2>3, OldSectionOrderly
<1>7. ASSUME NEW p \in Profiles, NewSection(p) PROVE Stocked'
  <2>1. kind[p] = "none" /\ \A z \in Profiles : z # p => kind'[z] = kind[z]
    BY <1>7 DEF NewSection, Fresh, StoreInv, TypeOK
  <2>2. p \notin Listed
    BY <1>4, <2>1, ListedIsRead
  <2>3. /\ \A z \in Profiles : z \notin Listed /\ z # p => Lacks(todo', z)
        /\ Listed # {} => Tidy(todo')
        /\ NoDrops(todo')
        /\ \A i \in DOMAIN todo' :
               IsList(todo'[i]) /\ p \in todo'[i].value.listed /\ kind'[p] = "local" =>
                   Provides(todo', i, "raw", p) /\ Provides(todo', i, "runtime", p)
    BY <1>7, <2>2, NewSectionFiles
  <2>4. \A z \in Profiles : z \in ListedIn(main) \cup ListedIn(bak) => kind'[z] = kind[z]
    BY <1>4, <2>1
  <2>5. \A i \in DOMAIN todo' : IsList(todo'[i]) /\ BakBefore(todo', i) => Listed = {}
    BY <2>3 DEF Tidy
  <2>6. \A i \in DOMAIN todo', z \in Profiles :
          IsList(todo'[i]) /\ z \in todo'[i].value.listed /\ z \notin Listed /\ kind'[z] = "local" =>
              Provides(todo', i, "raw", z) /\ Provides(todo', i, "runtime", z)
    BY <2>3 DEF Lacks
  <2>7. \A z \in Profiles : \A j \in DOMAIN todo' : ~Drops(todo'[j], z)
    BY <2>3 DEF NoDrops, Drops, Yaml
  <2>8. QED
    BY <1>1, <1>2, <1>3, <2>4, <2>5, <2>6, <2>7, StockedBegins
<1>8. CASE ResetSection /\ UNCHANGED kind /\ resetting' = TRUE
  <2>1. PICK n \in Nat : \E seq \in [1..n -> Profiles] :
          /\ Len(seq) = n /\ \A i \in 1..n : seq[i] \in Listed
          /\ n = 0 \/ Listed # {}
          /\ todo' = ResetWrites(seq)
    BY <1>8 DEF ResetSection
  <2>2. PICK seq \in [1..n -> Profiles] :
          /\ Len(seq) = n /\ \A i \in 1..n : seq[i] \in Listed
          /\ n = 0 \/ Listed # {}
          /\ todo' = ResetWrites(seq)
    BY <2>1
  <2>3. PICK s : s = todo'
    OBVIOUS
  <2>4. /\ Orderly(s) /\ Late(s)
        /\ \A p : \A j \in DOMAIN s : Drops(s[j], p) => ~BakBefore(s, j)
    BY <2>2, <2>3, ResetOrderly
  <2>5. \A z \in Profiles : \A j \in DOMAIN todo' : Drops(todo'[j], z) => MayDrop(z, j)'
    BY <1>8, <2>3, <2>4 DEF MayDrop, Late
  <2>6. QED
    BY <1>5, <1>8, <2>3, <2>4, <2>5
<1>9. QED
  BY <1>6, <1>7, <1>8 DEF SectionStep

LEMMA TailProvides ==
    ASSUME NEW T, NEW s \in Seq(T), s # <<>>, NEW f, NEW p, NEW i \in DOMAIN Tail(s),
           Provides(s, i + 1, f, p)
    PROVE  \/ Provides(Tail(s), i, f, p)
           \/ s[1].file = f /\ s[1].key = p /\ s[1].value # None
<1>1. PICK j \in DOMAIN s : j < i + 1 /\ s[j].file = f /\ s[j].key = p /\ s[j].value # None
  BY DEF Provides
<1>2. CASE j = 1
  BY <1>1, <1>2
<1>3. CASE j # 1
  <2>1. j - 1 \in DOMAIN Tail(s) /\ Tail(s)[j - 1] = s[j] /\ j - 1 < i
    BY <1>1, <1>3
  <2>2. QED
    BY <1>1, <2>1 DEF Provides
<1>4. QED
  BY <1>2, <1>3

LEMMA TailBakBefore ==
    ASSUME NEW T, NEW s \in Seq(T), s # <<>>, NEW i \in DOMAIN Tail(s)
    PROVE  BakBefore(s, i + 1) <=> s[1].file = "bak" \/ BakBefore(Tail(s), i)
<1>1. /\ 1 \in DOMAIN s /\ DOMAIN s \subseteq Int /\ i \in Int /\ i >= 1
      /\ \A j \in DOMAIN Tail(s) : j \in Int /\ j + 1 \in DOMAIN s /\ Tail(s)[j] = s[j + 1]
      /\ \A j \in DOMAIN s : j = 1 \/ (j - 1 \in DOMAIN Tail(s) /\ Tail(s)[j - 1] = s[j])
  OBVIOUS
<1>2. ASSUME BakBefore(s, i + 1) PROVE s[1].file = "bak" \/ BakBefore(Tail(s), i)
  <2>1. PICK b \in DOMAIN s : b < i + 1 /\ s[b].file = "bak"
    BY <1>2 DEF BakBefore
  <2>2. CASE b = 1
    BY <2>1, <2>2
  <2>3. CASE b # 1
    <3>1. b - 1 \in DOMAIN Tail(s) /\ Tail(s)[b - 1] = s[b] /\ b - 1 < i
      BY <1>1, <2>1, <2>3
    <3>2. QED
      BY <2>1, <3>1 DEF BakBefore
  <2>4. QED
    BY <2>2, <2>3
<1>3. s[1].file = "bak" => BakBefore(s, i + 1)
  BY <1>1 DEF BakBefore
<1>4. ASSUME BakBefore(Tail(s), i) PROVE BakBefore(s, i + 1)
  <2>1. PICK b \in DOMAIN Tail(s) : b < i /\ Tail(s)[b].file = "bak"
    BY <1>4 DEF BakBefore
  <2>2. b + 1 \in DOMAIN s /\ s[b + 1].file = "bak" /\ b + 1 < i + 1
    BY <1>1, <2>1
  <2>3. QED
    BY <2>2 DEF BakBefore
<1>5. QED
  BY <1>2, <1>3, <1>4

LEMMA WriteNextStocked ==
    ASSUME StoreInv, KeptInv, StockedInv, WriteNext
    PROVE  StockedInv'
<1> SUFFICES ASSUME overlapped' = FALSE PROVE Stocked'
  BY DEF StockedInv
<1>1. overlapped = FALSE /\ resetting \in BOOLEAN
  BY DEF WriteNext, StoreInv, TypeOK, StoreFlagsOK
<1>2. Stocked /\ Kept
  BY <1>1 DEF StockedInv, KeptInv
<1>3. PICK s \in Seq(GoodWrites) : s = todo /\ s # <<>> /\ todo' = Tail(s) /\ s[1] \in GoodWrites
  BY WriteNextParts
<1>4. PICK w \in GoodWrites : w = s[1]
  BY <1>3
<1>5. PICK t : t = Tail(s)
  OBVIOUS
<1>6. /\ main' = IF w.file = "main" THEN w.value ELSE main
      /\ bak' = IF w.file = "bak" THEN w.value ELSE bak
      /\ kind' = kind
      /\ \A p \in Profiles :
             /\ raw'[p] = IF RawWrite(w, p) THEN w.value ELSE raw[p]
             /\ runtime'[p] = IF w.file = "runtime" /\ w.key = p THEN w.value ELSE runtime[p]
  BY <1>3, <1>4, WriteNextParts
<1>7. w.file = "bak" => w.value # None
  BY WriteMembers, GoodAreLists, StoreMarks
<1>8. resetting' = (resetting /\ ~(w.file = "bak" /\ w.value = Empty))
  <2>1. w = Head(todo)
    BY <1>3, <1>4, TailIndex
  <2>2. QED
    BY <2>1 DEF WriteNext
<1>9. /\ 1 \in DOMAIN s /\ DOMAIN s \subseteq Int /\ DOMAIN t \subseteq Int
      /\ \A i \in DOMAIN t : i >= 1 /\ i + 1 \in DOMAIN s /\ t[i] = s[i + 1]
  BY <1>3, <1>5
<1>10. w.file = "bak" => main \in {w.value, Corrupt}
  <2> SUFFICES ASSUME w.file = "bak" PROVE main \in {w.value, Corrupt}
    OBVIOUS
  <2>1. ~Paired(s, 1)
    BY <1>3 DEF Paired
  <2>2. QED
    BY <1>2, <1>3, <1>4, <1>9, <2>1 DEF Kept
<1>11. \A p \in Profiles : Drops(w, p) => MayDrop(p, 1)
  BY <1>2, <1>3, <1>4, <1>9 DEF Stocked
\* A file of a profile that a list holds is there, or is written, and stays.
<1>12. ASSUME NEW p \in Profiles, ~Drops(w, p) \/ (raw'[p] # None /\ runtime'[p] # None)
       PROVE  /\ raw[p] # None \/ (w.file = "raw" /\ w.key = p /\ w.value # None) => raw'[p] # None
              /\ runtime[p] # None \/ (w.file = "runtime" /\ w.key = p /\ w.value # None) =>
                    runtime'[p] # None
  BY <1>6, <1>12 DEF Drops, Yaml, RawWrite
<1>13. ASSUME resetting' = FALSE, NEW p \in Profiles, p \in ListedIn(main') \cup ListedIn(bak'),
              kind[p] = "local"
       PROVE  raw'[p] # None /\ runtime'[p] # None
  <2>1. CASE resetting = FALSE
    <3>1. CASE w.file \in {"main", "bak"} /\ w.value # None /\ p \in w.value.listed
      <4>1. \A f : ~Provides(s, 1, f, p)
        BY <1>3 DEF Provides
      <4>2. IsList(s[1]) /\ p \in s[1].value.listed
        BY <1>4, <3>1 DEF IsList
      <4>3. raw[p] # None /\ runtime[p] # None
        BY <1>2, <1>3, <1>9, <1>13, <2>1, <4>1, <4>2 DEF Stocked
      <4>4. QED
        BY <1>6, <3>1, <4>3 DEF RawWrite
    <3>2. CASE ~(w.file \in {"main", "bak"} /\ w.value # None /\ p \in w.value.listed)
      <4>1. p \in ListedIn(main) \cup ListedIn(bak)
        BY <1>6, <1>7, <1>13, <3>2 DEF ListedIn, Readable
      <4>2. raw[p] # None /\ runtime[p] # None
        BY <1>2, <1>13, <2>1, <4>1 DEF Stocked
      <4>3. ~Drops(w, p)
        <5> SUFFICES ASSUME Drops(w, p) PROVE FALSE
          OBVIOUS
        <5>1. MayDrop(p, 1)
          BY <1>11
        <5>2. \E n \in DOMAIN s : n < 1
          BY <1>3, <2>1, <4>1, <5>1 DEF MayDrop
        <5>3. QED
          BY <1>3, <5>2
      <4>4. QED
        BY <1>12, <4>2, <4>3
    <3>3. QED
      BY <3>1, <3>2
  <2>2. CASE resetting = TRUE
    <3>1. w.file = "bak" /\ w.value = Empty
      BY <1>8, <1>13, <2>2
    <3>2. Empty.listed = {}
      BY DEF Empty
    <3>3. ListedIn(bak') = {} /\ ListedIn(main') = {}
      BY <1>6, <1>10, <3>1, <3>2 DEF ListedIn, Readable
    <3>4. QED
      BY <1>13, <3>3
  <2>3. QED
    BY <1>1, <2>1, <2>2
<1>14. ASSUME NEW i \in DOMAIN t, IsList(t[i]), resetting' = FALSE \/ BakBefore(t, i),
              NEW p \in Profiles, p \in t[i].value.listed, kind[p] = "local"
       PROVE  /\ raw'[p] # None \/ Provides(t, i, "raw", p)
              /\ runtime'[p] # None \/ Provides(t, i, "runtime", p)
  <2>1. i + 1 \in DOMAIN s /\ s[i + 1] = t[i] /\ i + 1 > 1
    BY <1>9
  <2>2. BakBefore(s, i + 1) <=> w.file = "bak" \/ BakBefore(t, i)
    BY <1>3, <1>4, <1>5, TailBakBefore
  <2>3. resetting = FALSE \/ BakBefore(s, i + 1)
    BY <1>1, <1>8, <1>14, <2>2
  <2>4. /\ raw[p] # None \/ Provides(s, i + 1, "raw", p)
        /\ runtime[p] # None \/ Provides(s, i + 1, "runtime", p)
    BY <1>2, <1>3, <1>14, <2>1, <2>3 DEF Stocked
  <2>5. ~Drops(w, p)
    <3> SUFFICES ASSUME Drops(w, p) PROVE FALSE
      OBVIOUS
    <3>1. MayDrop(p, 1)
      BY <1>11
    <3>2. QED
      BY <1>3, <1>14, <2>1, <3>1 DEF MayDrop
  <2>6. /\ Provides(s, i + 1, "raw", p) =>
              Provides(t, i, "raw", p) \/ (w.file = "raw" /\ w.key = p /\ w.value # None)
        /\ Provides(s, i + 1, "runtime", p) =>
              Provides(t, i, "runtime", p) \/ (w.file = "runtime" /\ w.key = p /\ w.value # None)
    BY <1>3, <1>4, <1>5, TailProvides
  <2>7. QED
    BY <1>12, <2>4, <2>5, <2>6
<1>15. ASSUME NEW p \in Profiles, NEW j \in DOMAIN t, Drops(t[j], p)
       PROVE  /\ \A i \in DOMAIN t : i > j /\ IsList(t[i]) => p \notin t[i].value.listed
              /\ \/ resetting' = TRUE /\ ~BakBefore(t, j)
                 \/ \E n \in DOMAIN t : n < j /\ Removes(t, p, n)
                 \/ p \notin ListedIn(main') /\ p \notin ListedIn(bak') /\ Lacks(t, p)
  <2>1. j + 1 \in DOMAIN s /\ s[j + 1] = t[j] /\ j \in Int /\ j >= 1
    BY <1>9
  <2>2. MayDrop(p, j + 1)
    BY <1>2, <1>3, <1>15, <2>1 DEF Stocked
  <2>3. ASSUME NEW i \in DOMAIN t, i > j, IsList(t[i]) PROVE p \notin t[i].value.listed
    <3>1. i + 1 \in DOMAIN s /\ s[i + 1] = t[i] /\ i + 1 > j + 1
      BY <1>9, <2>1, <2>3
    <3>2. QED
      BY <1>3, <2>2, <2>3, <3>1 DEF MayDrop
  <2>4. CASE resetting = TRUE /\ ~BakBefore(s, j + 1)
    <3>1. w.file # "bak" /\ ~BakBefore(t, j)
      BY <1>3, <1>4, <1>5, <2>4, TailBakBefore
    <3>2. resetting' = TRUE
      BY <1>8, <2>4, <3>1
    <3>3. QED
      BY <2>3, <3>1, <3>2
  <2>5. ASSUME NEW n \in DOMAIN s, n < j + 1, Removes(s, p, n)
        PROVE  \/ \E k \in DOMAIN t : k < j /\ Removes(t, p, k)
               \/ p \notin ListedIn(main') /\ p \notin ListedIn(bak') /\ Lacks(t, p)
    <3>1. n \in Int /\ n >= 1
      BY <1>3
    <3>2. CASE n = 1
      <4>1. w.file = "bak" /\ p \notin w.value.listed /\ Plain(t)
        BY <1>3, <1>4, <1>5, <2>5, <3>2, TailRemoves
      <4>2. p \notin ListedIn(main') /\ p \notin ListedIn(bak')
        BY <1>6, <1>10, <4>1 DEF ListedIn, Readable
      <4>3. QED
        BY <4>1, <4>2, SimpleTidy
    <3>3. CASE n # 1
      <4>1. Removes(t, p, n - 1)
        BY <1>3, <1>5, <2>5, <3>1, <3>3, TailRemoves
      <4>2. n - 1 \in DOMAIN t /\ n - 1 < j
        BY <2>1, <2>5, <3>1, <4>1 DEF Removes
      <4>3. QED
        BY <4>1, <4>2
    <3>4. QED
      BY <3>2, <3>3
  <2>6. CASE p \notin ListedIn(main) /\ p \notin ListedIn(bak) /\ Lacks(s, p)
    <3>1. (IsList(w) => p \notin w.value.listed) /\ Lacks(t, p)
      BY <1>4, <1>9, <2>6 DEF Lacks
    <3>2. p \notin ListedIn(main') /\ p \notin ListedIn(bak')
      BY <1>6, <1>7, <2>6, <3>1 DEF ListedIn, Readable, IsList
    <3>3. QED
      BY <2>3, <3>1, <3>2
  <2>7. QED
    BY <1>3, <2>2, <2>3, <2>4, <2>5, <2>6 DEF MayDrop
<1>16. ext'.st \in {"prepare", "write"} => ext'.seen # None
  <2>1. ext'.st = ext.st /\ ext'.seen = ext.seen
    BY ExtTypes DEF WriteNext, ExtStates
  <2>2. QED
    BY <1>2, <2>1 DEF Stocked
<1>17. ListedIn(main)' = ListedIn(main') /\ ListedIn(bak)' = ListedIn(bak')
  BY DEF ListedIn, Readable
<1>18. todo' = t
  BY <1>3, <1>5
<1>19. \A p \in Profiles : \A j \in DOMAIN todo' : Drops(todo'[j], p) => MayDrop(p, j)'
  BY <1>15, <1>17, <1>18 DEF MayDrop
<1>20. QED
  BY <1>6, <1>13, <1>14, <1>16, <1>17, <1>18, <1>19 DEF Stocked

LEMMA UiFaultStocked ==
    ASSUME StoreInv, StockedInv, UiKill \/ WriteFails
    PROVE  StockedInv'
<1> SUFFICES ASSUME overlapped' = FALSE PROVE Stocked'
  BY DEF StockedInv
<1>1. UNCHANGED <<main, bak, raw, runtime, kind, ext, resetting, overlapped>>
  BY DEF UiKill, WriteFails, files
<1>2. Stocked
  BY <1>1 DEF StockedInv
<1>3. Orderly(todo') /\ NoDrops(todo')
  <2>1. CASE todo' = <<>>
    BY <2>1 DEF Orderly, Lacks, Tidy, NoDrops
  <2>2. CASE commit # None /\ todo' = recordFailure(commit)
    <3>1. PICK job \in Jobs : job = commit
      BY <2>2 DEF StoreInv, TypeOK
    <3>2. PICK L \in GoodLists : L = updateProfile(job) /\ L.listed \subseteq Listed
      BY UpdatedLists
    <3>3. todo' = Save(L)
      BY <2>2, <3>1, <3>2 DEF recordFailure
    <3>4. <<>> \in Seq(GoodWrites) /\ Plain(<<>>)
      BY DEF Plain
    <3>5. QED
      BY <3>2, <3>3, <3>4, SectionTidy DEF Orderly
  <2>3. QED
    BY <2>1, <2>2 DEF UiKill, WriteFails
<1>4. \A z \in Profiles : \A j \in DOMAIN todo' : ~Drops(todo'[j], z)
  BY <1>3 DEF NoDrops, Drops, Yaml
<1>5. QED
  BY <1>1, <1>2, <1>3, <1>4, StockedBegins DEF Orderly, Tidy, Lacks

\* The extension never leaves a runtime YAML missing.
LEMMA ExtStocked ==
    ASSUME StoreInv, KeptInv, StockedInv, ExtNext \/ ExtKill \/ CorruptMain
    PROVE  StockedInv'
<1> SUFFICES ASSUME overlapped' = FALSE PROVE Stocked'
  BY DEF StockedInv
<1>1. UNCHANGED <<bak, raw, kind, todo, resetting>>
  BY DEF ExtNext, ExtRead, ExtRecoverRead, ExtRecover, ExtTruncate, ExtWrite, ExtLaunched,
         ExtFrame, ExtKill, CorruptMain, files, section, history
<1>2. overlapped = FALSE /\ (ExtRecover => todo = <<>>)
  BY DEF ExtNext, ExtRead, ExtRecoverRead, ExtRecover, ExtTruncate, ExtWrite, ExtLaunched,
         ExtKill, CorruptMain, history, StoreInv, TypeOK, StoreFlagsOK
<1>3. Stocked /\ Kept
  BY <1>2 DEF StockedInv, KeptInv
<1>4. ext \in ExtStates /\ runtime \in [Profiles -> Contents \cup {None, Torn}]
  BY ExtTypes
<1>5. \/ main' = main
      \/ main' = Corrupt
      \/ todo = <<>> /\ main' = saved
  BY <1>2, <1>3 DEF ExtNext, ExtRead, ExtRecoverRead, ExtRecover, ExtTruncate, ExtWrite, ExtLaunched,
                    ExtKill, CorruptMain, files, Kept
<1>6. saved.listed \subseteq ListedIn(bak)
  <2>1. saved # None /\ saved # Corrupt /\ Empty.listed = {}
    BY StoreMarks DEF StoreInv, TypeOK, Empty
  <2>2. QED
    BY <1>3, <2>1 DEF Kept, ListedIn, Readable
<1>7. ListedIn(main') \subseteq ListedIn(main) \cup ListedIn(bak)
  BY <1>5, <1>6 DEF ListedIn, Readable
<1>8. todo # <<>> => ListedIn(main') \subseteq ListedIn(main)
  BY <1>5 DEF ListedIn, Readable
<1>9. \A p \in Profiles : runtime[p] # None => runtime'[p] # None
  <2>1. CASE ExtTruncate
    <3>1. runtime' = [runtime EXCEPT ![ext.p] = Torn] /\ Torn # None
      BY <2>1, StoreConstants DEF ExtTruncate
    <3>2. QED
      BY <1>4, <3>1
  <2>2. CASE ExtWrite
    <3>1. ext.seen # None
      BY <1>3, <2>2 DEF ExtWrite, Stocked
    <3>2. runtime' = [runtime EXCEPT ![ext.p] = ext.seen] \/ runtime' = runtime
      BY <2>2 DEF ExtWrite
    <3>3. QED
      BY <1>4, <3>1, <3>2
  <2>3. CASE ExtKill \/ CorruptMain \/ (\E p \in Profiles : ExtRead(p)) \/ ExtRecoverRead \/ ExtRecover
               \/ ExtLaunched
    BY <2>3 DEF ExtKill, CorruptMain, ExtRead, ExtRecoverRead, ExtRecover, ExtLaunched, files
  <2>4. QED
    BY <2>1, <2>2, <2>3 DEF ExtNext
<1>10. ext'.st \in {"prepare", "write"} => ext'.seen # None
  <2>1. ASSUME NEW p \in Profiles, ExtRead(p) PROVE ext'.seen # None
    BY <1>4, <2>1 DEF ExtRead, ExtStates
  <2>2. CASE ExtRecoverRead \/ ExtWrite
    BY <1>4, <2>2 DEF ExtRecoverRead, ExtWrite, ExtStates
  <2>3. CASE ExtTruncate \/ CorruptMain
    BY <1>3, <1>4, <2>3 DEF ExtTruncate, CorruptMain, ExtStates, Stocked
  <2>4. CASE ExtRecover \/ ExtLaunched \/ ExtKill
    BY <2>4, NoExtState DEF ExtRecover, ExtLaunched, ExtKill
  <2>5. QED
    BY <2>1, <2>2, <2>3, <2>4 DEF ExtNext
<1>11. ListedIn(main)' = ListedIn(main') /\ ListedIn(bak)' = ListedIn(bak)
  BY <1>1 DEF ListedIn, Readable
<1>12. ASSUME NEW p \in Profiles, NEW j \in DOMAIN todo, Drops(todo[j], p) PROVE MayDrop(p, j)'
  <2>1. MayDrop(p, j)
    BY <1>3, <1>12 DEF Stocked
  <2>2. todo # <<>>
    BY <1>12
  <2>3. QED
    BY <1>1, <1>8, <1>11, <2>1, <2>2 DEF MayDrop
<1>13. QED
  BY <1>1, <1>3, <1>7, <1>9, <1>10, <1>11, <1>12 DEF Stocked

LEMMA InitStocked == Init => StockedInv
<1> SUFFICES ASSUME Init PROVE Stocked
  BY DEF StockedInv
<1>1. PICK list \in Lists :
        /\ main \in (IF list = Empty THEN {None} ELSE {list}) /\ bak = main
        /\ raw = [p \in Profiles |-> IF p \in list.listed THEN DefaultRaw ELSE None]
        /\ runtime = raw /\ todo = <<>> /\ ext = NoExt
  BY DEF Init
<1>2. ListedIn(main) \subseteq list.listed /\ ListedIn(bak) \subseteq list.listed
  BY <1>1 DEF ListedIn, Readable
<1>3. DefaultRaw # None
  BY StoreConstants
<1>4. \A p \in Profiles : p \in ListedIn(main) \cup ListedIn(bak) => raw[p] # None /\ runtime[p] # None
  BY <1>1, <1>2, <1>3
<1>5. ext.st = "idle"
  BY <1>1, NoExtState DEF NoExt
<1>6. QED
  BY <1>1, <1>4, <1>5 DEF Stocked

LEMMA StepStocked == StoreInv /\ KeptInv /\ StockedInv /\ [Next]_vars => StockedInv'
<1> SUFFICES ASSUME StoreInv, KeptInv, StockedInv, [Next]_vars PROVE StockedInv'
  OBVIOUS
<1>1. CASE UserNext \/ UpdateNext \/ Reload \/ Continue
  BY <1>1, SectionSteps, SectionStepStocked
<1>2. CASE WriteNext
  BY <1>2, WriteNextStocked
<1>3. CASE ExtNext \/ ExtKill \/ CorruptMain
  BY <1>3, ExtStocked
<1>4. CASE UiKill \/ WriteFails
  BY <1>4, UiFaultStocked
<1>5. CASE UNCHANGED vars
  BY <1>5 DEF vars, files, section, history, StockedInv, Stocked, MayDrop, ListedIn
<1>6. QED
  BY <1>1, <1>2, <1>3, <1>4, <1>5 DEF Next, FaultNext

\* A local profile that profiles.json or its backup lists has both YAML files, whenever the
\* process is killed or a write fails, unless a reset has not completed.
THEOREM LocalsKeepFiles == Spec => []LocalsHaveFiles
<1>1. StoreInv /\ StockedInv => LocalsHaveFiles
  <2> SUFFICES ASSUME StoreInv, StockedInv, ~overlapped, ~resetting,
                      NEW f \in {main, bak}, Readable(f), NEW p \in f.listed, kind[p] = "local"
               PROVE  raw[p] # None /\ runtime[p] # None
    BY DEF LocalsHaveFiles
  <2>1. overlapped = FALSE /\ resetting = FALSE
    BY DEF StoreInv, TypeOK, StoreFlagsOK
  <2>2. f \in Lists
    BY DEF StoreInv, TypeOK, ListFiles, Readable
  <2>3. p \in Profiles /\ p \in ListedIn(main) \cup ListedIn(bak)
    BY <2>2 DEF Lists, ListedIn
  <2>4. QED
    BY <2>1, <2>3 DEF StockedInv, Stocked
<1>2. QED
  BY <1>1, AlwaysKept, InitStocked, StepStocked, PTL DEF Spec

=============================================================================
