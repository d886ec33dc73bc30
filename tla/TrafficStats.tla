---------------------------- MODULE TrafficStats ----------------------------
(***************************************************************************)
(* How traffic is counted: the core's total, the writer goroutine of the   *)
(* bridge that publishes it every second, the extension that samples it    *)
(* into the daily file and the runtime snapshot, and the home page that    *)
(* rewrites both files when it is shown.                                   *)
(*                                                                         *)
(* Extension and page are processes of their own: each reads, changes and  *)
(* replaces the two files without a lock, so every read and every          *)
(* replacement is a step.  One direction of traffic is counted; the other  *)
(* is treated the same by the same statements.                             *)
(***************************************************************************)
EXTENDS Integers

CONSTANTS
    MaxMoved,       \* bound: units of traffic
    MaxSessions,    \* bound: connections
    MaxEvents       \* bound: page shows, midnights, cache clearings, pauses, stalls and kills

ASSUME StatsAssumption == MaxMoved \in Nat /\ MaxSessions \in Nat /\ MaxEvents \in Nat

Writers == 1..MaxSessions
Processes == {"extension", "page"}

VARIABLES
    total,              \* statistic.DefaultManager's total, of this process
    day,                \* the local date
    started,            \* of the bridge
    made,               \* how many writers there were; the last is trafficStatsStop's
    writer,             \* per writer goroutine: where it is, what it writes, stop closed
    tmp, stats,         \* the temporary and the published statistics file
    session,            \* of the extension: off, starting, replacing, writing, on, stopping
    timer, service,     \* its sampling timer, and whether it has a TrafficStatsService
    last,               \* the service's lastUploadTotal
    job,                \* per process: the update of the two files it is in
    daily, runtime,     \* the two files
    events,
    moved, timedOut, outdated, clobbered    \* history, see below

core == <<total, day, started>>
writing == <<made, writer, tmp, stats>>
sampling == <<session, timer, service, last>>
files == <<daily, runtime>>
history == <<moved, timedOut, outdated, clobbered>>
vars == <<core, writing, sampling, job, files, events, history>>

NoFile == [whole |-> FALSE, exists |-> FALSE, total |-> 0]
Torn == [NoFile EXCEPT !.exists = TRUE]
Keep == -1      \* a field the patch of an update leaves alone

NoWriter == [pc |-> "none", data |-> NoFile, stop |-> FALSE, final |-> FALSE,
             ready |-> FALSE]
NoJob == [pc |-> "idle", today |-> 0, delta |-> 0, save |-> FALSE, bytes |-> 0,
          speed |-> 0, state |-> "keep", snap |-> [state |-> "idle", speed |-> 0, today |-> 0]]

Init ==
    /\ total = 0 /\ day = 1 /\ started = FALSE
    /\ made = 0 /\ writer = [w \in Writers |-> NoWriter]
    /\ tmp = NoFile /\ stats = NoFile
    /\ session = "off" /\ timer = FALSE /\ service = FALSE /\ last = 0
    /\ job = [p \in Processes |-> NoJob]
    /\ daily = [date |-> 0, bytes |-> 0]
    /\ runtime = [state |-> "idle", speed |-> 0, today |-> 0]
    /\ events = 0
    /\ moved = 0 /\ timedOut = FALSE /\ clobbered = FALSE
    /\ outdated = [p \in Processes |-> FALSE]

Event == events < MaxEvents /\ events' = events + 1

-----------------------------------------------------------------------------
(* The core and the writer of the bridge *)

PushUploaded ==
    /\ started /\ moved < MaxMoved
    /\ total' = total + 1 /\ moved' = moved + 1
    /\ UNCHANGED <<day, started, writing, sampling, job, files, events, timedOut, outdated,
                   clobbered>>

\* writeTrafficStatsFile: marshal and truncate, write, rename.  The temporary file has one
\* name, whoever writes.  A goroutine whose stop channel is closed may still take a tick.
Open(w) ==
    /\ writer[w].pc = "loop"
    /\ \E final \in IF writer[w].stop THEN BOOLEAN ELSE {FALSE} :
           writer' = [writer EXCEPT
               ![w] = [@ EXCEPT !.pc = "open", !.final = final,
                                !.data = [whole |-> TRUE, exists |-> TRUE, total |-> total]]]
    /\ tmp' = Torn
    /\ UNCHANGED <<core, made, stats, sampling, job, files, events, history>>

\* Renamed away by another writer, the file written to is the published one.
Fill(w) ==
    /\ writer[w].pc = "open"
    /\ writer' = [writer EXCEPT ![w].pc = "full"]
    /\ IF tmp # NoFile
       THEN tmp' = writer[w].data /\ UNCHANGED stats
       ELSE stats' = writer[w].data /\ UNCHANGED tmp
    /\ UNCHANGED <<core, made, sampling, job, files, events, history>>

Rename(w) ==
    /\ writer[w].pc = "full"
    /\ writer' = [writer EXCEPT ![w].pc = IF writer[w].final THEN "done" ELSE "loop",
                                ![w].ready = TRUE]
    /\ stats' = IF tmp # NoFile THEN tmp ELSE stats
    /\ tmp' = NoFile
    /\ UNCHANGED <<core, made, sampling, job, files, events, history>>

\* startTrafficStatsWriter writes once itself, then its goroutine goes on.
NewWriter == [NoWriter EXCEPT !.pc = "loop"]

\* What stopTrafficStatsWriter waits for, or two seconds.
WriterGone(w) == w \in Writers => writer[w].pc \in {"none", "done"}

-----------------------------------------------------------------------------
(* Updates of the two files *)

Busy(p) == job[p].pc # "idle"

\* An update by p: today's bytes plus delta are written back when save is set, and shown in
\* the snapshot together with speed and, unless it is "keep", state.
Begin(p, delta, save, speed) ==
    job' = [job EXCEPT ![p] = [NoJob EXCEPT !.pc = "load", !.today = day, !.delta = delta,
                                            !.save = save, !.speed = speed]]

\* RuntimeStore.update with a state: the daily file is not read.
BeginState(p, speed, state) ==
    job' = [job EXCEPT ![p] = [NoJob EXCEPT !.pc = "snap", !.bytes = Keep, !.speed = speed,
                                            !.state = state]]

\* A date in another time zone.
Today_OtherZone(today) == IF daily.date = today + 1 THEN daily.bytes ELSE 0

Today(today) == IF daily.date = today THEN daily.bytes ELSE 0

\* loadDailyState: a file of another day counts as empty.
LoadDaily(p) ==
    /\ job[p].pc = "load"
    /\ job' = [job EXCEPT ![p].pc = IF job[p].save THEN "save" ELSE "snap",
                          ![p].bytes = Today(job[p].today) + job[p].delta]
    /\ UNCHANGED <<core, writing, sampling, files, events, history>>

\* outdated: another process has replaced the file since p took the date, or read it.
SaveDaily(p) ==
    /\ job[p].pc = "save"
    /\ daily' = [date |-> job[p].today, bytes |-> job[p].bytes]
    /\ job' = [job EXCEPT ![p].pc = "snap"]
    /\ outdated' = [q \in Processes |-> q # p /\ (outdated[q] \/ job[q].pc \in {"load", "save"})]
    /\ UNCHANGED <<core, writing, sampling, runtime, events, moved, timedOut, clobbered>>

LoadRuntime(p) ==
    /\ job[p].pc = "snap"
    /\ job' = [job EXCEPT ![p].pc = "put", ![p].snap = runtime]
    /\ outdated' = [outdated EXCEPT ![p] = FALSE]
    /\ UNCHANGED <<core, writing, sampling, files, events, moved, timedOut, clobbered>>

\* clobbered: the snapshot has lost an update of the other process.
SaveRuntime(p) ==
    LET j == job[p]
    IN  /\ j.pc = "put"
        /\ runtime' = [state |-> IF j.state = "keep" THEN j.snap.state ELSE j.state,
                       speed |-> IF j.speed = Keep THEN j.snap.speed ELSE j.speed,
                       today |-> IF j.bytes = Keep THEN j.snap.today ELSE j.bytes]
        /\ job' = [job EXCEPT ![p] = NoJob]
        /\ clobbered' = (clobbered \/ outdated[p])
        /\ outdated' = [q \in Processes |-> q # p /\ (outdated[q] \/ job[q].pc = "put")]
        /\ UNCHANGED <<core, writing, sampling, daily, events, moved, timedOut>>

-----------------------------------------------------------------------------
(* The extension: one update at a time *)

Readable == stats.whole

\* The core runs and the snapshot says so.  A core that was left running is given the new
\* configuration and keeps its total.
Connect ==
    /\ session = "off" /\ made < MaxSessions /\ ~Busy("extension")
    /\ session' = "starting" /\ started' = TRUE
    /\ BeginState("extension", Keep, "connected")
    /\ UNCHANGED <<total, day, writing, timer, service, last, files, events, history>>

\* startTrafficStatsWriter first stops the writer of the session before ...
StopOldWriter ==
    /\ session = "starting" /\ ~Busy("extension")
    /\ session' = "replacing"
    /\ writer' = IF made > 0 THEN [writer EXCEPT ![made].stop = TRUE] ELSE writer
    /\ UNCHANGED <<core, made, tmp, stats, timer, service, last, job, files, events, history>>

\* ... and gives it two seconds; timedOut remembers that they did not suffice.
StartWriter ==
    /\ session = "replacing"
    /\ \/ WriterGone(made) /\ UNCHANGED <<events, timedOut>>
       \/ ~WriterGone(made) /\ Event /\ timedOut' = TRUE
    /\ session' = "writing"
    /\ made' = made + 1 /\ writer' = [writer EXCEPT ![made'] = NewWriter]
    /\ UNCHANGED <<core, tmp, stats, timer, service, last, job, files, moved, outdated, clobbered>>

\* resetBaseline; when it throws there is no timer.
ResetBaseline ==
    /\ session = "writing" /\ writer[made].ready
    /\ session' = "on" /\ service' = TRUE
    /\ IF Readable
       THEN timer' = TRUE /\ last' = stats.total /\ Begin("extension", 0, FALSE, 0)
       ELSE UNCHANGED <<timer, last, job>>
    /\ UNCHANGED <<core, writing, files, events, history>>

\* sampleAndUpdate up to its first file access; the baseline moves on with it.
Baseline_Kept == last

Baseline == stats.total

Delta == IF stats.total > last THEN stats.total - last ELSE 0

\* The speed shown is the greater of the delta's and the one the core reports.
Sample ==
    /\ session = "on" /\ timer /\ ~Busy("extension") /\ Readable
    /\ \E speed \in Delta..MaxMoved : Begin("extension", Delta, TRUE, speed)
    /\ last' = Baseline
    /\ UNCHANGED <<core, writing, session, timer, service, files, events, history>>

\* A missing, torn or stale file ends the sampling of this session.
SampleFails ==
    /\ session = "on" /\ timer /\ ~Busy("extension")
    /\ \/ ~Readable /\ UNCHANGED events
       \/ Event
    /\ timer' = FALSE /\ service' = FALSE
    /\ Begin("extension", 0, FALSE, 0)
    /\ UNCHANGED <<core, writing, session, last, files, history>>

\* stopVpnForProduct: stopTrafficPolling(true).  Neither it nor destroyVpn stops the core or
\* the writer: they go on until the process ends or the next session replaces the writer.
StopPolling ==
    /\ session = "on" /\ ~Busy("extension")
    /\ session' = "stopping" /\ timer' = FALSE /\ service' = FALSE
    /\ IF service THEN Begin("extension", 0, FALSE, 0) ELSE UNCHANGED job
    /\ UNCHANGED <<core, writing, last, files, events, history>>

Disconnect_Unreported ==
    /\ session = "stopping" /\ ~Busy("extension")
    /\ session' = "off"
    /\ BeginState("extension", 0, "keep")
    /\ UNCHANGED <<core, writing, timer, service, last, files, events, history>>

Disconnect ==
    /\ session = "stopping" /\ ~Busy("extension")
    /\ session' = "off"
    /\ BeginState("extension", 0, "idle")
    /\ UNCHANGED <<core, writing, timer, service, last, files, events, history>>

\* The extension's process ends, asked to after a disconnect or killed; the files stay.
Kill ==
    /\ Event
    /\ started
    /\ total' = 0 /\ started' = FALSE
    /\ writer' = [w \in Writers |-> NoWriter]
    /\ session' = "off" /\ timer' = FALSE /\ service' = FALSE /\ last' = 0
    /\ job' = [job EXCEPT !["extension"] = NoJob]
    /\ clobbered' = (clobbered \/ session # "off" \/ Busy("extension"))
    /\ outdated' = [outdated EXCEPT !["extension"] = FALSE]
    /\ UNCHANGED <<day, made, tmp, stats, files, moved, timedOut>>

-----------------------------------------------------------------------------
(* The page, the user and time *)

\* refreshDailySnapshot, when the page appears or is shown again.
RefreshDailySnapshot ==
    /\ Event /\ ~Busy("page")
    /\ Begin("page", 0, TRUE, 0)
    /\ UNCHANGED <<core, writing, sampling, files, history>>

ClearGeneratedCache ==
    /\ Event /\ stats # NoFile
    /\ stats' = NoFile
    /\ UNCHANGED <<core, made, writer, tmp, sampling, job, files, history>>

Midnight ==
    /\ Event
    /\ day' = day + 1
    /\ UNCHANGED <<total, started, writing, sampling, job, files, history>>

-----------------------------------------------------------------------------
Next ==
    \/ PushUploaded
    \/ \E w \in Writers : Open(w) \/ Fill(w) \/ Rename(w)
    \/ \E p \in Processes : LoadDaily(p) \/ SaveDaily(p) \/ LoadRuntime(p) \/ SaveRuntime(p)
    \/ Connect \/ StopOldWriter \/ StartWriter \/ ResetBaseline \/ Sample \/ SampleFails
    \/ StopPolling \/ Disconnect \/ Kill
    \/ RefreshDailySnapshot \/ ClearGeneratedCache \/ Midnight

Spec == Init /\ [][Next]_vars

-----------------------------------------------------------------------------
FileType == [whole : BOOLEAN, exists : BOOLEAN, total : 0..MaxMoved]
SnapshotType == [state : {"idle", "connected"}, speed : 0..MaxMoved, today : Nat]

\* Every variable keeps its type; no total and no delta exceeds the traffic there was.
TypeOK ==
    /\ total \in 0..MaxMoved /\ day \in 1..(MaxEvents + 1) /\ started \in BOOLEAN
    /\ made \in 0..MaxSessions
    /\ writer \in [Writers -> [pc : {"none", "loop", "open", "full", "done"},
                               data : FileType, stop : BOOLEAN, final : BOOLEAN,
                               ready : BOOLEAN]]
    /\ tmp \in FileType /\ stats \in FileType
    /\ session \in {"off", "starting", "replacing", "writing", "on", "stopping"} /\ timer \in BOOLEAN
    /\ service \in BOOLEAN
    /\ last \in 0..MaxMoved
    /\ job \in [Processes -> [pc : {"idle", "load", "save", "snap", "put"},
                              today : 0..(MaxEvents + 1), delta : 0..MaxMoved, save : BOOLEAN,
                              bytes : Nat \cup {Keep}, speed : Keep..MaxMoved,
                              state : {"keep", "idle", "connected"}, snap : SnapshotType]]
    /\ daily \in [date : 0..(MaxEvents + 1), bytes : Nat]
    /\ runtime \in SnapshotType
    /\ events \in 0..MaxEvents /\ moved \in 0..MaxMoved
    /\ timedOut \in BOOLEAN /\ clobbered \in BOOLEAN /\ outdated \in [Processes -> BOOLEAN]

\* Today's figure never exceeds the traffic there was: no sample is counted twice, whether
\* the core restarts, the total goes back to zero or the baseline is taken anew.  A writer
\* nobody waited for may publish an older total, and the next sample counts the rest again.
NeverOvercounts == timedOut \/ daily.bytes <= moved

\* When the session is over the snapshot says so, with no speed, unless one process has
\* overwritten what the other had just saved or the extension was killed.
QuietAfterStop ==
    session = "off" /\ ~Busy("extension") /\ ~clobbered =>
        runtime.state = "idle" /\ runtime.speed = 0

Loses ==
    \/ daily'.date < daily.date
    \/ daily'.date = daily.date /\ daily'.bytes < daily.bytes

\* Traffic counted for a day is lost only by an update that had begun before the other process
\* saved: not by a restart, by a page show alone, or by midnight between two steps.
LostOnlyByOverlap ==
    [][Loses => \E p \in Processes : job[p].pc = "save" /\ outdated[p]]_vars

=============================================================================
