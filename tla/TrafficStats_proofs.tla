------------------------ MODULE TrafficStats_proofs ------------------------
(***************************************************************************)
(* Proofs about TrafficStats, for any amount of traffic and any number of  *)
(* sessions and events: what is counted never exceeds the traffic there    *)
(* was, only an overlap of the two processes loses what was counted, and   *)
(* the snapshot is quiet when a session is over.                           *)
(***************************************************************************)
EXTENDS TrafficStats, TLAPS

File == [whole : BOOLEAN, exists : BOOLEAN, total : Nat]
Snapshot == [state : {"idle", "connected"}, speed : Int, today : Int]
Writer == [pc : {"none", "loop", "open", "full", "done"}, data : File, stop : BOOLEAN,
           final : BOOLEAN, ready : BOOLEAN]
Job == [pc : {"idle", "load", "save", "snap", "put"}, today : Nat, delta : Nat, save : BOOLEAN,
        bytes : Int, speed : Int, state : {"keep", "idle", "connected"}, snap : Snapshot]

\* The numbers are numbers, a session that samples has a writer, and there is no update while
\* the writer is replaced.
Types ==
    /\ total \in Nat /\ moved \in Nat /\ last \in Nat /\ day \in Nat
    /\ made \in 0..MaxSessions
    /\ session \in {"starting", "replacing"} => made < MaxSessions
    /\ session \in {"writing", "on"} => made > 0
    /\ session \in {"replacing", "writing"} => job["extension"].pc = "idle"
    /\ writer \in [Writers -> Writer] /\ tmp \in File /\ stats \in File
    /\ job \in [Processes -> Job]
    /\ daily \in [date : Nat, bytes : Nat] /\ runtime \in Snapshot
    /\ timedOut \in BOOLEAN /\ outdated \in [Processes -> BOOLEAN]
    /\ \A p \in Processes : job[p].pc = "save" => job[p].bytes \in Nat

Writes(w) == writer[w].pc \in {"open", "full"}

\* Unless somebody did not wait for a writer there is one, the temporary file is its own, and
\* the totals that are sampled, published, about to be published and true follow each other.
Published ==
    /\ last <= total
    /\ \A w \in Writers : writer[w].pc \notin {"none", "done"} => w = made
    /\ \A w \in Writers : /\ writer[w].pc = "open" => tmp = Torn
                          /\ writer[w].pc = "full" => tmp = writer[w].data
                          /\ Writes(w) => /\ writer[w].data.whole = TRUE
                                          /\ writer[w].data.exists = TRUE
                                          /\ last <= writer[w].data.total
                                          /\ writer[w].data.total <= total
    /\ \A w \in Writers : writer[w].ready = TRUE /\ stats.whole = TRUE =>
           /\ last <= stats.total /\ stats.total <= total
           /\ \A x \in Writers : Writes(x) => stats.total <= writer[x].data.total
    /\ session = "on" => writer[made].ready = TRUE

\* The traffic that has been sampled, and the part of it on its way to the daily file.
Counted == moved - total + last
Pending == IF job["extension"].pc = "load" THEN job["extension"].delta ELSE 0

\* Neither the file nor what one of the two is about to save exceeds it.
Covered ==
    /\ daily.bytes + Pending <= Counted
    /\ job["page"].pc = "save" => job["page"].bytes + Pending <= Counted
    /\ job["extension"].pc = "save" => job["extension"].bytes <= Counted
    /\ job["page"].pc = "load" => job["page"].delta = 0

\* An update that no other has overtaken saves a later day, or no less of the same day.
Dated ==
    /\ daily.date <= day
    /\ \A p \in Processes : job[p].pc \in {"load", "save"} =>
           /\ job[p].today <= day
           /\ outdated[p] = FALSE => daily.date <= job[p].today
    /\ \A p \in Processes : job[p].pc = "save" /\ outdated[p] = FALSE /\ daily.date = job[p].today =>
           daily.bytes <= job[p].bytes

StatsInv ==
    /\ Types
    /\ timedOut = FALSE => Published /\ Covered
    /\ Dated

-----------------------------------------------------------------------------
(* The jobs and the files *)

LEMMA Constants == MaxSessions \in Nat /\ MaxMoved \in Nat /\ Keep \in Int
BY StatsAssumption DEF Keep

LEMMA NoFileType == NoFile \in File /\ NoFile.whole = FALSE /\ NoFile.exists = FALSE
<1>1. NoFile \in File
  BY DEF NoFile, File
<1>2. QED
  BY <1>1 DEF NoFile

LEMMA TornType == Torn \in File /\ Torn.whole = FALSE /\ Torn.exists = TRUE
BY NoFileType DEF Torn, File

LEMMA NoWriterType ==
    NoWriter \in Writer /\ NoWriter.pc = "none" /\ NoWriter.ready = FALSE
<1>1. NoWriter \in Writer
  BY NoFileType DEF NoWriter, Writer
<1>2. QED
  BY <1>1 DEF NoWriter

LEMMA NewWriterType ==
    NewWriter \in Writer /\ NewWriter.pc = "loop" /\ NewWriter.ready = FALSE
BY NoWriterType DEF NewWriter, Writer

LEMMA NoJobType == NoJob \in Job /\ NoJob.pc = "idle" /\ NoJob.state = "keep"
<1>1. [state |-> "idle", speed |-> 0, today |-> 0] \in Snapshot
  BY DEF Snapshot
<1>2. NoJob \in Job
  BY <1>1 DEF NoJob, Job
<1>3. QED
  BY <1>2 DEF NoJob

\* An update begins.
LEMMA BegunJob ==
    ASSUME Types, NEW p \in Processes, NEW delta \in Nat, NEW save \in BOOLEAN, NEW speed \in Int,
           job' = [job EXCEPT ![p] = [NoJob EXCEPT !.pc = "load", !.today = day, !.delta = delta,
                                                   !.save = save, !.speed = speed]]
    PROVE  /\ job' \in [Processes -> Job]
           /\ job'[p].pc = "load" /\ job'[p].today = day /\ job'[p].delta = delta
           /\ job'[p].state = "keep" /\ job'[p].speed = speed
           /\ \A q \in Processes : q # p => job'[q] = job[q]
<1> DEFINE j == [NoJob EXCEPT !.pc = "load", !.today = day, !.delta = delta, !.save = save,
                              !.speed = speed]
<1>1. /\ j \in Job /\ j.pc = "load" /\ j.today = day /\ j.delta = delta
      /\ j.state = "keep" /\ j.speed = speed
  BY NoJobType DEF Types, Job
<1> HIDE DEF j
<1>2. job' = [job EXCEPT ![p] = j]
  BY DEF j
<1>3. QED
  BY <1>1, <1>2 DEF Types

\* An update that only shows what is counted, one that saves it, and one that adds to it.
LEMMA BegunToShow ==
    ASSUME Types, NEW p \in Processes, Begin(p, 0, FALSE, 0)
    PROVE  /\ job' \in [Processes -> Job]
           /\ job'[p].pc = "load" /\ job'[p].today = day /\ job'[p].delta = 0
           /\ \A q \in Processes : q # p => job'[q] = job[q]
<1>1. PICK d \in Nat, v \in Int : d = 0 /\ v = 0
  OBVIOUS
<1>2. job' = [job EXCEPT ![p] = [NoJob EXCEPT !.pc = "load", !.today = day, !.delta = d,
                                              !.save = FALSE, !.speed = v]]
  BY <1>1 DEF Begin
<1>3. QED
  BY <1>1, <1>2, BegunJob

LEMMA BegunToRefresh ==
    ASSUME Types, NEW p \in Processes, Begin(p, 0, TRUE, 0)
    PROVE  /\ job' \in [Processes -> Job]
           /\ job'[p].pc = "load" /\ job'[p].today = day /\ job'[p].delta = 0
           /\ job'[p].state = "keep" /\ job'[p].speed = 0
           /\ \A q \in Processes : q # p => job'[q] = job[q]
<1>1. PICK d \in Nat, v \in Int : d = 0 /\ v = 0
  OBVIOUS
<1>2. job' = [job EXCEPT ![p] = [NoJob EXCEPT !.pc = "load", !.today = day, !.delta = d,
                                              !.save = TRUE, !.speed = v]]
  BY <1>1 DEF Begin
<1>3. QED
  BY <1>1, <1>2, BegunJob

LEMMA BegunToSave ==
    ASSUME Types, NEW p \in Processes, NEW delta \in Nat, NEW speed \in Int,
           Begin(p, delta, TRUE, speed)
    PROVE  /\ job' \in [Processes -> Job]
           /\ job'[p].pc = "load" /\ job'[p].today = day /\ job'[p].delta = delta
           /\ \A q \in Processes : q # p => job'[q] = job[q]
<1>1. job' = [job EXCEPT ![p] = [NoJob EXCEPT !.pc = "load", !.today = day, !.delta = delta,
                                              !.save = TRUE, !.speed = speed]]
  BY DEF Begin
<1>2. QED
  BY <1>1, BegunJob

LEMMA BegunState ==
    ASSUME Types, NEW p \in Processes, NEW speed \in Int, NEW state \in {"keep", "idle", "connected"},
           BeginState(p, speed, state)
    PROVE  /\ job' \in [Processes -> Job] /\ job'[p].pc = "snap"
           /\ job'[p].speed = speed /\ job'[p].state = state
           /\ \A q \in Processes : q # p => job'[q] = job[q]
<1> DEFINE j == [NoJob EXCEPT !.pc = "snap", !.bytes = Keep, !.speed = speed, !.state = state]
<1>1. job' = [job EXCEPT ![p] = j]
  BY DEF BeginState
<1>2. j \in Job /\ j.pc = "snap" /\ j.speed = speed /\ j.state = state
  BY NoJobType, Constants DEF Job
<1> HIDE DEF j
<1>3. QED
  BY <1>1, <1>2 DEF Types

LEMMA DeltaType == Types => Delta \in Nat
BY DEF Types, File, Delta

\* What an update reads is in the file.
LEMMA TodayType ==
    ASSUME Types, NEW t \in Nat
    PROVE  /\ Today(t) \in Nat /\ Today(t) <= daily.bytes
           /\ daily.date = t => Today(t) = daily.bytes
BY DEF Types, Today

LEMMA LoadedDaily ==
    ASSUME Types, NEW p \in Processes, LoadDaily(p)
    PROVE  /\ job[p].pc = "load" /\ job' \in [Processes -> Job]
           /\ job'[p].pc \in {"save", "snap"} /\ job'[p].bytes = Today(job[p].today) + job[p].delta
           /\ job'[p].bytes \in Nat /\ job'[p].today = job[p].today
           /\ job'[p].speed = job[p].speed /\ job'[p].state = job[p].state
           /\ \A q \in Processes : q # p => job'[q] = job[q]
<1>1. job[p] \in Job /\ job \in [Processes -> Job]
  BY DEF Types
<1>2. Today(job[p].today) + job[p].delta \in Nat
  <2>1. job[p].today \in Nat /\ job[p].delta \in Nat
    BY <1>1 DEF Job
  <2>2. QED
    BY <2>1, TodayType
<1>3. PICK pc \in {"save", "snap"}, b \in Nat :
        /\ job' = [job EXCEPT ![p] = [job[p] EXCEPT !.pc = pc, !.bytes = b]]
        /\ b = Today(job[p].today) + job[p].delta
  BY <1>1, <1>2 DEF LoadDaily
<1>4. /\ [job[p] EXCEPT !.pc = pc, !.bytes = b] \in Job
      /\ [job[p] EXCEPT !.pc = pc, !.bytes = b].pc = pc
      /\ [job[p] EXCEPT !.pc = pc, !.bytes = b].bytes = b
      /\ [job[p] EXCEPT !.pc = pc, !.bytes = b].today = job[p].today
      /\ [job[p] EXCEPT !.pc = pc, !.bytes = b].speed = job[p].speed
      /\ [job[p] EXCEPT !.pc = pc, !.bytes = b].state = job[p].state
  <2>1. b \in Int /\ pc \in {"idle", "load", "save", "snap", "put"}
    BY <1>3
  <2>2. QED
    BY <1>1, <2>1 DEF Job
<1>5. job[p].pc = "load"
  BY DEF LoadDaily
<1>6. QED
  BY <1>1, <1>3, <1>4, <1>5

LEMMA SavedDaily ==
    ASSUME Types, NEW p \in Processes, SaveDaily(p)
    PROVE  /\ job[p].pc = "save" /\ job' \in [Processes -> Job] /\ job'[p].pc = "snap"
           /\ job'[p].speed = job[p].speed /\ job'[p].state = job[p].state
           /\ \A q \in Processes : q # p => job'[q] = job[q]
           /\ daily' = [date |-> job[p].today, bytes |-> job[p].bytes]
           /\ daily' \in [date : Nat, bytes : Nat]
           /\ daily'.date = job[p].today /\ daily'.bytes = job[p].bytes
<1>1. job[p] \in Job /\ job[p].pc = "save" /\ job[p].bytes \in Nat
  BY DEF Types, SaveDaily
<1>2. job' = [job EXCEPT ![p] = [job[p] EXCEPT !.pc = "snap"]]
  BY DEF SaveDaily, Types
<1>3. /\ [job[p] EXCEPT !.pc = "snap"] \in Job /\ [job[p] EXCEPT !.pc = "snap"].pc = "snap"
      /\ [job[p] EXCEPT !.pc = "snap"].speed = job[p].speed
      /\ [job[p] EXCEPT !.pc = "snap"].state = job[p].state
  BY <1>1 DEF Job
<1>4. job' \in [Processes -> Job] /\ job'[p].pc = "snap"
      /\ job'[p].speed = job[p].speed /\ job'[p].state = job[p].state
      /\ \A q \in Processes : q # p => job'[q] = job[q]
  BY <1>2, <1>3 DEF Types
<1>5. job[p].today \in Nat
  BY <1>1 DEF Job
<1>6. QED
  BY <1>1, <1>4, <1>5 DEF SaveDaily

LEMMA LoadedRuntime ==
    ASSUME Types, NEW p \in Processes, LoadRuntime(p)
    PROVE  /\ job' \in [Processes -> Job] /\ job'[p].pc = "put" /\ job'[p].snap = runtime
           /\ job'[p].speed = job[p].speed /\ job'[p].state = job[p].state
           /\ \A q \in Processes : q # p => job'[q] = job[q]
<1>1. job[p] \in Job /\ runtime \in Snapshot
  BY DEF Types
<1>2. job' = [job EXCEPT ![p] = [job[p] EXCEPT !.pc = "put", !.snap = runtime]]
  BY DEF LoadRuntime, Types
<1>3. /\ [job[p] EXCEPT !.pc = "put", !.snap = runtime] \in Job
      /\ [job[p] EXCEPT !.pc = "put", !.snap = runtime].pc = "put"
      /\ [job[p] EXCEPT !.pc = "put", !.snap = runtime].snap = runtime
      /\ [job[p] EXCEPT !.pc = "put", !.snap = runtime].speed = job[p].speed
      /\ [job[p] EXCEPT !.pc = "put", !.snap = runtime].state = job[p].state
  BY <1>1 DEF Job
<1>4. QED
  BY <1>2, <1>3 DEF Types

LEMMA SavedRuntime ==
    ASSUME Types, NEW p \in Processes, SaveRuntime(p)
    PROVE  /\ job' \in [Processes -> Job] /\ job'[p].pc = "idle" /\ runtime' \in Snapshot
           /\ runtime'.state = IF job[p].state = "keep" THEN job[p].snap.state ELSE job[p].state
           /\ runtime'.speed = IF job[p].speed = Keep THEN job[p].snap.speed ELSE job[p].speed
           /\ \A q \in Processes : q # p => job'[q] = job[q]
<1>1. job[p] \in Job /\ job' = [job EXCEPT ![p] = NoJob]
  BY DEF Types, SaveRuntime
<1>2. /\ job[p].snap \in Snapshot /\ job[p].speed \in Int /\ job[p].bytes \in Int
      /\ job[p].state \in {"keep", "idle", "connected"}
  BY <1>1 DEF Job
<1>3. /\ job[p].snap.state \in {"idle", "connected"} /\ job[p].snap.speed \in Int
      /\ job[p].snap.today \in Int
  BY <1>2 DEF Snapshot
<1>4. /\ runtime' \in Snapshot
      /\ runtime'.state = IF job[p].state = "keep" THEN job[p].snap.state ELSE job[p].state
      /\ runtime'.speed = IF job[p].speed = Keep THEN job[p].snap.speed ELSE job[p].speed
  BY <1>2, <1>3 DEF SaveRuntime, Snapshot
<1>5. QED
  BY <1>1, <1>4, NoJobType DEF Types

\* The writer's steps on the two files.
LEMMA Opened ==
    ASSUME Types, NEW w \in Writers, Open(w)
    PROVE  /\ writer[w].pc = "loop" /\ writer' \in [Writers -> Writer] /\ tmp' = Torn
           /\ writer'[w].pc = "open" /\ writer'[w].ready = writer[w].ready
           /\ writer'[w].data = [whole |-> TRUE, exists |-> TRUE, total |-> total]
           /\ \A x \in Writers : x # w => writer'[x] = writer[x]
<1> DEFINE d == [whole |-> TRUE, exists |-> TRUE, total |-> total]
<1>1. d \in File /\ writer[w] \in Writer
  BY DEF Types, File
<1>2. PICK f \in BOOLEAN : writer' = [writer EXCEPT
          ![w] = [@ EXCEPT !.pc = "open", !.final = f, !.data = d]]
  BY DEF Open
<1> HIDE DEF d
<1>3. /\ [writer[w] EXCEPT !.pc = "open", !.final = f, !.data = d] \in Writer
      /\ [writer[w] EXCEPT !.pc = "open", !.final = f, !.data = d].pc = "open"
      /\ [writer[w] EXCEPT !.pc = "open", !.final = f, !.data = d].data = d
      /\ [writer[w] EXCEPT !.pc = "open", !.final = f, !.data = d].ready = writer[w].ready
  BY <1>1, <1>2 DEF Writer
<1>4. QED
  BY <1>2, <1>3 DEF Types, Open, d

LEMMA Filled ==
    ASSUME Types, NEW w \in Writers, Fill(w)
    PROVE  /\ writer[w].pc = "open" /\ writer' \in [Writers -> Writer]
           /\ writer'[w].pc = "full" /\ writer'[w].ready = writer[w].ready
           /\ writer'[w].data = writer[w].data /\ writer[w].data \in File
           /\ \A x \in Writers : x # w => writer'[x] = writer[x]
<1>1. writer[w] \in Writer /\ writer' = [writer EXCEPT ![w] = [writer[w] EXCEPT !.pc = "full"]]
  BY DEF Types, Fill
<1>2. /\ [writer[w] EXCEPT !.pc = "full"] \in Writer
      /\ [writer[w] EXCEPT !.pc = "full"].pc = "full"
      /\ [writer[w] EXCEPT !.pc = "full"].data = writer[w].data
      /\ [writer[w] EXCEPT !.pc = "full"].ready = writer[w].ready
      /\ writer[w].data \in File
  BY <1>1 DEF Writer
<1>3. QED
  BY <1>1, <1>2 DEF Types, Fill

LEMMA Renamed ==
    ASSUME Types, NEW w \in Writers, Rename(w)
    PROVE  /\ writer[w].pc = "full" /\ writer' \in [Writers -> Writer]
           /\ writer'[w].pc \in {"done", "loop"} /\ writer'[w].ready = TRUE
           /\ \A x \in Writers : x # w => writer'[x] = writer[x]
<1>1. PICK pc \in {"done", "loop"} :
        writer' = [writer EXCEPT ![w] = [writer[w] EXCEPT !.pc = pc, !.ready = TRUE]]
  BY DEF Types, Rename
<1>2. /\ [writer[w] EXCEPT !.pc = pc, !.ready = TRUE] \in Writer
      /\ [writer[w] EXCEPT !.pc = pc, !.ready = TRUE].pc = pc
      /\ [writer[w] EXCEPT !.pc = pc, !.ready = TRUE].ready = TRUE
  BY <1>1 DEF Types, Writer
<1>3. QED
  BY <1>1, <1>2 DEF Types, Rename

LEMMA OldStopped ==
    ASSUME Types, StopOldWriter
    PROVE  /\ writer' \in [Writers -> Writer]
           /\ \A w \in Writers : /\ writer'[w].pc = writer[w].pc
                                 /\ writer'[w].data = writer[w].data
                                 /\ writer'[w].ready = writer[w].ready
<1>1. CASE made > 0
  <2>1. made \in Writers /\ writer[made] \in Writer
    BY <1>1, Constants DEF Types, Writers
  <2>2. writer' = [writer EXCEPT ![made] = [writer[made] EXCEPT !.stop = TRUE]]
    BY <1>1, <2>1 DEF StopOldWriter, Types
  <2>3. /\ [writer[made] EXCEPT !.stop = TRUE] \in Writer
        /\ [writer[made] EXCEPT !.stop = TRUE].pc = writer[made].pc
        /\ [writer[made] EXCEPT !.stop = TRUE].data = writer[made].data
        /\ [writer[made] EXCEPT !.stop = TRUE].ready = writer[made].ready
    BY <2>1 DEF Writer
  <2>4. QED
    BY <2>1, <2>2, <2>3 DEF Types
<1>2. CASE ~(made > 0)
  BY <1>2 DEF StopOldWriter, Types
<1>3. QED
  BY <1>1, <1>2

-----------------------------------------------------------------------------
(* What the steps leave alone *)

\* The writers and the totals stay.
LEMMA PublishedStays ==
    ASSUME Types, Published, UNCHANGED <<last, total, tmp, stats, made>>,
           session' = "on" => session = "on",
           \A w \in Writers : /\ writer'[w].pc = writer[w].pc
                              /\ writer'[w].data = writer[w].data
                              /\ writer'[w].ready = writer[w].ready
    PROVE  Published'
<1>1. \A w \in Writers : Writes(w)' <=> Writes(w)
  BY DEF Writes
<1>2. session = "on" => made \in Writers
  BY Constants DEF Types, Writers
<1>3. \A w \in Writers : /\ writer'[w].pc = "open" => tmp' = Torn
                         /\ writer'[w].pc = "full" => tmp' = writer'[w].data
                         /\ Writes(w)' => /\ writer'[w].data.whole = TRUE
                                          /\ writer'[w].data.exists = TRUE
                                          /\ last' <= writer'[w].data.total
                                          /\ writer'[w].data.total <= total'
  BY <1>1 DEF Published
<1>4. \A w \in Writers : writer'[w].ready = TRUE /\ stats'.whole = TRUE =>
        /\ last' <= stats'.total /\ stats'.total <= total'
        /\ \A x \in Writers : Writes(x)' => stats'.total <= writer'[x].data.total
  BY <1>1 DEF Published
<1>5. session' = "on" => writer'[made'].ready = TRUE
  BY <1>2 DEF Published
<1>6. \A w \in Writers : writer'[w].pc \notin {"none", "done"} => w = made'
  BY DEF Published
<1>7. last' <= total'
  BY DEF Published
<1>8. QED
  BY <1>3, <1>4, <1>5, <1>6, <1>7 DEF Published

LEMMA StillFits ==
    ASSUME NEW x \in Int, NEW n \in Int, NEW n1 \in Int, NEW k \in Int, NEW k1 \in Int,
           x + n <= k, k1 - n1 >= k - n
    PROVE  x + n1 <= k1
OBVIOUS

\* The daily file stays: the page begins or leaves an update that adds nothing, the extension
\* one of what it has sampled since.
LEMMA CoveredStays ==
    ASSUME Types, Types', Covered, daily' = daily, NEW d \in Nat, Counted' >= Counted + d,
           \/ job'["page"] = job["page"]
           \/ job'["page"].pc \notin {"load", "save"}
           \/ job'["page"].pc = "load" /\ job'["page"].delta = 0,
           \/ job'["extension"] = job["extension"]
           \/ job'["extension"].pc \notin {"load", "save"}
           \/ job'["extension"].pc = "load" /\ job'["extension"].delta = d /\ job["extension"].pc # "load"
    PROVE  Covered'
<1>1. /\ daily.bytes \in Nat /\ Counted \in Int /\ Counted' \in Int
      /\ job["page"] \in Job /\ job["extension"] \in Job
  BY DEF Types, Counted, Processes
<1>2. /\ job["page"].pc = "save" => job["page"].bytes \in Nat
      /\ job["extension"].pc = "save" => job["extension"].bytes \in Nat
      /\ job["extension"].delta \in Nat
  BY <1>1 DEF Types, Processes, Job
<1>3. PICK n \in Nat, n1 \in Nat, k \in Int, k1 \in Int :
        n = Pending /\ n1 = Pending' /\ k = Counted /\ k1 = Counted'
  BY <1>1, <1>2 DEF Pending
<1>9. k1 - n1 >= k - n /\ k1 >= k
  BY <1>1, <1>2, <1>3 DEF Pending
<1>10. /\ daily.bytes + n <= k
       /\ job["page"].pc = "save" => job["page"].bytes + n <= k
       /\ job["extension"].pc = "save" => job["extension"].bytes <= k
  BY <1>3 DEF Covered
<1>4. daily'.bytes + Pending' <= Counted'
  <2>1. daily.bytes + n1 <= k1
    BY <1>1, <1>9, <1>10, StillFits
  <2>2. QED
    BY <2>1, <1>3
<1>5. job'["page"].pc = "save" => job'["page"].bytes + Pending' <= Counted'
  <2>1. job["page"].pc = "save" => job["page"].bytes + n1 <= k1
    BY <1>2, <1>9, <1>10, StillFits
  <2>2. job'["page"].pc = "save" => job'["page"] = job["page"]
    OBVIOUS
  <2>3. QED
    BY <2>1, <2>2, <1>3
<1>6. job'["extension"].pc = "save" => job'["extension"].bytes <= Counted'
  <2>1. job["extension"].pc = "save" => job["extension"].bytes <= k1
    BY <1>2, <1>3, <1>9, <1>10
  <2>2. job'["extension"].pc = "save" => job'["extension"] = job["extension"]
    OBVIOUS
  <2>3. QED
    BY <2>1, <2>2, <1>3
<1>7. job'["page"].pc = "load" => job'["page"].delta = 0
  BY DEF Covered
<1>8. QED
  BY <1>4, <1>5, <1>6, <1>7 DEF Covered

\* The daily file stays, and an update that begins has today's date.
LEMMA DatedStays ==
    ASSUME Types, Dated, daily' = daily, day' \in Nat, day' >= day,
           \A p \in Processes :
               \/ job'[p] = job[p] /\ (outdated'[p] = FALSE => outdated[p] = FALSE)
               \/ job'[p].pc \notin {"load", "save"}
               \/ job'[p].pc = "load" /\ job'[p].today = day
    PROVE  Dated'
<1>1. daily.date \in Nat /\ day \in Nat /\ \A p \in Processes : job[p].today \in Nat
  BY DEF Types, Job
<1>2. daily'.date <= day'
  BY <1>1 DEF Dated
<1>3. \A p \in Processes : job'[p].pc \in {"load", "save"} =>
        /\ job'[p].today <= day'
        /\ outdated'[p] = FALSE => daily'.date <= job'[p].today
  BY <1>1 DEF Dated
<1>4. \A p \in Processes :
        job'[p].pc = "save" /\ outdated'[p] = FALSE /\ daily'.date = job'[p].today =>
            daily'.bytes <= job'[p].bytes
  BY DEF Dated
<1>5. QED
  BY <1>2, <1>3, <1>4 DEF Dated

LEMMA DatedUnchanged ==
    ASSUME Dated, UNCHANGED <<daily, day, job, outdated>>
    PROVE  Dated'
BY DEF Dated

\* Nothing a session, an update or a sample reads changes but what is named.
LEMMA Combine ==
    ASSUME Types', Dated', timedOut' = FALSE => Published' /\ Covered'
    PROVE  StatsInv'
BY DEF StatsInv

-----------------------------------------------------------------------------
(* The steps *)

LEMMA InitStats == Init => StatsInv
<1> SUFFICES ASSUME Init PROVE StatsInv
  OBVIOUS
<1>1. /\ NoFile \in File /\ NoFile.whole = FALSE /\ NoWriter \in Writer /\ NoWriter.pc = "none"
      /\ NoWriter.ready = FALSE /\ NoJob \in Job /\ NoJob.pc = "idle"
  BY NoFileType, NoWriterType, NoJobType
<1>2. runtime \in Snapshot
  BY DEF Init, Snapshot
<1>3. Types
  <2>1. /\ timedOut \in BOOLEAN /\ outdated \in [Processes -> BOOLEAN]
        /\ job \in [Processes -> Job] /\ \A p \in Processes : job[p].pc = "idle"
    BY <1>1 DEF Init
  <2>2. writer \in [Writers -> Writer] /\ tmp \in File /\ stats \in File
    BY <1>1 DEF Init
  <2>3. QED
    BY <1>2, <2>1, <2>2, Constants DEF Init, Types
<1>4. \A w \in Writers : writer[w].pc = "none" /\ writer[w].ready = FALSE
  BY <1>1 DEF Init
<1>5. Published
  BY <1>4 DEF Init, Published, Writes
<1>6. job["page"].pc = "idle" /\ job["extension"].pc = "idle"
  BY <1>1 DEF Init, Processes
<1>7. Covered
  BY <1>6 DEF Init, Covered, Pending, Counted
<1>8. Dated
  BY <1>1 DEF Init, Dated
<1>9. QED
  BY <1>3, <1>5, <1>7, <1>8 DEF StatsInv

\* Traffic moves: what is not sampled grows.
LEMMA PushUploadedStats ==
    ASSUME StatsInv, PushUploaded
    PROVE  StatsInv'
<1>1. /\ total' = total + 1 /\ moved' = moved + 1
      /\ UNCHANGED <<day, made, writer, tmp, stats, session, last, job, daily, runtime, timedOut,
                     outdated>>
  BY DEF PushUploaded, writing, sampling, files
<1>2. Types'
  BY <1>1 DEF StatsInv, Types
<1>3. Dated'
  BY <1>1, DatedUnchanged DEF StatsInv
<1>4. ASSUME timedOut' = FALSE PROVE Published' /\ Covered'
  <2>1. Published /\ Covered
    BY <1>1, <1>4 DEF StatsInv
  <2>2. last \in Nat /\ total \in Nat /\ stats.total \in Nat
        /\ \A w \in Writers : writer[w].data.total \in Nat
    BY DEF StatsInv, Types, Writer, File
  <2>3. Published'
    BY <1>1, <2>1, <2>2 DEF Published, Writes
  <2>4. Counted' = Counted
    BY <1>1 DEF Counted, StatsInv, Types
  <2>5. Covered'
    BY <1>1, <2>1, <2>4 DEF Covered, Pending
  <2>6. QED
    BY <2>3, <2>5
<1>5. QED
  BY <1>2, <1>3, <1>4, Combine

LEMMA OpenStats ==
    ASSUME StatsInv, NEW w \in Writers, Open(w)
    PROVE  StatsInv'
<1>1. UNCHANGED <<total, day, made, stats, session, last, job, daily, runtime, moved, timedOut, outdated>>
  BY DEF Open, core, sampling, files, history
<1>2. /\ writer[w].pc = "loop" /\ writer' \in [Writers -> Writer] /\ tmp' = Torn
      /\ writer'[w].pc = "open" /\ writer'[w].ready = writer[w].ready
      /\ writer'[w].data = [whole |-> TRUE, exists |-> TRUE, total |-> total]
      /\ \A x \in Writers : x # w => writer'[x] = writer[x]
  BY Opened DEF StatsInv
<1>3. Types'
  BY <1>1, <1>2, TornType DEF StatsInv, Types
<1>4. Dated'
  BY <1>1, DatedUnchanged DEF StatsInv
<1>5. ASSUME timedOut' = FALSE PROVE Published' /\ Covered'
  <2>1. Published /\ Covered
    BY <1>1, <1>5 DEF StatsInv
  <2>2. /\ last \in Nat /\ total \in Nat /\ stats.total \in Nat
        /\ writer'[w].data.total = total /\ writer'[w].data.whole = TRUE
        /\ writer'[w].data.exists = TRUE
    BY <1>2 DEF StatsInv, Types, File
  <2>3. \A x \in Writers : x # w => writer[x].pc \in {"none", "done"}
    BY <1>2, <2>1 DEF Published
  <2>4. \A x \in Writers : Writes(x)' => x = w
    BY <1>2, <2>3 DEF Writes
  <2>5. \A x \in Writers : writer'[x].pc \notin {"none", "done"} => x = made'
    BY <1>1, <1>2, <2>1, <2>3 DEF Published
  <2>6. \A x \in Writers : /\ writer'[x].pc = "open" => tmp' = Torn
                           /\ writer'[x].pc = "full" => tmp' = writer'[x].data
                           /\ Writes(x)' => /\ writer'[x].data.whole = TRUE
                                            /\ writer'[x].data.exists = TRUE
                                            /\ last' <= writer'[x].data.total
                                            /\ writer'[x].data.total <= total'
    BY <1>1, <1>2, <2>1, <2>2, <2>3, <2>4 DEF Published
  <2>7. \A x \in Writers : writer'[x].ready = TRUE /\ stats'.whole = TRUE =>
          /\ last' <= stats'.total /\ stats'.total <= total'
          /\ \A y \in Writers : Writes(y)' => stats'.total <= writer'[y].data.total
    <3> SUFFICES ASSUME NEW x \in Writers, writer'[x].ready = TRUE, stats'.whole = TRUE
                 PROVE  /\ last' <= stats'.total /\ stats'.total <= total'
                        /\ \A y \in Writers : Writes(y)' => stats'.total <= writer'[y].data.total
      OBVIOUS
    <3>1. writer[x].ready = TRUE /\ stats.whole = TRUE
      BY <1>1, <1>2
    <3>2. last <= stats.total /\ stats.total <= total
      BY <3>1, <2>1 DEF Published
    <3>3. QED
      BY <3>2, <1>1, <2>2, <2>4
  <2>8. session' = "on" => writer'[made'].ready = TRUE
    <3>1. session = "on" => made \in Writers
      BY Constants DEF StatsInv, Types, Writers
    <3>2. QED
      BY <3>1, <1>1, <1>2, <2>1 DEF Published
  <2>9. last' <= total'
    BY <1>1, <2>1 DEF Published
  <2>10. Published'
    BY <2>5, <2>6, <2>7, <2>8, <2>9 DEF Published
  <2>11. Covered'
    BY <1>1, <2>1 DEF Covered, Pending, Counted
  <2>12. QED
    BY <2>10, <2>11
<1>6. QED
  BY <1>3, <1>4, <1>5, Combine

LEMMA FillStats ==
    ASSUME StatsInv, NEW w \in Writers, Fill(w)
    PROVE  StatsInv'
<1>1. UNCHANGED <<total, day, made, session, last, job, daily, runtime, moved, timedOut, outdated>>
  BY DEF Fill, core, sampling, files, history
<1>2. /\ writer[w].pc = "open" /\ writer' \in [Writers -> Writer]
      /\ writer'[w].pc = "full" /\ writer'[w].ready = writer[w].ready
      /\ writer'[w].data = writer[w].data /\ writer[w].data \in File
      /\ \A x \in Writers : x # w => writer'[x] = writer[x]
  BY Filled DEF StatsInv
<1>3. Types'
  <2>1. tmp' \in File /\ stats' \in File
    BY <1>2 DEF Fill, StatsInv, Types
  <2>2. QED
    BY <1>1, <1>2, <2>1 DEF StatsInv, Types
<1>4. Dated'
  BY <1>1, DatedUnchanged DEF StatsInv
<1>5. ASSUME timedOut' = FALSE PROVE Published' /\ Covered'
  <2>1. Published /\ Covered
    BY <1>1, <1>5 DEF StatsInv
  <2>2. tmp # NoFile
    <3>1. tmp = Torn
      BY <1>2, <2>1 DEF Published
    <3>2. QED
      BY <3>1, TornType, NoFileType
  <2>3. tmp' = writer[w].data /\ stats' = stats
    BY <2>2 DEF Fill
  <2>4. \A x \in Writers : x # w => writer[x].pc \in {"none", "done"}
    BY <1>2, <2>1 DEF Published
  <2>5. \A x \in Writers : Writes(x)' => x = w
    BY <1>2, <2>4 DEF Writes
  <2>6. Writes(w)
    BY <1>2 DEF Writes
  <2>7. \A x \in Writers : writer'[x].pc \notin {"none", "done"} => x = made'
    BY <1>1, <1>2, <2>1, <2>4 DEF Published
  <2>8. \A x \in Writers : /\ writer'[x].pc = "open" => tmp' = Torn
                           /\ writer'[x].pc = "full" => tmp' = writer'[x].data
                           /\ Writes(x)' => /\ writer'[x].data.whole = TRUE
                                            /\ writer'[x].data.exists = TRUE
                                            /\ last' <= writer'[x].data.total
                                            /\ writer'[x].data.total <= total'
    BY <1>1, <1>2, <2>1, <2>3, <2>4, <2>5, <2>6 DEF Published
  <2>9. \A x \in Writers : writer'[x].ready = TRUE /\ stats'.whole = TRUE =>
          /\ last' <= stats'.total /\ stats'.total <= total'
          /\ \A y \in Writers : Writes(y)' => stats'.total <= writer'[y].data.total
    <3> SUFFICES ASSUME NEW x \in Writers, writer'[x].ready = TRUE, stats'.whole = TRUE
                 PROVE  /\ last' <= stats'.total /\ stats'.total <= total'
                        /\ \A y \in Writers : Writes(y)' => stats'.total <= writer'[y].data.total
      OBVIOUS
    <3>1. writer[x].ready = TRUE /\ stats.whole = TRUE
      BY <1>2, <2>3
    <3>2. /\ last <= stats.total /\ stats.total <= total
          /\ stats.total <= writer[w].data.total
      BY <3>1, <2>1, <2>6 DEF Published
    <3>3. QED
      BY <3>2, <1>1, <1>2, <2>3, <2>5
  <2>10. session' = "on" => writer'[made'].ready = TRUE
    <3>1. session = "on" => made \in Writers
      BY Constants DEF StatsInv, Types, Writers
    <3>2. QED
      BY <3>1, <1>1, <1>2, <2>1 DEF Published
  <2>11. last' <= total'
    BY <1>1, <2>1 DEF Published
  <2>12. Published'
    BY <2>7, <2>8, <2>9, <2>10, <2>11 DEF Published
  <2>13. Covered'
    BY <1>1, <2>1 DEF Covered, Pending, Counted
  <2>14. QED
    BY <2>12, <2>13
<1>6. QED
  BY <1>3, <1>4, <1>5, Combine

\* What is published is a total of this process, no older than the baseline.
LEMMA RenameStats ==
    ASSUME StatsInv, NEW w \in Writers, Rename(w)
    PROVE  StatsInv'
<1>1. UNCHANGED <<total, day, made, session, last, job, daily, runtime, moved, timedOut, outdated>>
  BY DEF Rename, core, sampling, files, history
<1>2. /\ writer[w].pc = "full" /\ writer' \in [Writers -> Writer]
      /\ writer'[w].pc \in {"done", "loop"} /\ writer'[w].ready = TRUE
      /\ \A x \in Writers : x # w => writer'[x] = writer[x]
  BY Renamed DEF StatsInv
<1>3. Types'
  <2>1. tmp' \in File /\ stats' \in File
    BY NoFileType DEF Rename, StatsInv, Types
  <2>2. QED
    BY <1>1, <1>2, <2>1 DEF StatsInv, Types
<1>4. Dated'
  BY <1>1, DatedUnchanged DEF StatsInv
<1>5. ASSUME timedOut' = FALSE PROVE Published' /\ Covered'
  <2>1. Published /\ Covered
    BY <1>1, <1>5 DEF StatsInv
  <2>2. /\ tmp = writer[w].data /\ tmp.whole = TRUE
        /\ last <= tmp.total /\ tmp.total <= total
    BY <1>2, <2>1 DEF Published, Writes
  <2>3. tmp # NoFile
    BY <2>2, NoFileType
  <2>4. stats' = tmp
    BY <2>3 DEF Rename
  <2>5. \A x \in Writers : x # w => writer[x].pc \in {"none", "done"}
    BY <1>2, <2>1 DEF Published
  <2>6. \A x \in Writers : writer'[x].pc \notin {"open", "full"} /\ ~Writes(x)'
    BY <1>2, <2>5 DEF Writes
  <2>7. \A x \in Writers : writer'[x].pc \notin {"none", "done"} => x = made'
    BY <1>1, <1>2, <2>1, <2>5 DEF Published
  <2>8. last' <= stats'.total /\ stats'.total <= total'
    BY <1>1, <2>2, <2>4
  <2>9. session' = "on" => writer'[made'].ready = TRUE
    <3>1. session = "on" => made \in Writers
      BY Constants DEF StatsInv, Types, Writers
    <3>2. QED
      BY <3>1, <1>1, <1>2, <2>1 DEF Published
  <2>10. last' <= total'
    BY <1>1, <2>1 DEF Published
  <2>11. Published'
    BY <2>6, <2>7, <2>8, <2>9, <2>10 DEF Published
  <2>12. Covered'
    BY <1>1, <2>1 DEF Covered, Pending, Counted
  <2>13. QED
    BY <2>11, <2>12
<1>6. QED
  BY <1>3, <1>4, <1>5, Combine

\* The daily file is read: what the extension adds is on its way.
LEMMA LoadDailyStats ==
    ASSUME StatsInv, NEW p \in Processes, LoadDaily(p)
    PROVE  StatsInv'
<1>1. UNCHANGED <<total, day, made, writer, tmp, stats, session, last, daily, runtime, moved, timedOut,
                  outdated>>
  BY DEF LoadDaily, core, writing, sampling, files, history
<1>2. /\ job[p].pc = "load" /\ job' \in [Processes -> Job]
      /\ job'[p].pc \in {"save", "snap"} /\ job'[p].bytes = Today(job[p].today) + job[p].delta
      /\ job'[p].bytes \in Nat /\ job'[p].today = job[p].today
      /\ \A q \in Processes : q # p => job'[q] = job[q]
  BY LoadedDaily DEF StatsInv
<1>3. job[p].today \in Nat /\ job[p].delta \in Nat /\ daily.bytes \in Nat
  BY DEF StatsInv, Types, Job
<1>4. PICK t \in Nat : /\ t = Today(job[p].today) /\ t <= daily.bytes
                       /\ daily.date = job[p].today => t = daily.bytes
  BY <1>3, TodayType DEF StatsInv
<1>5. Types'
  <2>1. session \in {"replacing", "writing"} => job'["extension"].pc = "idle"
    BY <1>2 DEF StatsInv, Types, Processes
  <2>2. QED
    BY <1>1, <1>2, <2>1 DEF StatsInv, Types
<1>6. Dated'
  <2>1. /\ job[p].today <= day
        /\ outdated[p] = FALSE => daily.date <= job[p].today
        /\ daily.date = job[p].today => daily.bytes <= job'[p].bytes
    BY <1>2, <1>3, <1>4 DEF StatsInv, Dated
  <2>2. QED
    BY <1>1, <1>2, <2>1 DEF StatsInv, Dated
<1>7. ASSUME timedOut' = FALSE PROVE Published' /\ Covered'
  <2>1. Published /\ Covered
    BY <1>1, <1>7 DEF StatsInv
  <2>2. Published'
    BY <1>1, <2>1, PublishedStays DEF StatsInv
  <2>3. Counted' = Counted /\ Counted \in Int
    BY <1>1 DEF Counted, StatsInv, Types
  <2>4. CASE p = "page"
    <3>1. job'["extension"] = job["extension"] /\ job["page"].delta = 0
      BY <1>2, <2>1, <2>4 DEF Covered, Processes
    <3>2. job'["page"].bytes <= daily.bytes /\ Pending' = Pending /\ Pending \in Nat
      BY <1>2, <1>3, <1>4, <2>4, <3>1 DEF Pending, StatsInv, Types, Processes, Job
    <3>3. PICK n \in Nat, k \in Int : n = Pending /\ k = Counted
      BY <2>3, <3>2
    <3>4. daily.bytes + n <= k /\ job'["page"].bytes + n <= k
      <4>1. daily.bytes + n <= k
        BY <2>1, <3>3 DEF Covered
      <4>2. job'["page"].bytes \in Nat
        BY <1>2, <2>4
      <4>3. QED
        BY <1>3, <3>2, <4>1, <4>2
    <3>5. job["extension"].pc = "save" => job["extension"].bytes <= Counted
      BY <2>1 DEF Covered
    <3>6. QED
      BY <1>1, <1>2, <2>2, <2>3, <2>4, <3>1, <3>2, <3>3, <3>4, <3>5 DEF Covered
  <2>5. CASE p = "extension"
    <3>1. job'["page"] = job["page"] /\ Pending = job["extension"].delta /\ Pending' = 0
      BY <1>2, <2>5 DEF Pending, Processes
    <3>2. PICK n \in Nat, k \in Int : n = Pending /\ k = Counted
      BY <1>3, <2>3, <2>5, <3>1
    <3>3. /\ daily.bytes + n <= k
          /\ job["page"].pc = "save" => job["page"].bytes \in Nat /\ job["page"].bytes + n <= k
          /\ job["page"].pc = "load" => job["page"].delta = 0
      BY <2>1, <3>2 DEF Covered, StatsInv, Types, Processes
    <3>4. job'["extension"].bytes = t + n
      BY <1>2, <1>4, <2>5, <3>1, <3>2
    <3>5. /\ daily.bytes <= k /\ t + n <= k
          /\ job["page"].pc = "save" => job["page"].bytes <= k
      BY <1>3, <1>4, <3>2, <3>3
    <3>6. daily'.bytes + Pending' <= Counted'
      BY <1>1, <1>3, <2>3, <3>1, <3>2, <3>5
    <3>7. job'["page"].pc = "save" => job'["page"].bytes + Pending' <= Counted'
      BY <2>3, <3>1, <3>2, <3>3, <3>5
    <3>8. job'["extension"].bytes <= Counted'
      BY <2>3, <3>2, <3>4, <3>5
    <3>9. QED
      BY <2>2, <3>1, <3>3, <3>6, <3>7, <3>8 DEF Covered
  <2>6. QED
    BY <2>4, <2>5 DEF Processes
<1>8. QED
  BY <1>5, <1>6, <1>7, Combine

\* The daily file is replaced: the other process, if it has read or dated it, is outdated.
LEMMA SaveDailyStats ==
    ASSUME StatsInv, NEW p \in Processes, SaveDaily(p)
    PROVE  StatsInv'
<1>1. UNCHANGED <<total, day, made, writer, tmp, stats, session, last, runtime, moved, timedOut>>
  BY DEF SaveDaily, core, writing, sampling
<1>2. /\ job[p].pc = "save" /\ job' \in [Processes -> Job] /\ job'[p].pc = "snap"
      /\ \A q \in Processes : q # p => job'[q] = job[q]
      /\ daily' \in [date : Nat, bytes : Nat]
      /\ daily'.date = job[p].today /\ daily'.bytes = job[p].bytes
  BY SavedDaily DEF StatsInv
<1>3. /\ outdated' \in [Processes -> BOOLEAN]
      /\ \A q \in Processes : q # p /\ job[q].pc \in {"load", "save"} => outdated'[q] = TRUE
  <2>1. outdated' = [q \in Processes |-> q # p /\ (outdated[q] \/ job[q].pc \in {"load", "save"})]
    BY DEF SaveDaily
  <2>2. QED
    BY <2>1, Zenon
<1>4. Types'
  <2>1. session \in {"replacing", "writing"} => job'["extension"].pc = "idle"
    BY <1>2 DEF StatsInv, Types, Processes
  <2>2. QED
    BY <1>1, <1>2, <1>3, <2>1 DEF StatsInv, Types
<1>5. Dated'
  <2>1. job[p].today <= day
    BY <1>2 DEF StatsInv, Dated
  <2>2. \A q \in Processes : job'[q].pc \in {"load", "save"} =>
          job'[q] = job[q] /\ outdated'[q] = TRUE
    BY <1>2, <1>3
  <2>3. \A q \in Processes : job'[q].pc \in {"load", "save"} => job'[q].today <= day
    BY <2>2 DEF StatsInv, Dated
  <2>4. QED
    BY <1>1, <1>2, <2>1, <2>2, <2>3 DEF Dated
<1>6. ASSUME timedOut' = FALSE PROVE Published' /\ Covered'
  <2>1. Published /\ Covered
    BY <1>1, <1>6 DEF StatsInv
  <2>2. Published'
    BY <1>1, <2>1, PublishedStays DEF StatsInv
  <2>3. Counted' = Counted /\ Counted \in Int
    BY <1>1 DEF Counted, StatsInv, Types
  <2>4. CASE p = "page"
    <3>1. job'["extension"] = job["extension"] /\ Pending' = Pending
      BY <1>2, <2>4 DEF Pending, Processes
    <3>2. QED
      BY <1>2, <2>1, <2>2, <2>3, <2>4, <3>1 DEF Covered
  <2>5. CASE p = "extension"
    <3>1. job'["page"] = job["page"] /\ Pending' = 0 /\ Pending = 0
      BY <1>2, <2>5 DEF Pending, Processes
    <3>2. job["extension"].bytes \in Nat
      BY <1>2, <2>5 DEF StatsInv, Types
    <3>3. daily'.bytes + Pending' <= Counted'
      BY <1>2, <2>1, <2>3, <2>5, <3>1, <3>2 DEF Covered
    <3>4. QED
      BY <1>2, <2>1, <2>2, <2>3, <2>5, <3>1, <3>3 DEF Covered
  <2>6. QED
    BY <2>4, <2>5 DEF Processes
<1>7. QED
  BY <1>4, <1>5, <1>6, Combine

\* An update of the snapshot, or one that begins and adds nothing.
LEMMA JobStats ==
    ASSUME StatsInv, NEW p \in Processes, Types',
           UNCHANGED <<total, day, last, daily, moved, timedOut>>,
           timedOut = FALSE => Published',
           \/ job'[p] = job[p]
           \/ job'[p].pc \notin {"load", "save"}
           \/ job'[p].pc = "load" /\ job'[p].today = day /\ job'[p].delta = 0 /\ job[p].pc = "idle",
           \A q \in Processes : q # p => job'[q] = job[q],
           \A q \in Processes : q # p => (outdated'[q] = FALSE => outdated[q] = FALSE),
           job'[p] = job[p] => (outdated'[p] = FALSE => outdated[p] = FALSE)
    PROVE  StatsInv'
<1>1. Dated'
  <2>1. day' \in Nat /\ day' >= day
    BY DEF StatsInv, Types
  <2>2. \A q \in Processes :
          \/ job'[q] = job[q] /\ (outdated'[q] = FALSE => outdated[q] = FALSE)
          \/ job'[q].pc \notin {"load", "save"}
          \/ job'[q].pc = "load" /\ job'[q].today = day
    OBVIOUS
  <2>3. QED
    BY <2>1, <2>2, DatedStays DEF StatsInv
<1>2. ASSUME timedOut' = FALSE PROVE Published' /\ Covered'
  <2>1. Covered
    BY <1>2 DEF StatsInv
  <2>2. Counted' >= Counted + 0
    BY DEF Counted, StatsInv, Types
  <2>3. /\ \/ job'["page"] = job["page"]
           \/ job'["page"].pc \notin {"load", "save"}
           \/ job'["page"].pc = "load" /\ job'["page"].delta = 0
        /\ \/ job'["extension"] = job["extension"]
           \/ job'["extension"].pc \notin {"load", "save"}
           \/ /\ job'["extension"].pc = "load" /\ job'["extension"].delta = 0
              /\ job["extension"].pc # "load"
    BY DEF Processes
  <2>4. Covered'
    BY <2>1, <2>2, <2>3, CoveredStays DEF StatsInv
  <2>5. QED
    BY <1>2, <2>4
<1>3. QED
  BY <1>1, <1>2, Combine

LEMMA RuntimeStats ==
    ASSUME StatsInv, NEW p \in Processes, LoadRuntime(p) \/ SaveRuntime(p)
    PROVE  StatsInv'
<1>1. UNCHANGED <<total, day, made, writer, tmp, stats, session, last, daily, moved, timedOut>>
  BY DEF LoadRuntime, SaveRuntime, core, writing, sampling, files
<1>2. /\ job' \in [Processes -> Job] /\ job'[p].pc \in {"put", "idle"} /\ runtime' \in Snapshot
      /\ \A q \in Processes : q # p => job'[q] = job[q]
  <2>1. CASE LoadRuntime(p)
    <3>1. runtime' = runtime
      BY <2>1 DEF LoadRuntime, files
    <3>2. QED
      BY <2>1, <3>1, LoadedRuntime DEF StatsInv, Types
  <2>2. CASE SaveRuntime(p)
    BY <2>2, SavedRuntime DEF StatsInv
  <2>3. QED
    BY <2>1, <2>2
<1>3. /\ outdated' \in [Processes -> BOOLEAN]
      /\ \A q \in Processes : q # p => (outdated'[q] = FALSE => outdated[q] = FALSE)
  <2>1. outdated \in [Processes -> BOOLEAN]
    BY DEF StatsInv, Types
  <2>2. CASE outdated' = [outdated EXCEPT ![p] = FALSE]
    BY <2>1, <2>2
  <2>3. CASE outdated' = [q \in Processes |-> q # p /\ (outdated[q] \/ job[q].pc = "put")]
    <3>1. outdated' \in [Processes -> BOOLEAN]
      BY <2>3, Zenon
    <3>2. ASSUME NEW q \in Processes, q # p, outdated'[q] = FALSE PROVE outdated[q] = FALSE
      <4>1. ~(outdated[q] \/ job[q].pc = "put")
        BY <2>3, <3>2, Zenon
      <4>2. outdated[q] \in BOOLEAN
        BY <2>1
      <4>3. QED
        BY <4>1, <4>2, Zenon
    <3>3. QED
      BY <3>1, <3>2
  <2>4. QED
    BY <2>2, <2>3 DEF LoadRuntime, SaveRuntime
<1>4. Types'
  <2>1. job[p].pc # "idle"
    BY DEF LoadRuntime, SaveRuntime
  <2>2. session \in {"replacing", "writing"} => job'["extension"].pc = "idle"
    BY <1>2, <2>1 DEF StatsInv, Types, Processes
  <2>3. QED
    BY <1>1, <1>2, <1>3, <2>2 DEF StatsInv, Types
<1>5. timedOut = FALSE => Published'
  BY <1>1, PublishedStays DEF StatsInv
<1>6. job[p].pc # job'[p].pc
  <2>1. job[p].pc \in {"snap", "put"} /\ (job[p].pc = "put" => job'[p].pc = "idle")
    BY SavedRuntime DEF LoadRuntime, SaveRuntime, StatsInv
  <2>2. QED
    BY <1>2, <2>1
<1>7. QED
  BY <1>1, <1>2, <1>3, <1>4, <1>5, <1>6, JobStats

\* The snapshot is told that a session begins or has ended.
LEMMA StateStats ==
    ASSUME StatsInv, Connect \/ Disconnect
    PROVE  StatsInv'
<1>1. UNCHANGED <<total, day, made, writer, tmp, stats, last, daily, runtime, moved, timedOut, outdated>>
  BY DEF Connect, Disconnect, core, writing, files, history
<1>2. /\ job' \in [Processes -> Job] /\ job'["extension"].pc = "snap"
      /\ \A q \in Processes : q # "extension" => job'[q] = job[q]
  BY BegunState, Constants DEF Connect, Disconnect, StatsInv, Processes
<1>3. session' \in {"starting", "off"} /\ (session' = "starting" => made < MaxSessions)
  BY DEF Connect, Disconnect
<1>4. Types'
  BY <1>1, <1>2, <1>3 DEF StatsInv, Types
<1>5. timedOut = FALSE => Published'
  BY <1>1, <1>3, PublishedStays DEF StatsInv
<1>6. job["extension"].pc = "idle"
  BY DEF Connect, Disconnect, Busy
<1>7. job'["extension"] # job["extension"] /\ "extension" \in Processes
  BY <1>2, <1>6 DEF Processes
<1>8. QED
  BY <1>1, <1>2, <1>4, <1>5, <1>7, JobStats

LEMMA StopOldWriterStats ==
    ASSUME StatsInv, StopOldWriter
    PROVE  StatsInv'
<1>1. /\ UNCHANGED <<total, day, made, tmp, stats, last, job, daily, runtime, moved, timedOut, outdated>>
      /\ session = "starting" /\ session' = "replacing" /\ job["extension"].pc = "idle"
  BY DEF StopOldWriter, core, files, history, Busy
<1>2. /\ writer' \in [Writers -> Writer]
      /\ \A w \in Writers : /\ writer'[w].pc = writer[w].pc
                            /\ writer'[w].data = writer[w].data
                            /\ writer'[w].ready = writer[w].ready
  BY OldStopped DEF StatsInv
<1>3. Types'
  BY <1>1, <1>2 DEF StatsInv, Types
<1>4. timedOut = FALSE => Published'
  BY <1>1, <1>2, PublishedStays DEF StatsInv
<1>5. "page" \in Processes
  BY DEF Processes
<1>6. QED
  BY <1>1, <1>3, <1>4, <1>5, JobStats

\* A writer that was waited for is alone.
LEMMA StartWriterStats ==
    ASSUME StatsInv, StartWriter
    PROVE  StatsInv'
<1>1. /\ UNCHANGED <<total, day, tmp, stats, last, job, daily, runtime, moved, outdated>>
      /\ session = "replacing" /\ session' = "writing" /\ made' = made + 1
      /\ writer' = [writer EXCEPT ![made'] = NewWriter]
      /\ \/ WriterGone(made) /\ timedOut' = timedOut
         \/ timedOut' = TRUE
  BY DEF StartWriter, core, files
<1>2. made \in Nat /\ made' \in Writers /\ made' \in 0..MaxSessions /\ made' > 0
  BY <1>1, Constants DEF StatsInv, Types, Writers
<1>3. /\ writer' \in [Writers -> Writer] /\ writer'[made'].pc = "loop"
      /\ writer'[made'].ready = FALSE
      /\ \A w \in Writers : w # made' => writer'[w] = writer[w]
  BY <1>1, <1>2, NewWriterType DEF StatsInv, Types
<1>4. Types'
  BY <1>1, <1>2, <1>3 DEF StatsInv, Types
<1>5. Dated'
  BY <1>1, DatedUnchanged DEF StatsInv
<1>6. ASSUME timedOut' = FALSE PROVE Published' /\ Covered'
  <2>1. Published /\ Covered /\ WriterGone(made)
    BY <1>1, <1>6 DEF StatsInv
  <2>2. \A w \in Writers : writer[w].pc \in {"none", "done"}
    BY <2>1 DEF Published, WriterGone
  <2>3. \A w \in Writers : writer'[w].pc \in {"none", "done"} \/ w = made'
    BY <1>3, <2>2
  <2>4. \A w \in Writers : writer'[w].pc \notin {"open", "full"} /\ ~Writes(w)'
    BY <1>3, <2>2 DEF Writes
  <2>5. \A w \in Writers : writer'[w].ready = TRUE => writer[w].ready = TRUE
    BY <1>3
  <2>6. \A w \in Writers : writer'[w].ready = TRUE /\ stats'.whole = TRUE =>
          last' <= stats'.total /\ stats'.total <= total'
    BY <1>1, <2>1, <2>5 DEF Published
  <2>7. last' <= total'
    BY <1>1, <2>1 DEF Published
  <2>8. Published'
    BY <1>1, <2>3, <2>4, <2>6, <2>7 DEF Published
  <2>9. Covered'
    BY <1>1, <2>1 DEF Covered, Pending, Counted
  <2>10. QED
    BY <2>8, <2>9
<1>7. QED
  BY <1>4, <1>5, <1>6, Combine

\* The published total becomes the baseline, and what lies between the two is on its way.
LEMMA BaselineStats ==
    ASSUME StatsInv, UNCHANGED <<total, day, writer, made, tmp, stats, daily, runtime, moved,
                                 timedOut, outdated>>,
           made \in Writers, writer[made].ready = TRUE, stats.whole = TRUE,
           last' = stats.total, session' = "on",
           NEW d \in Nat, d > 0 => d = stats.total - last,
           job["extension"].pc # "load", job' \in [Processes -> Job],
           job'["extension"].pc = "load", job'["extension"].today = day,
           job'["extension"].delta = d, job'["page"] = job["page"]
    PROVE  StatsInv'
<1>2. stats.total \in Nat
  BY DEF StatsInv, Types, File
<1>3. Types'
  <2>1. \A p \in Processes : job'[p].pc = "save" => job'[p].bytes \in Nat
    BY DEF StatsInv, Types, Processes
  <2>2. made > 0
    BY DEF Writers
  <2>3. QED
    BY <1>2, <2>1, <2>2 DEF StatsInv, Types
<1>4. Dated'
  <2>1. day' \in Nat /\ day' >= day
    BY DEF StatsInv, Types
  <2>2. \A p \in Processes :
          \/ job'[p] = job[p] /\ (outdated'[p] = FALSE => outdated[p] = FALSE)
          \/ job'[p].pc \notin {"load", "save"}
          \/ job'[p].pc = "load" /\ job'[p].today = day
    BY DEF Processes
  <2>3. QED
    BY <2>1, <2>2, DatedStays DEF StatsInv
<1>5. ASSUME timedOut' = FALSE PROVE Published' /\ Covered'
  <2>1. Published /\ Covered
    BY <1>5 DEF StatsInv
  <2>2. /\ last <= stats.total /\ stats.total <= total
        /\ \A x \in Writers : Writes(x) => stats.total <= writer[x].data.total
    BY <2>1 DEF Published
  <2>3. \A w \in Writers : Writes(w)' <=> Writes(w)
    BY DEF Writes
  <2>4. \A w \in Writers : writer'[w].ready = TRUE /\ stats'.whole = TRUE =>
          /\ last' <= stats'.total /\ stats'.total <= total'
          /\ \A x \in Writers : Writes(x)' => stats'.total <= writer'[x].data.total
    BY <1>2, <2>2, <2>3
  <2>5. \A w \in Writers : Writes(w)' => /\ writer'[w].data.whole = TRUE
                                         /\ writer'[w].data.exists = TRUE
                                         /\ last' <= writer'[w].data.total
                                         /\ writer'[w].data.total <= total'
    BY <2>1, <2>2, <2>3 DEF Published
  <2>6. last' <= total' /\ (session' = "on" => writer'[made'].ready = TRUE)
    BY <2>2
  <2>7. \A w \in Writers : /\ writer'[w].pc \notin {"none", "done"} => w = made'
                           /\ writer'[w].pc = "open" => tmp' = Torn
                           /\ writer'[w].pc = "full" => tmp' = writer'[w].data
    BY <2>1 DEF Published
  <2>8. Published'
    BY <2>4, <2>5, <2>6, <2>7 DEF Published
  <2>9. Counted' >= Counted + d
    BY <1>2, <2>2 DEF Counted, StatsInv, Types
  <2>10. Covered'
    BY <1>3, <2>1, <2>9, CoveredStays DEF StatsInv
  <2>11. QED
    BY <2>8, <2>10
<1>6. QED
  BY <1>3, <1>4, <1>5, Combine

LEMMA ResetBaselineStats ==
    ASSUME StatsInv, ResetBaseline
    PROVE  StatsInv'
<1>1. /\ UNCHANGED <<total, day, writer, made, tmp, stats, daily, runtime, moved, timedOut, outdated>>
      /\ session = "writing" /\ session' = "on"
  BY DEF ResetBaseline, core, writing, files, history
<1>2. made \in Writers /\ made > 0 /\ job["extension"].pc = "idle"
  BY <1>1, Constants DEF StatsInv, Types, Writers
<1>3. writer[made].ready = TRUE
  <2>1. writer[made].ready /\ writer[made].ready \in BOOLEAN
    BY <1>2 DEF ResetBaseline, StatsInv, Types, Writer
  <2>2. QED
    BY <2>1, Zenon
<1>4. CASE stats.whole = TRUE
  <2>1. last' = stats.total /\ Begin("extension", 0, FALSE, 0)
    BY <1>4 DEF ResetBaseline, Readable
  <2>2. /\ job' \in [Processes -> Job] /\ job'["page"] = job["page"]
        /\ job'["extension"].pc = "load" /\ job'["extension"].today = day
        /\ job'["extension"].delta = 0
    BY <2>1, BegunToShow DEF StatsInv, Processes
  <2>3. QED
    <3>1. PICK d \in Nat : d = 0
      OBVIOUS
    <3>2. job'["extension"].delta = d /\ (d > 0 => d = stats.total - last)
      BY <2>2, <3>1
    <3>3. QED
      BY <1>1, <1>2, <1>3, <1>4, <2>1, <2>2, <3>2, BaselineStats
<1>5. CASE stats.whole # TRUE
  <2>1. ~stats.whole
    <3>1. stats.whole \in BOOLEAN
      BY DEF StatsInv, Types, File
    <3>2. QED
      BY <1>5, <3>1, Zenon
  <2>2. UNCHANGED <<last, job>>
    BY <2>1 DEF ResetBaseline, Readable
  <2>3. Types'
    BY <1>1, <1>2, <2>2 DEF StatsInv, Types
  <2>4. timedOut = FALSE => Published'
    <3> SUFFICES ASSUME timedOut = FALSE PROVE Published'
      OBVIOUS
    <3>1. Published
      BY DEF StatsInv
    <3>2. QED
      BY <1>1, <1>3, <2>2, <3>1 DEF Published, Writes
  <2>5. "page" \in Processes
    BY DEF Processes
  <2>6. QED
    BY <1>1, <2>2, <2>3, <2>4, <2>5, JobStats
<1>6. QED
  BY <1>4, <1>5

LEMMA SampleStats ==
    ASSUME StatsInv, Sample
    PROVE  StatsInv'
<1>1. /\ UNCHANGED <<total, day, writer, made, tmp, stats, daily, runtime, moved, timedOut, outdated>>
      /\ session = "on" /\ session' = "on" /\ job["extension"].pc = "idle" /\ last' = stats.total
  BY DEF Sample, core, writing, files, history, Busy, Baseline
<1>2. stats.whole = TRUE
  <2>1. stats.whole /\ stats.whole \in BOOLEAN
    BY DEF Sample, Readable, StatsInv, Types, File
  <2>2. QED
    BY <2>1, Zenon
<1>3. made \in Writers
  BY <1>1, Constants DEF StatsInv, Types, Writers
<1>4. Delta \in Nat /\ (Delta > 0 => Delta = stats.total - last)
  BY DEF Delta, StatsInv, Types, File
<1>5. PICK speed \in Delta..MaxMoved : Begin("extension", Delta, TRUE, speed)
  BY DEF Sample
<1>6. PICK d \in Nat : d = Delta /\ (d > 0 => d = stats.total - last)
  BY <1>4
<1>7. /\ job' \in [Processes -> Job] /\ job'["page"] = job["page"]
      /\ job'["extension"].pc = "load" /\ job'["extension"].today = day
      /\ job'["extension"].delta = d
  <2>1. speed \in Int
    BY <1>4, Constants
  <2>2. Begin("extension", d, TRUE, speed)
    BY <1>5, <1>6 DEF Begin
  <2>3. QED
    BY <2>1, <2>2, BegunToSave DEF StatsInv, Processes
<1>8. CASE timedOut = FALSE
  <2>1. writer[made].ready = TRUE
    BY <1>1, <1>8 DEF StatsInv, Published
  <2>2. QED
    BY <1>1, <1>2, <1>3, <1>6, <1>7, <2>1, BaselineStats
<1>9. CASE timedOut # FALSE
  <2>1. /\ job' \in [Processes -> Job]
        /\ job'["extension"].pc = "load" /\ job'["extension"].today = day
        /\ job'["page"] = job["page"]
    BY <1>7
  <2>2. Types'
    <3>1. \A p \in Processes : job'[p].pc = "save" => job'[p].bytes \in Nat
      BY <2>1 DEF StatsInv, Types, Processes
    <3>2. stats.total \in Nat
      BY DEF StatsInv, Types, File
    <3>3. QED
      BY <1>1, <2>1, <3>1, <3>2 DEF StatsInv, Types
  <2>3. Dated'
    <3>1. day' \in Nat /\ day' >= day /\ daily' = daily
      BY <1>1 DEF StatsInv, Types
    <3>2. \A p \in Processes :
            \/ job'[p] = job[p] /\ (outdated'[p] = FALSE => outdated[p] = FALSE)
            \/ job'[p].pc \notin {"load", "save"}
            \/ job'[p].pc = "load" /\ job'[p].today = day
      BY <1>1, <2>1 DEF Processes
    <3>3. QED
      BY <3>1, <3>2, DatedStays DEF StatsInv
  <2>4. QED
    BY <1>1, <1>9, <2>2, <2>3 DEF StatsInv
<1>10. QED
  BY <1>8, <1>9

\* Sampling ends; nothing is added.
LEMMA StopsStats ==
    ASSUME StatsInv, SampleFails \/ StopPolling
    PROVE  StatsInv'
<1>1. /\ UNCHANGED <<total, day, writer, made, tmp, stats, last, daily, runtime, moved, timedOut, outdated>>
      /\ session = "on" /\ session' \in {"on", "stopping"} /\ job["extension"].pc = "idle"
      /\ job' = job \/ Begin("extension", 0, FALSE, 0)
  BY DEF SampleFails, StopPolling, core, writing, files, history, Busy
<1>2. /\ job' \in [Processes -> Job] /\ job'["page"] = job["page"]
      /\ \/ job' = job
         \/ /\ job'["extension"].pc = "load" /\ job'["extension"].today = day
            /\ job'["extension"].delta = 0
  <2>1. CASE job' = job
    BY <2>1 DEF StatsInv, Types
  <2>2. CASE Begin("extension", 0, FALSE, 0)
    BY <2>2, BegunToShow DEF StatsInv, Processes
  <2>3. QED
    BY <1>1, <2>1, <2>2
<1>3. Types'
  <2>1. \A p \in Processes : job'[p].pc = "save" => job'[p].bytes \in Nat
    BY <1>2 DEF StatsInv, Types, Processes
  <2>2. QED
    BY <1>1, <1>2, <2>1 DEF StatsInv, Types
<1>4. timedOut = FALSE => Published'
  BY <1>1, PublishedStays DEF StatsInv
<1>5. QED
  <2>1. "extension" \in Processes /\ \A q \in Processes : q # "extension" => job'[q] = job[q]
    BY <1>2 DEF Processes
  <2>2. \/ job'["extension"] = job["extension"]
        \/ /\ job'["extension"].pc = "load" /\ job'["extension"].today = day
           /\ job'["extension"].delta = 0 /\ job["extension"].pc = "idle"
    BY <1>1, <1>2
  <2>3. QED
    BY <1>1, <1>3, <1>4, <2>1, <2>2, JobStats

LEMMA RefreshStats ==
    ASSUME StatsInv, RefreshDailySnapshot
    PROVE  StatsInv'
<1>1. /\ UNCHANGED <<total, day, writer, made, tmp, stats, session, last, daily, runtime, moved,
                     timedOut, outdated>>
      /\ job["page"].pc = "idle" /\ Begin("page", 0, TRUE, 0)
  BY DEF RefreshDailySnapshot, core, writing, sampling, files, history, Busy
<1>2. /\ job' \in [Processes -> Job] /\ job'["extension"] = job["extension"]
      /\ job'["page"].pc = "load" /\ job'["page"].today = day /\ job'["page"].delta = 0
  BY <1>1, BegunToRefresh DEF StatsInv, Processes
<1>3. Types'
  <2>1. \A p \in Processes : job'[p].pc = "save" => job'[p].bytes \in Nat
    BY <1>2 DEF StatsInv, Types, Processes
  <2>2. QED
    BY <1>1, <1>2, <2>1 DEF StatsInv, Types
<1>4. timedOut = FALSE => Published'
  BY <1>1, PublishedStays DEF StatsInv
<1>5. "page" \in Processes /\ \A q \in Processes : q # "page" => job'[q] = job[q]
  BY <1>2 DEF Processes
<1>6. QED
  BY <1>1, <1>2, <1>3, <1>4, <1>5, JobStats

\* The process ends: totals and baseline start at zero, the file keeps what was counted.
LEMMA KillStats ==
    ASSUME StatsInv, Kill
    PROVE  StatsInv'
<1>1. /\ total' = 0 /\ last' = 0 /\ session' = "off"
      /\ writer' = [w \in Writers |-> NoWriter]
      /\ job' = [job EXCEPT !["extension"] = NoJob]
      /\ outdated' = [outdated EXCEPT !["extension"] = FALSE]
      /\ UNCHANGED <<day, made, tmp, stats, daily, runtime, moved, timedOut>>
  BY DEF Kill, files
<1>2. /\ job' \in [Processes -> Job] /\ job'["extension"].pc = "idle"
      /\ \A q \in Processes : q # "extension" => job'[q] = job[q]
  BY <1>1, NoJobType DEF StatsInv, Types, Processes
<1>3. /\ writer' \in [Writers -> Writer]
      /\ \A w \in Writers : writer'[w].pc = "none" /\ writer'[w].ready = FALSE
  BY <1>1, NoWriterType
<1>4. /\ outdated' \in [Processes -> BOOLEAN]
      /\ \A q \in Processes : q # "extension" => outdated'[q] = outdated[q]
  BY <1>1 DEF StatsInv, Types
<1>5. Types'
  <2>1. \A p \in Processes : job'[p].pc = "save" => job'[p].bytes \in Nat
    BY <1>2 DEF StatsInv, Types
  <2>2. QED
    BY <1>1, <1>2, <1>3, <1>4, <2>1 DEF StatsInv, Types
<1>6. Dated'
  <2>1. day' \in Nat /\ day' >= day /\ daily' = daily
    BY <1>1 DEF StatsInv, Types
  <2>2. \A p \in Processes :
          \/ job'[p] = job[p] /\ (outdated'[p] = FALSE => outdated[p] = FALSE)
          \/ job'[p].pc \notin {"load", "save"}
          \/ job'[p].pc = "load" /\ job'[p].today = day
    BY <1>2, <1>4
  <2>3. QED
    BY <2>1, <2>2, DatedStays DEF StatsInv
<1>7. ASSUME timedOut' = FALSE PROVE Published' /\ Covered'
  <2>1. Published /\ Covered
    BY <1>1, <1>7 DEF StatsInv
  <2>2. Published'
    BY <1>1, <1>3 DEF Published, Writes
  <2>3. Counted' >= Counted + 0
    BY <1>1, <2>1 DEF Counted, Published, StatsInv, Types
  <2>4. job'["page"] = job["page"]
    BY <1>2 DEF Processes
  <2>5. Covered'
    BY <1>1, <1>2, <1>5, <2>1, <2>3, <2>4, CoveredStays DEF StatsInv
  <2>6. QED
    BY <2>2, <2>5
<1>8. QED
  BY <1>5, <1>6, <1>7, Combine

\* A statistics file that is gone is not read.
LEMMA ClearStats ==
    ASSUME StatsInv, ClearGeneratedCache
    PROVE  StatsInv'
<1>1. /\ UNCHANGED <<total, day, writer, made, tmp, session, last, job, daily, runtime, moved,
                     timedOut, outdated>>
      /\ stats' = NoFile
  BY DEF ClearGeneratedCache, core, sampling, files, history
<1>2. stats' \in File /\ stats'.whole = FALSE
  BY <1>1, NoFileType
<1>3. Types'
  BY <1>1, <1>2 DEF StatsInv, Types
<1>4. timedOut = FALSE => Published'
  <2> SUFFICES ASSUME timedOut = FALSE PROVE Published'
    OBVIOUS
  <2>1. Published
    BY DEF StatsInv
  <2>2. QED
    BY <1>1, <1>2, <2>1 DEF Published, Writes
<1>5. "page" \in Processes
  BY DEF Processes
<1>6. QED
  BY <1>1, <1>3, <1>4, <1>5, JobStats

LEMMA MidnightStats ==
    ASSUME StatsInv, Midnight
    PROVE  StatsInv'
<1>1. /\ UNCHANGED <<total, writer, made, tmp, stats, session, last, job, daily, runtime, moved,
                     timedOut, outdated>>
      /\ day' = day + 1
  BY DEF Midnight, writing, sampling, files, history
<1>2. Types'
  BY <1>1 DEF StatsInv, Types
<1>3. Dated'
  <2>1. day' \in Nat /\ day' >= day
    BY <1>1 DEF StatsInv, Types
  <2>2. QED
    BY <1>1, <2>1, DatedStays DEF StatsInv
<1>4. ASSUME timedOut' = FALSE PROVE Published' /\ Covered'
  <2>1. Published /\ Covered
    BY <1>1, <1>4 DEF StatsInv
  <2>2. Published'
    BY <1>1, <2>1, PublishedStays DEF StatsInv
  <2>3. Covered'
    BY <1>1, <2>1 DEF Covered, Pending, Counted
  <2>4. QED
    BY <2>2, <2>3
<1>5. QED
  BY <1>2, <1>3, <1>4, Combine

LEMMA StutterStats ==
    ASSUME StatsInv, UNCHANGED vars
    PROVE  StatsInv'
<1>1. UNCHANGED <<total, day, writer, made, tmp, stats, session, last, job, daily, runtime, moved,
                  timedOut, outdated>>
  BY DEF vars, core, writing, sampling, files, history
<1>2. Types'
  BY <1>1 DEF StatsInv, Types
<1>3. timedOut = FALSE => Published'
  BY <1>1, PublishedStays DEF StatsInv
<1>4. "page" \in Processes
  BY DEF Processes
<1>5. QED
  BY <1>1, <1>2, <1>3, <1>4, JobStats

LEMMA NextStats == StatsInv /\ [Next]_vars => StatsInv'
<1> SUFFICES ASSUME StatsInv, [Next]_vars PROVE StatsInv'
  OBVIOUS
<1>1. ASSUME NEW w \in Writers, Open(w) \/ Fill(w) \/ Rename(w) PROVE StatsInv'
  BY <1>1, OpenStats, FillStats, RenameStats
<1>2. ASSUME NEW p \in Processes, LoadDaily(p) \/ SaveDaily(p) \/ LoadRuntime(p) \/ SaveRuntime(p)
      PROVE  StatsInv'
  BY <1>2, LoadDailyStats, SaveDailyStats, RuntimeStats
<1>3. CASE PushUploaded \/ Connect \/ StopOldWriter \/ StartWriter \/ ResetBaseline \/ Sample
  BY <1>3, PushUploadedStats, StateStats, StopOldWriterStats, StartWriterStats,
     ResetBaselineStats, SampleStats
<1>4. CASE \/ SampleFails \/ StopPolling \/ Disconnect \/ Kill \/ RefreshDailySnapshot
           \/ ClearGeneratedCache \/ Midnight
  BY <1>4, StopsStats, StateStats, KillStats, RefreshStats, ClearStats, MidnightStats
<1>5. CASE UNCHANGED vars
  BY <1>5, StutterStats
<1>6. QED
  BY <1>1, <1>2, <1>3, <1>4, <1>5 DEF Next

LEMMA StatsAlways == Spec => []StatsInv
BY InitStats, NextStats, PTL DEF Spec

-----------------------------------------------------------------------------
(* Theorems *)

\* Unless a writer was left behind, today's figure never exceeds the traffic there was.
THEOREM TrafficNotOvercounted == Spec => []NeverOvercounts
<1>1. StatsInv => NeverOvercounts
  <2> SUFFICES ASSUME StatsInv, ~timedOut PROVE daily.bytes <= moved
    BY DEF NeverOvercounts
  <2>1. CASE timedOut = FALSE
    <3>1. Published /\ Covered /\ daily.bytes \in Nat /\ Pending \in Nat
      BY <2>1 DEF StatsInv, Types, Pending, Processes, Job
    <3>2. PICK n \in Nat : n = Pending
      BY <3>1
    <3>3. daily.bytes + n <= moved - total + last /\ last <= total
      BY <3>1, <3>2 DEF Published, Covered, Counted
    <3>4. total \in Nat /\ last \in Nat /\ moved \in Nat
      BY DEF StatsInv, Types
    <3>5. QED
      BY <3>1, <3>2, <3>3, <3>4
  <2>2. timedOut \in BOOLEAN
    BY DEF StatsInv, Types
  <2>3. timedOut = FALSE
    BY <2>2, Zenon
  <2>4. QED
    BY <2>1, <2>3
<1>2. QED
  BY <1>1, StatsAlways, PTL

\* Counted traffic is lost only by an update that the other process has overtaken.
THEOREM TrafficLostOnlyByOverlap == Spec => LostOnlyByOverlap
<1> DEFINE Overlaps == \E p \in Processes : job[p].pc = "save" /\ outdated[p]
<1>1. ASSUME StatsInv, [Next]_vars PROVE [Loses => Overlaps]_vars
  <2>1. CASE daily' = daily
    <3>1. daily.date \in Nat /\ daily.bytes \in Nat
      BY <1>1 DEF StatsInv, Types
    <3>2. ~Loses
      BY <2>1, <3>1 DEF Loses
    <3>3. QED
      BY <3>2
  <2>2. CASE daily' # daily
    <3>1. PICK p \in Processes : SaveDaily(p)
      BY <1>1, <2>2
         DEF Next, PushUploaded, Open, Fill, Rename, LoadDaily, LoadRuntime, SaveRuntime, Connect,
             StopOldWriter, StartWriter, ResetBaseline, Sample, SampleFails, StopPolling, Disconnect,
             Kill, RefreshDailySnapshot, ClearGeneratedCache, Midnight, files, vars
    <3>2. /\ job[p].pc = "save" /\ daily'.date = job[p].today /\ daily'.bytes = job[p].bytes
          /\ job[p].today \in Nat /\ job[p].bytes \in Nat /\ daily.date \in Nat /\ daily.bytes \in Nat
      BY <1>1, <3>1, SavedDaily DEF StatsInv, Types, Job
    <3>3. outdated[p] = FALSE => ~Loses
      BY <1>1, <3>2 DEF StatsInv, Dated, Loses
    <3>4. outdated[p] \in BOOLEAN
      BY <1>1 DEF StatsInv, Types
    <3>5. outdated[p] # FALSE => outdated[p]
      BY <3>4, Zenon
    <3>6. QED
      BY <3>2, <3>3, <3>5
  <2>3. QED
    BY <2>1, <2>2
<1>2. QED
  BY <1>1, StatsAlways, PTL DEF Spec, LostOnlyByOverlap

-----------------------------------------------------------------------------
(* The snapshot after a session *)

\* The page only ever shows a speed of zero and keeps the state it has read, which is the one
\* in the file unless it was overtaken; without a session the extension has written, or is about
\* to write, that it is idle.
Quiet ==
    /\ clobbered \in BOOLEAN
    /\ job["page"].pc # "idle" => job["page"].state = "keep" /\ job["page"].speed = 0
    /\ job["page"].pc = "put" /\ outdated["page"] = FALSE => job["page"].snap = runtime
    /\ session = "off" /\ job["extension"].pc # "idle" =>
           job["extension"].state = "idle" /\ job["extension"].speed = 0
    /\ session = "off" /\ job["extension"].pc = "idle" /\ clobbered = FALSE =>
           runtime.state = "idle" /\ runtime.speed = 0

\* Steps that leave the snapshot alone and do not end a session.
LEMMA QuietStays ==
    ASSUME Quiet, UNCHANGED <<runtime, clobbered>>,
           job'["page"] = job["page"], outdated'["page"] = FALSE => outdated["page"] = FALSE,
           session' = "off" => session = "off" /\ job'["extension"] = job["extension"]
    PROVE  Quiet'
BY DEF Quiet

LEMMA InitQuiet == Init => Quiet
<1> SUFFICES ASSUME Init PROVE Quiet
  OBVIOUS
<1>1. job["page"].pc = "idle" /\ job["extension"].pc = "idle"
  BY NoJobType DEF Init, Processes
<1>2. runtime.state = "idle" /\ runtime.speed = 0 /\ clobbered = FALSE
  BY DEF Init
<1>3. QED
  BY <1>1, <1>2 DEF Quiet

LEMMA CoreQuiet ==
    ASSUME Quiet,
           \/ PushUploaded \/ StopOldWriter \/ StartWriter \/ ClearGeneratedCache \/ Midnight
           \/ UNCHANGED vars \/ \E w \in Writers : Open(w) \/ Fill(w) \/ Rename(w)
    PROVE  Quiet'
<1>1. UNCHANGED <<runtime, clobbered, job, outdated>> /\ (session' = "off" => session = "off")
  <2>1. CASE PushUploaded \/ StopOldWriter \/ StartWriter
    BY <2>1 DEF PushUploaded, StopOldWriter, StartWriter, files, history, sampling
  <2>2. CASE ClearGeneratedCache \/ Midnight \/ UNCHANGED vars
    BY <2>2 DEF ClearGeneratedCache, Midnight, files, history, sampling, vars
  <2>3. ASSUME NEW w \in Writers, Open(w) \/ Fill(w) \/ Rename(w)
        PROVE  UNCHANGED <<runtime, clobbered, job, outdated, session>>
    BY <2>3 DEF Open, Fill, Rename, files, history, sampling
  <2>4. QED
    BY <2>1, <2>2, <2>3
<1>2. QED
  BY <1>1, QuietStays

LEMMA SessionQuiet ==
    ASSUME Types, Quiet, Connect \/ ResetBaseline \/ Sample \/ SampleFails \/ StopPolling
    PROVE  Quiet'
<1>1. UNCHANGED <<runtime, clobbered, outdated>> /\ session' # "off"
  BY DEF Connect, ResetBaseline, Sample, SampleFails, StopPolling, files, history
<1>2. job'["page"] = job["page"]
  BY DEF Connect, ResetBaseline, Sample, SampleFails, StopPolling, Begin, BeginState, Types, Processes
<1>3. QED
  BY <1>1, <1>2, QuietStays

LEMMA DisconnectQuiet ==
    ASSUME Types, Quiet, Disconnect
    PROVE  Quiet'
<1>1. UNCHANGED <<runtime, clobbered, outdated>> /\ BeginState("extension", 0, "idle")
  BY DEF Disconnect, files, history
<1>2. PICK v \in Int : v = 0
  OBVIOUS
<1>3. PICK s \in {"keep", "idle", "connected"} : s = "idle"
  OBVIOUS
<1>4. BeginState("extension", v, s)
  BY <1>1, <1>2, <1>3
<1>5. /\ job'["page"] = job["page"] /\ job'["extension"].pc = "snap"
      /\ job'["extension"].speed = 0 /\ job'["extension"].state = "idle"
  BY <1>2, <1>3, <1>4, BegunState DEF Processes
<1>6. QED
  BY <1>1, <1>5 DEF Quiet

\* Only a kill between two sessions leaves the snapshot as it should be.
LEMMA KillQuiet ==
    ASSUME Types, Quiet, Kill
    PROVE  Quiet'
<1>1. /\ session' = "off" /\ job' = [job EXCEPT !["extension"] = NoJob]
      /\ outdated' = [outdated EXCEPT !["extension"] = FALSE] /\ UNCHANGED runtime
      /\ clobbered' = (clobbered \/ session # "off" \/ Busy("extension"))
  BY DEF Kill, files
<1>2. /\ job'["page"] = job["page"] /\ job'["extension"].pc = "idle"
      /\ outdated'["page"] = outdated["page"]
  BY <1>1, NoJobType DEF Types, Processes
<1>3. clobbered' \in BOOLEAN
  BY <1>1, Zenon DEF Quiet
<1>4. clobbered' = FALSE => clobbered = FALSE /\ session = "off" /\ ~Busy("extension")
  <2>1. clobbered \in BOOLEAN
    BY DEF Quiet
  <2>2. QED
    BY <1>1, <2>1, Zenon
<1>5. QED
  BY <1>1, <1>2, <1>3, <1>4 DEF Quiet, Busy

LEMMA RefreshQuiet ==
    ASSUME Types, Quiet, RefreshDailySnapshot
    PROVE  Quiet'
<1>1. UNCHANGED <<session, runtime, clobbered, outdated>> /\ Begin("page", 0, TRUE, 0)
  BY DEF RefreshDailySnapshot, sampling, files, history
<1>2. /\ job'["extension"] = job["extension"] /\ job'["page"].pc = "load"
      /\ job'["page"].state = "keep" /\ job'["page"].speed = 0
  BY <1>1, BegunToRefresh DEF Processes
<1>3. QED
  BY <1>1, <1>2 DEF Quiet

\* The steps of an update before it replaces the snapshot.
LEMMA UpdateQuiet ==
    ASSUME Types, Quiet, NEW p \in Processes, LoadDaily(p) \/ SaveDaily(p) \/ LoadRuntime(p)
    PROVE  Quiet'
<1>1. /\ UNCHANGED <<session, runtime, clobbered>>
      /\ \A q \in Processes : q # p => job'[q] = job[q]
      /\ job[p].pc # "idle" /\ job'[p].pc # "idle"
      /\ job'[p].state = job[p].state /\ job'[p].speed = job[p].speed
      /\ job'[p].pc = "put" => job'[p].snap = runtime
  <2>1. CASE LoadDaily(p)
    BY <2>1, LoadedDaily DEF LoadDaily, sampling, files, history
  <2>2. CASE SaveDaily(p)
    BY <2>2, SavedDaily DEF SaveDaily, sampling
  <2>3. CASE LoadRuntime(p)
    BY <2>3, LoadedRuntime DEF LoadRuntime, sampling, files
  <2>4. QED
    BY <2>1, <2>2, <2>3
<1>2. "page" # p => (outdated'["page"] = FALSE => outdated["page"] = FALSE)
  <2>1. outdated \in [Processes -> BOOLEAN] /\ "page" \in Processes
    BY DEF Types, Processes
  <2>2. CASE LoadDaily(p) \/ LoadRuntime(p)
    BY <2>1, <2>2 DEF LoadDaily, LoadRuntime, history
  <2>3. CASE SaveDaily(p)
    <3>1. outdated'["page"] = ("page" # p /\ (outdated["page"] \/ job["page"].pc \in {"load", "save"}))
      BY <2>1, <2>3 DEF SaveDaily
    <3>2. outdated["page"] \in BOOLEAN
      BY <2>1
    <3>3. QED
      BY <3>1, <3>2, Zenon
  <2>4. QED
    BY <2>2, <2>3
<1>3. CASE p = "page"
  BY <1>1, <1>3 DEF Quiet, Processes
<1>4. CASE p = "extension"
  BY <1>1, <1>2, <1>4 DEF Quiet, Processes
<1>5. QED
  BY <1>3, <1>4 DEF Processes

\* A page that was not overtaken puts back what is there; the extension's save makes the page's
\* copy an old one.
LEMMA SaveRuntimeQuiet ==
    ASSUME Types, Quiet, NEW p \in Processes, SaveRuntime(p)
    PROVE  Quiet'
<1>1. /\ UNCHANGED session /\ job[p].pc = "put" /\ job'[p].pc = "idle"
      /\ \A q \in Processes : q # p => job'[q] = job[q]
      /\ runtime'.state = IF job[p].state = "keep" THEN job[p].snap.state ELSE job[p].state
      /\ runtime'.speed = IF job[p].speed = Keep THEN job[p].snap.speed ELSE job[p].speed
  BY SavedRuntime DEF SaveRuntime, sampling
<1>2. clobbered \in BOOLEAN /\ outdated[p] \in BOOLEAN /\ clobbered' = (clobbered \/ outdated[p])
  BY DEF Quiet, Types, SaveRuntime
<1>3. clobbered' \in BOOLEAN /\ (clobbered' = FALSE => clobbered = FALSE /\ outdated[p] = FALSE)
  BY <1>2, Zenon
<1>4. CASE p = "page"
  <2>1. job'["page"].pc = "idle" /\ job'["extension"] = job["extension"]
    BY <1>1, <1>4 DEF Processes
  <2>2. job["page"].state = "keep" /\ job["page"].speed = 0 /\ job["page"].speed # Keep
    BY <1>1, <1>4 DEF Quiet, Keep
  <2>3. runtime'.state = job["page"].snap.state /\ runtime'.speed = 0
    BY <1>1, <1>4, <2>2
  <2>4. clobbered' = FALSE => job["page"].snap = runtime
    BY <1>1, <1>3, <1>4 DEF Quiet
  <2>5. QED
    BY <1>1, <1>3, <2>1, <2>3, <2>4 DEF Quiet
<1>5. CASE p = "extension"
  <2>1. job'["extension"].pc = "idle" /\ job'["page"] = job["page"]
    BY <1>1, <1>5 DEF Processes
  <2>2. session = "off" => runtime'.state = "idle" /\ runtime'.speed = 0
    BY <1>1, <1>5 DEF Quiet, Keep
  <2>3. job["page"].pc = "put" => outdated'["page"] # FALSE
    <3>1. outdated'["page"] = ("page" # p /\ (outdated["page"] \/ job["page"].pc = "put"))
      BY DEF SaveRuntime, Processes
    <3>2. "page" # p
      BY <1>5
    <3>3. QED
      BY <3>1, <3>2, Zenon
  <2>4. QED
    BY <1>1, <1>3, <2>1, <2>2, <2>3 DEF Quiet
<1>6. QED
  BY <1>4, <1>5 DEF Processes

LEMMA NextQuiet == StatsInv /\ Quiet /\ [Next]_vars => Quiet'
<1> SUFFICES ASSUME Types, Quiet, [Next]_vars PROVE Quiet'
  BY DEF StatsInv
<1>1. ASSUME NEW w \in Writers, Open(w) \/ Fill(w) \/ Rename(w) PROVE Quiet'
  BY <1>1, CoreQuiet
<1>2. ASSUME NEW p \in Processes, LoadDaily(p) \/ SaveDaily(p) \/ LoadRuntime(p) \/ SaveRuntime(p)
      PROVE  Quiet'
  BY <1>2, UpdateQuiet, SaveRuntimeQuiet
<1>3. CASE PushUploaded \/ StopOldWriter \/ StartWriter \/ ClearGeneratedCache \/ Midnight
  BY <1>3, CoreQuiet
<1>4. CASE Connect \/ ResetBaseline \/ Sample \/ SampleFails \/ StopPolling
  BY <1>4, SessionQuiet
<1>5. CASE Disconnect \/ Kill \/ RefreshDailySnapshot
  BY <1>5, DisconnectQuiet, KillQuiet, RefreshQuiet
<1>6. CASE UNCHANGED vars
  BY <1>6, CoreQuiet
<1>7. QED
  BY <1>1, <1>2, <1>3, <1>4, <1>5, <1>6 DEF Next

\* When a session is over and nothing was overwritten, the snapshot says idle and no speed.
THEOREM QuietWhenOver == Spec => []QuietAfterStop
<1>1. Quiet => QuietAfterStop
  <2> SUFFICES ASSUME Quiet, session = "off", ~Busy("extension"), ~clobbered
               PROVE  runtime.state = "idle" /\ runtime.speed = 0
    BY DEF QuietAfterStop
  <2>1. clobbered = FALSE
    BY Zenon DEF Quiet
  <2>2. QED
    BY <2>1 DEF Quiet, Busy
<1>2. QED
  BY <1>1, InitQuiet, NextQuiet, StatsAlways, PTL DEF Spec

=============================================================================
