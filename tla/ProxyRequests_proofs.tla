------------------------ MODULE ProxyRequests_proofs ------------------------
(***************************************************************************)
(* Proofs about ProxyRequests, for any nodes, groups and numbers of        *)
(* requests and events: the types and the holders of the mutexes, that a   *)
(* page reports its own request's answer, that the core uses the saved     *)
(* node once nothing is under way, and that measured delays are kept.      *)
(* The invariant has two halves that share no variable but the session's:  *)
(* SelInv for selections, LatInv for latency tests.                        *)
(***************************************************************************)
EXTENDS ProxyRequests, TLAPS

-----------------------------------------------------------------------------
(* The inductive invariant: selections *)

SelTypes ==
    /\ kind \in {"select", "fallback"} /\ link \in {"down", "restoring", "up"}
    /\ listed \subseteq Nodes /\ known \subseteq Nodes
    /\ core \in Nodes \cup {None} /\ cached \in Nodes \cup {None} /\ saved \in Nodes \cup {None}
    /\ hook \in {"idle", "waiting"} /\ events \in 0..MaxEvents
    /\ sel \in [Calls -> SelectRecord]
    /\ selFile \in [id : Calls, status : {"idle", "running", "complete", "error"}]
    /\ latest \in Calls \cup {Free} /\ drifted \in BOOLEAN

\* A mutex is held by the call that is inside.
LocksOK ==
    /\ \A r \in Calls : sel[r].work \in InNative <=> gMihomoMutex = r
    /\ \A r \in Calls : sel[r].work \in {"testing", "hook"} <=> stateMu = r
    /\ gMihomoMutex \in Calls \cup {Free} /\ stateMu \in Calls \cup {Free}

\* The selection that startVpnForProduct makes itself is under way only during a start.
RestoreOK ==
    /\ sel[Restore].work # "sent"
    /\ link # "restoring" => sel[Restore].work \in {"none", "end", "dead"}

\* A handler answers once, as its last step.
ResultsOK ==
    \A r \in Selects : /\ sel[r].result # "none" => sel[r].work = "end"
                       /\ sel[r].page = "new" => sel[r].work = "none"

\* An answer in the request file is the answer of the request it names, and so is what a page
\* has taken from it.
SelAnswersOK ==
    \A r \in Selects :
        /\ IsAnswer(selFile, r) => sel[r].result = selFile.status
        /\ sel[r].page \in {"complete", "error"} => sel[r].result = sel[r].page

\* The core uses the node of the call that switched it last.
LatestOK ==
    \A r \in Calls :
        /\ sel[r].work = "answered" /\ sel[r].ok = TRUE /\ latest = r =>
               core = sel[r].node /\ cached = sel[r].node
        /\ sel[r].work \in {"testing", "hook"} =>
               \/ latest = r /\ core = sel[r].node
               \/ latest = Free /\ drifted = TRUE

\* What SetSelected remembers is what the page shows, up to handlers still to resume.
SavedOK ==
    drifted = FALSE =>
        cached = saved \/ \E r \in Calls : sel[r].work = "answered" /\ sel[r].ok = TRUE

\* The core uses what SetSelected remembers, up to a test that has not ended.
CoreOK ==
    drifted = FALSE /\ link # "down" /\ (\A r \in Calls : sel[r].work \notin {"testing", "hook"})
        => core = cached

SelInv ==
    /\ SelTypes /\ LocksOK /\ RestoreOK /\ ResultsOK /\ SelAnswersOK /\ LatestOK /\ SavedOK
    /\ CoreOK

-----------------------------------------------------------------------------
(* The inductive invariant: latency tests *)

LatTypes ==
    /\ lat \in [Tests -> TestRecord]
    /\ latFile \in [id : 0..MaxRequests, status : {"idle", "running", "complete", "error"},
                     recs : Records]
    /\ dirty \subseteq {"page", "handler"} \X Tests

\* An answer in the file is its handler's, or one that a page has written as it gave up.
LatAnswersOK ==
    \A l \in Tests :
        /\ IsAnswer(latFile, l) => lat[l].work = "end" \/ lat[l].page # "waiting"
        /\ lat[l].page \in {"complete", "error"} => lat[l].work = "end"

\* Who has read the records, and was not overtaken, has them as they are.
ReadersOK ==
    \A l \in Tests :
        /\ lat[l].page \in {"loaded", "giving up"} /\ <<"page", l>> \notin dirty =>
               lat[l].held = latFile.recs
        /\ lat[l].work = "running" /\ <<"handler", l>> \notin dirty => lat[l].seen = latFile.recs

LatInv == LatTypes /\ LatAnswersOK /\ ReadersOK

-----------------------------------------------------------------------------
(* Lemmas *)

\* The numbers of requests: Restore and Free are none of them.
LEMMA Numbers ==
    /\ Selects \subseteq Calls /\ Restore \in Calls /\ Restore \notin Selects
    /\ Free \notin Calls /\ Tests = Selects /\ Tests \subseteq 0..MaxRequests
    /\ 0 \in 0..MaxRequests /\ Calls = 0..MaxRequests /\ None \notin Nodes
    /\ \A r \in Calls : r # Restore => r \in Selects
  BY RequestsAssumption DEF Selects, Tests, Calls, Restore, Free

\* A step of one selection leaves the others alone.
LEMMA SelStep ==
    ASSUME sel \in [Calls -> SelectRecord], NEW r \in Calls, NEW w \in SelectRecord,
           sel' = [sel EXCEPT ![r] = w]
    PROVE  /\ sel' \in [Calls -> SelectRecord]
           /\ sel'[r] = w /\ \A q \in Calls : q # r => sel'[q] = sel[q]
  OBVIOUS

\* A step of one test leaves the others alone.
LEMMA LatStep ==
    ASSUME lat \in [Tests -> TestRecord], NEW l \in Tests, NEW w \in TestRecord,
           lat' = [lat EXCEPT ![l] = w]
    PROVE  /\ lat' \in [Tests -> TestRecord]
           /\ lat'[l] = w /\ \A q \in Tests : q # l => lat'[q] = lat[q]
  OBVIOUS

\* The steps of tests leave selections alone ...
LEMMA SameSelections ==
    ASSUME SelInv, UNCHANGED <<frame, events>>
    PROVE  SelInv'
  BY DEF SelInv, SelTypes, LocksOK, RestoreOK, ResultsOK, SelAnswersOK, LatestOK, SavedOK,
      CoreOK, frame, config, selection, locks, history

\* ... and the steps of selections leave tests alone.
LEMMA SameTests ==
    ASSUME LatInv, UNCHANGED latency
    PROVE  LatInv'
  BY DEF LatInv, LatTypes, LatAnswersOK, ReadersOK, latency

\* RequestProxySelection keeps the invariant.
LEMMA ReqRequestProxySelection ==
    ASSUME SelInv, LatInv, NEW r \in Selects, RequestProxySelection(r)
    PROVE  SelInv' /\ LatInv'
<1>1. r \in Calls /\ sel \in [Calls -> SelectRecord] /\ sel[r] \in SelectRecord
  BY Numbers DEF SelInv, SelTypes
<1>2. PICK w \in SelectRecord :
        /\ sel' = [sel EXCEPT ![r] = w] /\ w.node \in Nodes \cup {None}
        /\ w.result = sel[r].result /\ w.ok = sel[r].ok /\ sel[r].page = "new"
        /\ sel[r].work = "none" /\ link = "up"
        /\ ((w.page = "waiting" /\ w.work = "sent") \/ (w.page = "refused" /\ w.work = "none"))
        /\ selFile' = [id |-> r, status |-> "running"] /\ kind' = kind
        /\ listed' = listed /\ known' = known /\ link' = link /\ core' = core
        /\ cached' = cached /\ saved' = saved /\ gMihomoMutex' = gMihomoMutex
        /\ stateMu' = stateMu /\ hook' = hook /\ events' = events /\ latest' = latest
        /\ drifted' = drifted
  <2>1. /\ selFile' = [id |-> r, status |-> "running"] /\ link = "up"
        /\ sel[r].page = "new" /\ sel[r].work = "none" /\ kind' = kind /\ listed' = listed
        /\ known' = known /\ link' = link
        /\ core' = core /\ cached' = cached /\ saved' = saved /\ gMihomoMutex' = gMihomoMutex
        /\ stateMu' = stateMu /\ hook' = hook /\ events' = events /\ latest' = latest
        /\ drifted' = drifted
    BY <1>1 DEF RequestProxySelection, Fresh, config, selection, locks, history, latency,
        SelInv, ResultsOK
  <2>2. PICK n \in Nodes :
            \/ sel' = [sel EXCEPT ![r].node = n, ![r].page = "waiting", ![r].work = "sent"]
            \/ sel' = [sel EXCEPT ![r].node = n, ![r].page = "refused"]
    BY DEF RequestProxySelection, SelInv, SelTypes
  <2>3. CASE sel' = [sel EXCEPT ![r].node = n, ![r].page = "waiting", ![r].work = "sent"]
    <3>1. [sel[r] EXCEPT !.node = n, !.page = "waiting", !.work = "sent"] \in SelectRecord
      BY <1>1 DEF SelectRecord, InNative
    <3>2. PICK w \in SelectRecord :
              w = [sel[r] EXCEPT !.node = n, !.page = "waiting", !.work = "sent"]
      BY <3>1
    <3>3. /\ w.node \in Nodes \cup {None} /\ w.result = sel[r].result /\ w.ok = sel[r].ok
          /\ w.page = "waiting" /\ w.work = "sent"
      BY <1>1, <3>2 DEF SelectRecord
    <3>4. sel' = [sel EXCEPT ![r] = w]
      BY <1>1, <2>3, <3>2
    <3>5. QED
      BY <2>1, <3>3, <3>4
  <2>4. CASE sel' = [sel EXCEPT ![r].node = n, ![r].page = "refused"]
    <3>1. [sel[r] EXCEPT !.node = n, !.page = "refused"] \in SelectRecord
      BY <1>1 DEF SelectRecord, InNative
    <3>2. PICK w \in SelectRecord : w = [sel[r] EXCEPT !.node = n, !.page = "refused"]
      BY <3>1
    <3>3. /\ w.node \in Nodes \cup {None} /\ w.result = sel[r].result /\ w.ok = sel[r].ok
          /\ w.page = "refused" /\ w.work = sel[r].work
      BY <1>1, <3>2 DEF SelectRecord
    <3>4. sel' = [sel EXCEPT ![r] = w]
      BY <1>1, <2>4, <3>2
    <3>5. QED
      BY <2>1, <3>3, <3>4
  <2>5. QED
    BY <2>2, <2>3, <2>4
<1>3. sel' \in [Calls -> SelectRecord] /\ sel'[r] = w /\ \A q \in Calls : q # r => sel'[q] = sel[q]
  BY <1>1, <1>2, SelStep
<1>4. SelTypes'
  BY <1>1, <1>2, <1>3, Numbers DEF SelInv, SelTypes
<1>5. LocksOK'
  BY <1>1, <1>2, <1>3, Numbers DEF SelInv, SelTypes, LocksOK, InNative, SelectRecord
<1>6. RestoreOK'
  BY <1>1, <1>2, <1>3, Numbers DEF SelInv, SelTypes, RestoreOK, SelectRecord
<1>7. ResultsOK'
  BY <1>1, <1>2, <1>3, Numbers DEF SelInv, SelTypes, ResultsOK, SelectRecord
<1>8. SelAnswersOK'
  BY <1>1, <1>2, <1>3, Numbers DEF SelInv, SelTypes, ResultsOK, SelAnswersOK, IsAnswer,
      SelectRecord
<1>9. LatestOK'
  BY <1>1, <1>2, <1>3, Numbers DEF SelInv, SelTypes, LatestOK, LocksOK, SelectRecord
<1>10. SavedOK'
  BY <1>1, <1>2, <1>3, Numbers DEF SelInv, SelTypes, SavedOK, LatestOK, SelectRecord
<1>11. CoreOK'
  BY <1>1, <1>2, <1>3, Numbers DEF SelInv, SelTypes, CoreOK, LatestOK, LocksOK, RestoreOK,
      SelectRecord
<1>12. QED
  BY <1>4, <1>5, <1>6, <1>7, <1>8, <1>9, <1>10, <1>11, SameTests DEF SelInv,
      RequestProxySelection, config, selection, locks, history, latency

\* SelectionAnswered keeps the invariant.
LEMMA ReqSelectionAnswered ==
    ASSUME SelInv, LatInv, NEW r \in Selects, SelectionAnswered(r)
    PROVE  SelInv' /\ LatInv'
<1>1. r \in Calls /\ sel \in [Calls -> SelectRecord] /\ sel[r] \in SelectRecord
  BY Numbers DEF SelInv, SelTypes
<1>2. PICK w \in SelectRecord :
        /\ sel' = [sel EXCEPT ![r] = w] /\ w.node \in Nodes \cup {None}
        /\ w.node = sel[r].node /\ w.work = sel[r].work /\ w.ok = sel[r].ok
        /\ w.result = sel[r].result /\ sel[r].page = "waiting" /\ IsAnswer(selFile, r)
        /\ w.page = selFile.status /\ kind' = kind /\ listed' = listed
        /\ known' = known /\ link' = link /\ core' = core /\ cached' = cached
        /\ saved' = saved /\ gMihomoMutex' = gMihomoMutex /\ stateMu' = stateMu
        /\ hook' = hook /\ selFile' = selFile /\ events' = events /\ latest' = latest
        /\ drifted' = drifted
  <2>1. selFile.status \in {"complete", "error"}
    BY DEF SelectionAnswered, IsAnswer
  <2>2. [sel[r] EXCEPT !.page = selFile.status] \in SelectRecord
    BY <1>1, <2>1 DEF SelectRecord, InNative
  <2>3. PICK w \in SelectRecord : w = [sel[r] EXCEPT !.page = selFile.status]
    BY <2>2
  <2>4. /\ w.node \in Nodes \cup {None}
        /\ w.page = selFile.status /\ w.node = sel[r].node /\ w.work = sel[r].work
        /\ w.ok = sel[r].ok /\ w.result = sel[r].result
    BY <1>1, <2>3 DEF SelectRecord
  <2>5. sel' = [sel EXCEPT ![r] = w]
    BY <1>1, <2>3 DEF SelectionAnswered
  <2>6. QED
    BY <1>1, <2>4, <2>5 DEF SelectionAnswered, config, selection, locks, history, latency,
        SelInv, SelTypes
<1>3. sel' \in [Calls -> SelectRecord] /\ sel'[r] = w /\ \A q \in Calls : q # r => sel'[q] = sel[q]
  BY <1>1, <1>2, SelStep
<1>4. SelTypes'
  BY <1>1, <1>2, <1>3, Numbers DEF SelInv, SelTypes
<1>5. LocksOK'
  BY <1>1, <1>2, <1>3, Numbers DEF SelInv, SelTypes, LocksOK, InNative, SelectRecord
<1>6. RestoreOK'
  BY <1>1, <1>2, <1>3, Numbers DEF SelInv, SelTypes, RestoreOK, SelectRecord
<1>7. ResultsOK'
  BY <1>1, <1>2, <1>3, Numbers DEF SelInv, SelTypes, ResultsOK, SelectRecord
<1>8. SelAnswersOK'
  BY <1>1, <1>2, <1>3, Numbers DEF SelInv, SelTypes, ResultsOK, SelAnswersOK, IsAnswer,
      SelectRecord
<1>9. LatestOK'
  BY <1>1, <1>2, <1>3, Numbers DEF SelInv, SelTypes, LatestOK, LocksOK, SelectRecord
<1>10. SavedOK'
  BY <1>1, <1>2, <1>3, Numbers DEF SelInv, SelTypes, SavedOK, LatestOK, SelectRecord
<1>11. CoreOK'
  BY <1>1, <1>2, <1>3, Numbers DEF SelInv, SelTypes, CoreOK, LatestOK, LocksOK, RestoreOK,
      SelectRecord
<1>12. QED
  BY <1>4, <1>5, <1>6, <1>7, <1>8, <1>9, <1>10, <1>11, SameTests DEF SelInv,
      SelectionAnswered, config, selection, locks, history, latency

\* SelectionTimeout keeps the invariant.
LEMMA ReqSelectionTimeout ==
    ASSUME SelInv, LatInv, NEW r \in Selects, SelectionTimeout(r)
    PROVE  SelInv' /\ LatInv'
<1>1. r \in Calls /\ sel \in [Calls -> SelectRecord] /\ sel[r] \in SelectRecord
  BY Numbers DEF SelInv, SelTypes
<1>2. PICK w \in SelectRecord :
        /\ sel' = [sel EXCEPT ![r] = w] /\ w.node \in Nodes \cup {None}
        /\ w.node = sel[r].node /\ w.work = sel[r].work /\ w.ok = sel[r].ok
        /\ w.result = sel[r].result /\ sel[r].page = "waiting" /\ w.page = "timeout"
        /\ kind' = kind /\ listed' = listed /\ known' = known /\ link' = link
        /\ core' = core /\ cached' = cached /\ saved' = saved
        /\ gMihomoMutex' = gMihomoMutex /\ stateMu' = stateMu /\ hook' = hook
        /\ selFile' = selFile /\ events' = events /\ latest' = latest
        /\ drifted' = drifted
  BY <1>1, Numbers DEF SelectRecord, InNative, SelectionTimeout, config, selection, locks,
      history, latency, SelInv, SelTypes
<1>3. sel' \in [Calls -> SelectRecord] /\ sel'[r] = w /\ \A q \in Calls : q # r => sel'[q] = sel[q]
  BY <1>1, <1>2, SelStep
<1>4. SelTypes'
  BY <1>1, <1>2, <1>3, Numbers DEF SelInv, SelTypes
<1>5. LocksOK'
  BY <1>1, <1>2, <1>3, Numbers DEF SelInv, SelTypes, LocksOK, InNative, SelectRecord
<1>6. RestoreOK'
  BY <1>1, <1>2, <1>3, Numbers DEF SelInv, SelTypes, RestoreOK, SelectRecord
<1>7. ResultsOK'
  BY <1>1, <1>2, <1>3, Numbers DEF SelInv, SelTypes, ResultsOK, SelectRecord
<1>8. SelAnswersOK'
  BY <1>1, <1>2, <1>3, Numbers DEF SelInv, SelTypes, ResultsOK, SelAnswersOK, IsAnswer,
      SelectRecord
<1>9. LatestOK'
  BY <1>1, <1>2, <1>3, Numbers DEF SelInv, SelTypes, LatestOK, LocksOK, SelectRecord
<1>10. SavedOK'
  BY <1>1, <1>2, <1>3, Numbers DEF SelInv, SelTypes, SavedOK, LatestOK, SelectRecord
<1>11. CoreOK'
  BY <1>1, <1>2, <1>3, Numbers DEF SelInv, SelTypes, CoreOK, LatestOK, LocksOK, RestoreOK,
      SelectRecord
<1>12. QED
  BY <1>4, <1>5, <1>6, <1>7, <1>8, <1>9, <1>10, <1>11, SameTests DEF SelInv,
      SelectionTimeout, config, selection, locks, history, latency

\* RunProductProxySelection keeps the invariant.
LEMMA ReqRunProductProxySelection ==
    ASSUME SelInv, LatInv, NEW r \in Calls, RunProductProxySelection(r)
    PROVE  SelInv' /\ LatInv'
<1>1. r \in Calls /\ sel \in [Calls -> SelectRecord] /\ sel[r] \in SelectRecord
  BY Numbers DEF SelInv, SelTypes
<1>2. PICK w \in SelectRecord :
        /\ sel' = [sel EXCEPT ![r] = w] /\ w.node \in Nodes \cup {None}
        /\ w.node = sel[r].node /\ w.page = sel[r].page /\ w.ok = sel[r].ok
        /\ sel[r].work = "sent"
        /\ \/ /\ link = "up" /\ w.work = "queued" /\ w.result = sel[r].result
              /\ selFile' = selFile
           \/ /\ w.work = "end" /\ w.result = "error"
              /\ selFile' = [id |-> r, status |-> "error"]
        /\ kind' = kind /\ listed' = listed /\ known' = known /\ link' = link
        /\ core' = core /\ cached' = cached /\ saved' = saved
        /\ gMihomoMutex' = gMihomoMutex /\ stateMu' = stateMu /\ hook' = hook
        /\ events' = events /\ latest' = latest /\ drifted' = drifted
  BY <1>1, Numbers DEF SelectRecord, InNative, RunProductProxySelection, Answer, config,
      selection, locks, history, latency, SelInv, SelTypes
<1>3. sel' \in [Calls -> SelectRecord] /\ sel'[r] = w /\ \A q \in Calls : q # r => sel'[q] = sel[q]
  BY <1>1, <1>2, SelStep
<1>4. SelTypes'
  BY <1>1, <1>2, <1>3, Numbers DEF SelInv, SelTypes
<1>5. LocksOK'
  BY <1>1, <1>2, <1>3, Numbers DEF SelInv, SelTypes, LocksOK, InNative, SelectRecord
<1>6. RestoreOK'
  BY <1>1, <1>2, <1>3, Numbers DEF SelInv, SelTypes, RestoreOK, SelectRecord
<1>7. ResultsOK'
  BY <1>1, <1>2, <1>3, Numbers DEF SelInv, SelTypes, ResultsOK, SelectRecord
<1>8. SelAnswersOK'
  BY <1>1, <1>2, <1>3, Numbers DEF SelInv, SelTypes, ResultsOK, SelAnswersOK, IsAnswer,
      SelectRecord
<1>9. LatestOK'
  BY <1>1, <1>2, <1>3, Numbers DEF SelInv, SelTypes, LatestOK, LocksOK, SelectRecord
<1>10. SavedOK'
  BY <1>1, <1>2, <1>3, Numbers DEF SelInv, SelTypes, SavedOK, LatestOK, SelectRecord
<1>11. CoreOK'
  BY <1>1, <1>2, <1>3, Numbers DEF SelInv, SelTypes, CoreOK, LatestOK, LocksOK, RestoreOK,
      SelectRecord
<1>12. QED
  BY <1>4, <1>5, <1>6, <1>7, <1>8, <1>9, <1>10, <1>11, SameTests DEF SelInv,
      RunProductProxySelection, config, selection, locks, history, latency

\* SelectMihomoProxy keeps the invariant.
LEMMA ReqSelectMihomoProxy ==
    ASSUME SelInv, LatInv, NEW r \in Calls, SelectMihomoProxy(r)
    PROVE  SelInv' /\ LatInv'
<1>1. r \in Calls /\ sel \in [Calls -> SelectRecord] /\ sel[r] \in SelectRecord
  BY Numbers DEF SelInv, SelTypes
<1>2. PICK w \in SelectRecord :
        /\ sel' = [sel EXCEPT ![r] = w] /\ w.node \in Nodes \cup {None}
        /\ w.node = sel[r].node /\ w.page = sel[r].page /\ w.ok = sel[r].ok
        /\ w.result = sel[r].result /\ sel[r].work = "queued" /\ gMihomoMutex = Free
        /\ gMihomoMutex' = r /\ w.work = "native" /\ kind' = kind /\ listed' = listed
        /\ known' = known /\ link' = link /\ core' = core /\ cached' = cached
        /\ saved' = saved /\ stateMu' = stateMu /\ hook' = hook /\ selFile' = selFile
        /\ events' = events /\ latest' = latest /\ drifted' = drifted
  BY <1>1, Numbers DEF SelectRecord, InNative, SelectMihomoProxy, config, selection,
      locks, history, latency, SelInv, SelTypes
<1>3. sel' \in [Calls -> SelectRecord] /\ sel'[r] = w /\ \A q \in Calls : q # r => sel'[q] = sel[q]
  BY <1>1, <1>2, SelStep
<1>4. SelTypes'
  BY <1>1, <1>2, <1>3, Numbers DEF SelInv, SelTypes
<1>5. LocksOK'
  BY <1>1, <1>2, <1>3, Numbers DEF SelInv, SelTypes, LocksOK, InNative, SelectRecord
<1>6. RestoreOK'
  BY <1>1, <1>2, <1>3, Numbers DEF SelInv, SelTypes, RestoreOK, SelectRecord
<1>7. ResultsOK'
  BY <1>1, <1>2, <1>3, Numbers DEF SelInv, SelTypes, ResultsOK, SelectRecord
<1>8. SelAnswersOK'
  BY <1>1, <1>2, <1>3, Numbers DEF SelInv, SelTypes, ResultsOK, SelAnswersOK, IsAnswer,
      SelectRecord
<1>9. LatestOK'
  BY <1>1, <1>2, <1>3, Numbers DEF SelInv, SelTypes, LatestOK, LocksOK, SelectRecord
<1>10. SavedOK'
  BY <1>1, <1>2, <1>3, Numbers DEF SelInv, SelTypes, SavedOK, LatestOK, SelectRecord
<1>11. CoreOK'
  BY <1>1, <1>2, <1>3, Numbers DEF SelInv, SelTypes, CoreOK, LatestOK, LocksOK, RestoreOK,
      SelectRecord
<1>12. QED
  BY <1>4, <1>5, <1>6, <1>7, <1>8, <1>9, <1>10, <1>11, SameTests DEF SelInv,
      SelectMihomoProxy, config, selection, locks, history, latency

\* SelectProxy keeps the invariant.
LEMMA ReqSelectProxy ==
    ASSUME SelInv, LatInv, NEW r \in Calls, SelectProxy(r)
    PROVE  SelInv' /\ LatInv'
<1>1. r \in Calls /\ sel \in [Calls -> SelectRecord] /\ sel[r] \in SelectRecord
  BY Numbers DEF SelInv, SelTypes
<1>2. PICK w \in SelectRecord :
        /\ sel' = [sel EXCEPT ![r] = w] /\ w.node \in Nodes \cup {None}
        /\ w.node = sel[r].node /\ w.page = sel[r].page /\ w.result = sel[r].result
        /\ sel[r].work = "native" /\ stateMu = Free /\ gMihomoMutex' = Free
        /\ stateMu' = Free /\ w.work = "answered"
        /\ \/ w.ok = TRUE /\ core' = w.node /\ cached' = w.node /\ latest' = r
           \/ w.ok = FALSE /\ core' = core /\ cached' = cached /\ latest' = latest
        /\ kind' = kind /\ listed' = listed /\ known' = known /\ link' = link
        /\ saved' = saved /\ hook' = hook /\ selFile' = selFile /\ events' = events
        /\ drifted' = drifted
  BY <1>1, Numbers DEF SelectRecord, InNative, SelectProxy, Release, Set, SetSelected,
      config, selection, locks, history, latency, SelInv, SelTypes
<1>3. sel' \in [Calls -> SelectRecord] /\ sel'[r] = w /\ \A q \in Calls : q # r => sel'[q] = sel[q]
  BY <1>1, <1>2, SelStep
<1>4. SelTypes'
  BY <1>1, <1>2, <1>3, Numbers DEF SelInv, SelTypes
<1>5. LocksOK'
  BY <1>1, <1>2, <1>3, Numbers DEF SelInv, SelTypes, LocksOK, InNative, SelectRecord
<1>6. RestoreOK'
  BY <1>1, <1>2, <1>3, Numbers DEF SelInv, SelTypes, RestoreOK, SelectRecord
<1>7. ResultsOK'
  BY <1>1, <1>2, <1>3, Numbers DEF SelInv, SelTypes, ResultsOK, SelectRecord
<1>8. SelAnswersOK'
  BY <1>1, <1>2, <1>3, Numbers DEF SelInv, SelTypes, ResultsOK, SelAnswersOK, IsAnswer,
      SelectRecord
<1>9. LatestOK'
  BY <1>1, <1>2, <1>3, Numbers DEF SelInv, SelTypes, LatestOK, LocksOK, SelectRecord
<1>10. SavedOK'
  BY <1>1, <1>2, <1>3, Numbers DEF SelInv, SelTypes, SavedOK, LatestOK, SelectRecord
<1>11. CoreOK'
  BY <1>1, <1>2, <1>3, Numbers DEF SelInv, SelTypes, CoreOK, LatestOK, LocksOK, RestoreOK,
      SelectRecord
<1>12. QED
  BY <1>4, <1>5, <1>6, <1>7, <1>8, <1>9, <1>10, <1>11, SameTests DEF SelInv, SelectProxy,
      config, selection, locks, history, latency

\* SelectProxyTests keeps the invariant.
LEMMA ReqSelectProxyTests ==
    ASSUME SelInv, LatInv, NEW r \in Calls, SelectProxyTests(r)
    PROVE  SelInv' /\ LatInv'
<1>1. r \in Calls /\ sel \in [Calls -> SelectRecord] /\ sel[r] \in SelectRecord
  BY Numbers DEF SelInv, SelTypes
<1>2. PICK w \in SelectRecord :
        /\ sel' = [sel EXCEPT ![r] = w] /\ w.node \in Nodes \cup {None}
        /\ w.node = sel[r].node /\ w.page = sel[r].page /\ w.ok = sel[r].ok
        /\ w.result = sel[r].result /\ sel[r].work = "native" /\ stateMu = Free
        /\ stateMu' = r /\ w.work = "testing" /\ core' = w.node /\ latest' = r
        /\ kind' = kind /\ listed' = listed /\ known' = known /\ link' = link
        /\ cached' = cached /\ saved' = saved /\ gMihomoMutex' = gMihomoMutex
        /\ hook' = hook /\ selFile' = selFile /\ events' = events /\ drifted' = drifted
  <2>1. [sel[r] EXCEPT !.work = "testing"] \in SelectRecord
    BY <1>1 DEF SelectRecord, InNative
  <2>2. PICK w \in SelectRecord : w = [sel[r] EXCEPT !.work = "testing"]
    BY <2>1
  <2>3. /\ w.node \in Nodes \cup {None}
        /\ w.work = "testing" /\ w.node = sel[r].node /\ w.page = sel[r].page
        /\ w.ok = sel[r].ok /\ w.result = sel[r].result
    BY <1>1, <2>2 DEF SelectRecord
  <2>4. sel' = [sel EXCEPT ![r] = w]
    BY <1>1, <2>2 DEF SelectProxyTests
  <2>5. QED
    BY <1>1, <2>3, <2>4 DEF SelectProxyTests, Set, config, selection, locks, history,
        latency, SelInv, SelTypes
<1>3. sel' \in [Calls -> SelectRecord] /\ sel'[r] = w /\ \A q \in Calls : q # r => sel'[q] = sel[q]
  BY <1>1, <1>2, SelStep
<1>4. SelTypes'
  BY <1>1, <1>2, <1>3, Numbers DEF SelInv, SelTypes
<1>5. LocksOK'
  BY <1>1, <1>2, <1>3, Numbers DEF SelInv, SelTypes, LocksOK, InNative, SelectRecord
<1>6. RestoreOK'
  BY <1>1, <1>2, <1>3, Numbers DEF SelInv, SelTypes, RestoreOK, SelectRecord
<1>7. ResultsOK'
  BY <1>1, <1>2, <1>3, Numbers DEF SelInv, SelTypes, ResultsOK, SelectRecord
<1>8. SelAnswersOK'
  BY <1>1, <1>2, <1>3, Numbers DEF SelInv, SelTypes, ResultsOK, SelAnswersOK, IsAnswer,
      SelectRecord
<1>9. LatestOK'
  BY <1>1, <1>2, <1>3, Numbers DEF SelInv, SelTypes, LatestOK, LocksOK, SelectRecord
<1>10. SavedOK'
  BY <1>1, <1>2, <1>3, Numbers DEF SelInv, SelTypes, SavedOK, LatestOK, SelectRecord
<1>11. CoreOK'
  BY <1>1, <1>2, <1>3, Numbers DEF SelInv, SelTypes, CoreOK, LatestOK, LocksOK, RestoreOK,
      SelectRecord
<1>12. QED
  BY <1>4, <1>5, <1>6, <1>7, <1>8, <1>9, <1>10, <1>11, SameTests DEF SelInv,
      SelectProxyTests, config, selection, locks, history, latency

\* TestEnds keeps the invariant.
LEMMA ReqTestEnds ==
    ASSUME SelInv, LatInv, NEW r \in Calls, TestEnds(r)
    PROVE  SelInv' /\ LatInv'
<1>1. r \in Calls /\ sel \in [Calls -> SelectRecord] /\ sel[r] \in SelectRecord
  BY Numbers DEF SelInv, SelTypes
<1>2. PICK w \in SelectRecord :
        /\ sel' = [sel EXCEPT ![r] = w] /\ w.node \in Nodes \cup {None}
        /\ w.node = sel[r].node /\ w.page = sel[r].page /\ w.result = sel[r].result
        /\ sel[r].work = "testing" /\ gMihomoMutex' = Free /\ stateMu' = Free
        /\ w.work = "answered" /\ w.ok = TRUE /\ cached' = w.node /\ kind' = kind
        /\ listed' = listed /\ known' = known /\ link' = link /\ core' = core
        /\ saved' = saved /\ hook' = hook /\ selFile' = selFile /\ events' = events
        /\ latest' = latest /\ drifted' = drifted
  <2>1. [sel[r] EXCEPT !.work = "answered", !.ok = TRUE] \in SelectRecord
    BY <1>1 DEF SelectRecord, InNative
  <2>2. PICK w \in SelectRecord : w = [sel[r] EXCEPT !.work = "answered", !.ok = TRUE]
    BY <2>1
  <2>3. /\ w.node \in Nodes \cup {None}
        /\ w.work = "answered" /\ w.ok = TRUE /\ w.node = sel[r].node /\ w.page = sel[r].page
        /\ w.result = sel[r].result
    BY <1>1, <2>2 DEF SelectRecord
  <2>4. sel' = [sel EXCEPT ![r] = w]
    BY <1>1, <2>2 DEF TestEnds, Release
  <2>5. QED
    BY <1>1, <2>3, <2>4 DEF TestEnds, Release, SetSelected, config, selection, locks,
        history, latency, SelInv, SelTypes
<1>3. sel' \in [Calls -> SelectRecord] /\ sel'[r] = w /\ \A q \in Calls : q # r => sel'[q] = sel[q]
  BY <1>1, <1>2, SelStep
<1>4. SelTypes'
  BY <1>1, <1>2, <1>3, Numbers DEF SelInv, SelTypes
<1>5. LocksOK'
  BY <1>1, <1>2, <1>3, Numbers DEF SelInv, SelTypes, LocksOK, InNative, SelectRecord
<1>6. RestoreOK'
  BY <1>1, <1>2, <1>3, Numbers DEF SelInv, SelTypes, RestoreOK, SelectRecord
<1>7. ResultsOK'
  BY <1>1, <1>2, <1>3, Numbers DEF SelInv, SelTypes, ResultsOK, SelectRecord
<1>8. SelAnswersOK'
  BY <1>1, <1>2, <1>3, Numbers DEF SelInv, SelTypes, ResultsOK, SelAnswersOK, IsAnswer,
      SelectRecord
<1>9. LatestOK'
  BY <1>1, <1>2, <1>3, Numbers DEF SelInv, SelTypes, LatestOK, LocksOK, SelectRecord
<1>10. SavedOK'
  BY <1>1, <1>2, <1>3, Numbers DEF SelInv, SelTypes, SavedOK, LatestOK, SelectRecord
<1>11. CoreOK'
  BY <1>1, <1>2, <1>3, Numbers DEF SelInv, SelTypes, CoreOK, LatestOK, LocksOK, RestoreOK,
      SelectRecord
<1>12. QED
  BY <1>4, <1>5, <1>6, <1>7, <1>8, <1>9, <1>10, <1>11, SameTests DEF SelInv, TestEnds,
      config, selection, locks, history, latency

\* TestDials keeps the invariant.
LEMMA ReqTestDials ==
    ASSUME SelInv, LatInv, NEW r \in Calls, TestDials(r)
    PROVE  SelInv' /\ LatInv'
<1>1. r \in Calls /\ sel \in [Calls -> SelectRecord] /\ sel[r] \in SelectRecord
  BY Numbers DEF SelInv, SelTypes
<1>2. PICK w \in SelectRecord :
        /\ sel' = [sel EXCEPT ![r] = w] /\ w.node \in Nodes \cup {None}
        /\ w.node = sel[r].node /\ w.page = sel[r].page /\ w.ok = sel[r].ok
        /\ w.result = sel[r].result /\ sel[r].work = "testing" /\ w.work = "hook"
        /\ kind' = kind /\ listed' = listed /\ known' = known /\ link' = link
        /\ core' = core /\ cached' = cached /\ saved' = saved
        /\ gMihomoMutex' = gMihomoMutex /\ stateMu' = stateMu /\ hook' = hook
        /\ selFile' = selFile /\ events' = events /\ latest' = latest
        /\ drifted' = drifted
  BY <1>1, Numbers DEF SelectRecord, InNative, TestDials, config, selection, locks,
      history, latency, SelInv, SelTypes
<1>3. sel' \in [Calls -> SelectRecord] /\ sel'[r] = w /\ \A q \in Calls : q # r => sel'[q] = sel[q]
  BY <1>1, <1>2, SelStep
<1>4. SelTypes'
  BY <1>1, <1>2, <1>3, Numbers DEF SelInv, SelTypes
<1>5. LocksOK'
  BY <1>1, <1>2, <1>3, Numbers DEF SelInv, SelTypes, LocksOK, InNative, SelectRecord
<1>6. RestoreOK'
  BY <1>1, <1>2, <1>3, Numbers DEF SelInv, SelTypes, RestoreOK, SelectRecord
<1>7. ResultsOK'
  BY <1>1, <1>2, <1>3, Numbers DEF SelInv, SelTypes, ResultsOK, SelectRecord
<1>8. SelAnswersOK'
  BY <1>1, <1>2, <1>3, Numbers DEF SelInv, SelTypes, ResultsOK, SelAnswersOK, IsAnswer,
      SelectRecord
<1>9. LatestOK'
  BY <1>1, <1>2, <1>3, Numbers DEF SelInv, SelTypes, LatestOK, LocksOK, SelectRecord
<1>10. SavedOK'
  BY <1>1, <1>2, <1>3, Numbers DEF SelInv, SelTypes, SavedOK, LatestOK, SelectRecord
<1>11. CoreOK'
  BY <1>1, <1>2, <1>3, Numbers DEF SelInv, SelTypes, CoreOK, LatestOK, LocksOK, RestoreOK,
      SelectRecord
<1>12. QED
  BY <1>4, <1>5, <1>6, <1>7, <1>8, <1>9, <1>10, <1>11, SameTests DEF SelInv, TestDials,
      config, selection, locks, history, latency

\* SelectionResumes keeps the invariant.
LEMMA ReqSelectionResumes ==
    ASSUME SelInv, LatInv, NEW r \in Calls, SelectionResumes(r)
    PROVE  SelInv' /\ LatInv'
<1>1. r \in Calls /\ sel \in [Calls -> SelectRecord] /\ sel[r] \in SelectRecord
  BY Numbers DEF SelInv, SelTypes
<1>2. PICK w \in SelectRecord :
        /\ sel' = [sel EXCEPT ![r] = w] /\ w.node \in Nodes \cup {None}
        /\ w.node = sel[r].node /\ w.page = sel[r].page /\ w.ok = sel[r].ok
        /\ r \in Selects /\ sel[r].work = "answered" /\ w.work = "end"
        /\ w.result \in {"complete", "error"}
        /\ selFile' = [id |-> r, status |-> w.result]
        /\ \/ /\ sel[r].ok = TRUE /\ saved' \in {saved, w.node} /\ drifted' \in BOOLEAN
              /\ drifted' = FALSE => (latest = r /\ saved' = w.node)
           \/ sel[r].ok = FALSE /\ saved' = saved /\ drifted' = drifted
        /\ kind' = kind /\ listed' = listed /\ known' = known /\ link' = link
        /\ core' = core /\ cached' = cached /\ gMihomoMutex' = gMihomoMutex
        /\ stateMu' = stateMu /\ hook' = hook /\ events' = events /\ latest' = latest
  <2>1. PICK s \in {"complete", "error"} :
            /\ selFile' = [id |-> r, status |-> s]
            /\ sel' = [sel EXCEPT ![r].work = "end", ![r].result = s]
    BY DEF SelectionResumes, Answer
  <2>2. [sel[r] EXCEPT !.work = "end", !.result = s] \in SelectRecord
    BY <1>1 DEF SelectRecord, InNative
  <2>3. PICK w \in SelectRecord : w = [sel[r] EXCEPT !.work = "end", !.result = s]
    BY <2>2
  <2>4. /\ w.node \in Nodes \cup {None}
        /\ w.node = sel[r].node /\ w.page = sel[r].page /\ w.ok = sel[r].ok
        /\ w.work = "end" /\ w.result = s
    BY <1>1, <2>3 DEF SelectRecord
  <2>5. sel' = [sel EXCEPT ![r] = w]
    BY <1>1, <2>1, <2>3
  <2>6. sel[r].ok \in BOOLEAN
    BY <1>1 DEF SelectRecord
  <2>7. \/ /\ sel[r].ok = TRUE /\ saved' \in {saved, sel[r].node} /\ drifted' \in BOOLEAN
           /\ drifted' = FALSE => (latest = r /\ saved' = sel[r].node)
        \/ sel[r].ok = FALSE /\ saved' = saved /\ drifted' = drifted
    <3>1. CASE sel[r].ok = TRUE
      <4>1. /\ saved' = IF sel[r].node \in listed THEN sel[r].node ELSE saved
            /\ drifted' = (sel[r].node \notin listed \/ latest # r)
        BY <3>1 DEF SelectionResumes, Switched, SelectLocalProxy
      <4>2. QED
        BY <3>1, <4>1
    <3>2. CASE sel[r].ok = FALSE
      BY <3>2 DEF SelectionResumes, Switched
    <3>3. QED
      BY <2>6, <3>1, <3>2
  <2>8. /\ r \in Selects /\ sel[r].work = "answered" /\ kind' = kind /\ listed' = listed
        /\ known' = known /\ link' = link
        /\ core' = core /\ cached' = cached /\ gMihomoMutex' = gMihomoMutex
        /\ stateMu' = stateMu /\ hook' = hook /\ events' = events /\ latest' = latest
    BY DEF SelectionResumes, config, selection, locks, history, latency
  <2>9. QED
    BY <2>1, <2>4, <2>5, <2>7, <2>8
<1>3. sel' \in [Calls -> SelectRecord] /\ sel'[r] = w /\ \A q \in Calls : q # r => sel'[q] = sel[q]
  BY <1>1, <1>2, SelStep
<1>4. SelTypes'
  BY <1>1, <1>2, <1>3, Numbers DEF SelInv, SelTypes
<1>5. LocksOK'
  BY <1>1, <1>2, <1>3, Numbers DEF SelInv, SelTypes, LocksOK, InNative, SelectRecord
<1>6. RestoreOK'
  BY <1>1, <1>2, <1>3, Numbers DEF SelInv, SelTypes, RestoreOK, SelectRecord
<1>7. ResultsOK'
  BY <1>1, <1>2, <1>3, Numbers DEF SelInv, SelTypes, ResultsOK, SelectRecord
<1>8. SelAnswersOK'
  BY <1>1, <1>2, <1>3, Numbers DEF SelInv, SelTypes, ResultsOK, SelAnswersOK, IsAnswer,
      SelectRecord
<1>9. LatestOK'
  BY <1>1, <1>2, <1>3, Numbers DEF SelInv, SelTypes, LatestOK, LocksOK, SelectRecord
<1>10. SavedOK'
  BY <1>1, <1>2, <1>3, Numbers DEF SelInv, SelTypes, SavedOK, LatestOK, SelectRecord
<1>11. CoreOK'
  BY <1>1, <1>2, <1>3, Numbers DEF SelInv, SelTypes, CoreOK, LatestOK, LocksOK, RestoreOK,
      SelectRecord
<1>12. QED
  BY <1>4, <1>5, <1>6, <1>7, <1>8, <1>9, <1>10, <1>11, SameTests DEF SelInv,
      SelectionResumes, config, selection, locks, history, latency

\* Disconnect keeps the invariant.
LEMMA ReqDisconnect ==
    ASSUME SelInv, LatInv, Disconnect
    PROVE  SelInv' /\ LatInv'
<1>1. SelTypes'
  BY RequestsAssumption, Numbers DEF SelInv, SelTypes, Disconnect, Event, config,
      selection, locks, history, latency
<1>2. LocksOK'
  BY Numbers DEF SelInv, SelTypes, LocksOK, InNative, Disconnect, Event, config,
      selection, locks, history, latency
<1>3. RestoreOK'
  BY Numbers DEF SelInv, SelTypes, RestoreOK, Disconnect, Event, config, selection, locks,
      history, latency
<1>4. ResultsOK'
  BY Numbers DEF SelInv, SelTypes, ResultsOK, Disconnect, Event, config, selection, locks,
      history, latency
<1>5. SelAnswersOK'
  BY Numbers DEF SelInv, SelTypes, ResultsOK, SelAnswersOK, IsAnswer, Disconnect, Event,
      config, selection, locks, history, latency
<1>6. LatestOK'
  BY Numbers DEF SelInv, SelTypes, LatestOK, LocksOK, Disconnect, Event, config,
      selection, locks, history, latency
<1>7. SavedOK'
  BY Numbers DEF SelInv, SelTypes, SavedOK, LatestOK, Disconnect, Event, config,
      selection, locks, history, latency
<1>8. CoreOK'
  BY Numbers DEF SelInv, SelTypes, CoreOK, LatestOK, LocksOK, RestoreOK, Disconnect,
      Event, config, selection, locks, history, latency
<1>9. QED
  BY <1>1, <1>2, <1>3, <1>4, <1>5, <1>6, <1>7, <1>8, SameTests DEF SelInv, Disconnect,
      Event, config, selection, locks, history, latency

\* ProfileUpdate keeps the invariant.
LEMMA ReqProfileUpdate ==
    ASSUME SelInv, LatInv, ProfileUpdate
    PROVE  SelInv' /\ LatInv'
<1>1. SelTypes'
  BY RequestsAssumption, Numbers DEF SelInv, SelTypes, ProfileUpdate, Event, config,
      selection, locks, history, latency
<1>2. LocksOK'
  BY Numbers DEF SelInv, SelTypes, LocksOK, InNative, ProfileUpdate, Event, config,
      selection, locks, history, latency
<1>3. RestoreOK'
  BY Numbers DEF SelInv, SelTypes, RestoreOK, ProfileUpdate, Event, config, selection,
      locks, history, latency
<1>4. ResultsOK'
  BY Numbers DEF SelInv, SelTypes, ResultsOK, ProfileUpdate, Event, config, selection,
      locks, history, latency
<1>5. SelAnswersOK'
  BY Numbers DEF SelInv, SelTypes, ResultsOK, SelAnswersOK, IsAnswer, ProfileUpdate,
      Event, config, selection, locks, history, latency
<1>6. LatestOK'
  BY Numbers DEF SelInv, SelTypes, LatestOK, LocksOK, ProfileUpdate, Event, config,
      selection, locks, history, latency
<1>7. SavedOK'
  BY Numbers DEF SelInv, SelTypes, SavedOK, LatestOK, ProfileUpdate, Event, config,
      selection, locks, history, latency
<1>8. CoreOK'
  BY Numbers DEF SelInv, SelTypes, CoreOK, LatestOK, LocksOK, RestoreOK, ProfileUpdate,
      Event, config, selection, locks, history, latency
<1>9. QED
  BY <1>1, <1>2, <1>3, <1>4, <1>5, <1>6, <1>7, <1>8, SameTests DEF SelInv, ProfileUpdate,
      Event, config, selection, locks, history, latency

\* FindAliveProxy keeps the invariant.
LEMMA ReqFindAliveProxy ==
    ASSUME SelInv, LatInv, FindAliveProxy
    PROVE  SelInv' /\ LatInv'
<1>1. SelTypes'
  BY RequestsAssumption, Numbers DEF SelInv, SelTypes, FindAliveProxy, Event, config,
      selection, locks, history, latency
<1>2. LocksOK'
  BY Numbers DEF SelInv, SelTypes, LocksOK, InNative, FindAliveProxy, Event, config,
      selection, locks, history, latency
<1>3. RestoreOK'
  BY Numbers DEF SelInv, SelTypes, RestoreOK, FindAliveProxy, Event, config, selection,
      locks, history, latency
<1>4. ResultsOK'
  BY Numbers DEF SelInv, SelTypes, ResultsOK, FindAliveProxy, Event, config, selection,
      locks, history, latency
<1>5. SelAnswersOK'
  BY Numbers DEF SelInv, SelTypes, ResultsOK, SelAnswersOK, IsAnswer, FindAliveProxy,
      Event, config, selection, locks, history, latency
<1>6. LatestOK'
  BY Numbers DEF SelInv, SelTypes, LatestOK, LocksOK, FindAliveProxy, Event, config,
      selection, locks, history, latency
<1>7. SavedOK'
  BY Numbers DEF SelInv, SelTypes, SavedOK, LatestOK, FindAliveProxy, Event, config,
      selection, locks, history, latency
<1>8. CoreOK'
  BY Numbers DEF SelInv, SelTypes, CoreOK, LatestOK, LocksOK, RestoreOK, FindAliveProxy,
      Event, config, selection, locks, history, latency
<1>9. QED
  BY <1>1, <1>2, <1>3, <1>4, <1>5, <1>6, <1>7, <1>8, SameTests DEF SelInv, FindAliveProxy,
      Event, config, selection, locks, history, latency

\* HookCalled keeps the invariant.
LEMMA ReqHookCalled ==
    ASSUME SelInv, LatInv, HookCalled
    PROVE  SelInv' /\ LatInv'
<1>1. SelTypes'
  BY RequestsAssumption, Numbers DEF SelInv, SelTypes, HookCalled, config, selection,
      locks, history, latency
<1>2. LocksOK'
  BY Numbers DEF SelInv, SelTypes, LocksOK, InNative, HookCalled, config, selection,
      locks, history, latency
<1>3. RestoreOK'
  BY Numbers DEF SelInv, SelTypes, RestoreOK, HookCalled, config, selection, locks,
      history, latency
<1>4. ResultsOK'
  BY Numbers DEF SelInv, SelTypes, ResultsOK, HookCalled, config, selection, locks,
      history, latency
<1>5. SelAnswersOK'
  BY Numbers DEF SelInv, SelTypes, ResultsOK, SelAnswersOK, IsAnswer, HookCalled, config,
      selection, locks, history, latency
<1>6. LatestOK'
  BY Numbers DEF SelInv, SelTypes, LatestOK, LocksOK, HookCalled, config, selection,
      locks, history, latency
<1>7. SavedOK'
  BY Numbers DEF SelInv, SelTypes, SavedOK, LatestOK, HookCalled, config, selection,
      locks, history, latency
<1>8. CoreOK'
  BY Numbers DEF SelInv, SelTypes, CoreOK, LatestOK, LocksOK, RestoreOK, HookCalled,
      config, selection, locks, history, latency
<1>9. QED
  BY <1>1, <1>2, <1>3, <1>4, <1>5, <1>6, <1>7, <1>8, SameTests DEF SelInv, HookCalled,
      config, selection, locks, history, latency

\* HookEnters keeps the invariant.
LEMMA ReqHookEnters ==
    ASSUME SelInv, LatInv, HookEnters
    PROVE  SelInv' /\ LatInv'
<1>1. SelTypes'
  BY RequestsAssumption, Numbers DEF SelInv, SelTypes, HookEnters, config, selection,
      locks, history, latency
<1>2. LocksOK'
  BY Numbers DEF SelInv, SelTypes, LocksOK, InNative, HookEnters, config, selection,
      locks, history, latency
<1>3. RestoreOK'
  BY Numbers DEF SelInv, SelTypes, RestoreOK, HookEnters, config, selection, locks,
      history, latency
<1>4. ResultsOK'
  BY Numbers DEF SelInv, SelTypes, ResultsOK, HookEnters, config, selection, locks,
      history, latency
<1>5. SelAnswersOK'
  BY Numbers DEF SelInv, SelTypes, ResultsOK, SelAnswersOK, IsAnswer, HookEnters, config,
      selection, locks, history, latency
<1>6. LatestOK'
  BY Numbers DEF SelInv, SelTypes, LatestOK, LocksOK, HookEnters, config, selection,
      locks, history, latency
<1>7. SavedOK'
  BY Numbers DEF SelInv, SelTypes, SavedOK, LatestOK, HookEnters, config, selection,
      locks, history, latency
<1>8. CoreOK'
  BY Numbers DEF SelInv, SelTypes, CoreOK, LatestOK, LocksOK, RestoreOK, HookEnters,
      config, selection, locks, history, latency
<1>9. QED
  BY <1>1, <1>2, <1>3, <1>4, <1>5, <1>6, <1>7, <1>8, SameTests DEF SelInv, HookEnters,
      config, selection, locks, history, latency

\* Start keeps the invariant: both mutexes are free, so no call is testing a node.
LEMMA ReqStart ==
    ASSUME SelInv, LatInv, Start
    PROVE  SelInv' /\ LatInv'
<1>1. /\ sel \in [Calls -> SelectRecord] /\ Restore \in Calls
      /\ sel[Restore].work \in {"none", "end", "dead"}
  BY Numbers DEF SelInv, SelTypes, RestoreOK, Start
<1>2. /\ link = "down" /\ gMihomoMutex = Free /\ stateMu = Free /\ known' = listed
      /\ core' = cached /\ link' \in {"up", "restoring"} /\ kind' = kind /\ listed' = listed
      /\ cached' = cached /\ saved' = saved /\ gMihomoMutex' = gMihomoMutex
      /\ stateMu' = stateMu /\ hook' = hook /\ selFile' = selFile /\ events' = events
      /\ latest' = latest /\ drifted' = drifted /\ UNCHANGED latency
  BY DEF Start, locks, history
<1>3. /\ sel' \in [Calls -> SelectRecord]
      /\ \A q \in Calls : q # Restore => sel'[q] = sel[q]
      /\ \/ link' = "up" /\ sel'[Restore] = sel[Restore]
         \/ link' = "restoring" /\ sel'[Restore].work = "queued"
  <2>1. CASE saved = None
    BY <1>1, <2>1 DEF Start
  <2>2. CASE saved # None
    <3>1. [NoSelect EXCEPT !.node = saved, !.work = "queued"] \in SelectRecord
      BY DEF NoSelect, SelectRecord, InNative, SelInv, SelTypes
    <3>2. PICK w \in SelectRecord : w = [NoSelect EXCEPT !.node = saved, !.work = "queued"]
      BY <3>1
    <3>3. w.work = "queued"
      BY <3>2 DEF NoSelect
    <3>4. sel' = [sel EXCEPT ![Restore] = w] /\ link' = "restoring"
      BY <2>2, <3>2 DEF Start
    <3>5. QED
      BY <1>1, <3>3, <3>4, SelStep
  <2>3. QED
    BY <2>1, <2>2
<1>4. \A r \in Calls : sel[r].work \notin InNative
  BY <1>2, Numbers DEF SelInv, LocksOK
<1>5. SelTypes'
  BY <1>1, <1>2, <1>3, <1>4, Numbers DEF SelInv, SelTypes, SelectRecord
<1>6. LocksOK'
  BY <1>1, <1>2, <1>3, <1>4, Numbers DEF SelInv, SelTypes, LocksOK, InNative, SelectRecord
<1>7. RestoreOK'
  BY <1>1, <1>2, <1>3, <1>4, Numbers DEF SelInv, SelTypes, RestoreOK, SelectRecord
<1>8. ResultsOK'
  BY <1>1, <1>2, <1>3, <1>4, Numbers DEF SelInv, SelTypes, ResultsOK, SelectRecord
<1>9. SelAnswersOK'
  BY <1>1, <1>2, <1>3, <1>4, Numbers DEF SelInv, SelTypes, ResultsOK, SelAnswersOK,
      IsAnswer, SelectRecord
<1>10. LatestOK'
  BY <1>1, <1>2, <1>3, <1>4, Numbers DEF SelInv, SelTypes, LatestOK, LocksOK, SelectRecord
<1>11. SavedOK'
  BY <1>1, <1>2, <1>3, <1>4, Numbers DEF SelInv, SelTypes, SavedOK, LatestOK, SelectRecord
<1>12. CoreOK'
  BY <1>1, <1>2, <1>3, <1>4, Numbers DEF SelInv, SelTypes, CoreOK, LatestOK, LocksOK,
      RestoreOK, SelectRecord
<1>13. QED
  BY <1>2, <1>5, <1>6, <1>7, <1>8, <1>9, <1>10, <1>11, <1>12, SameTests DEF SelInv

\* Restored keeps the invariant: unless it reports a drift, its own selection is the latest.
LEMMA ReqRestored ==
    ASSUME SelInv, LatInv, Restored
    PROVE  SelInv' /\ LatInv'
<1>1. sel \in [Calls -> SelectRecord] /\ Restore \in Calls /\ sel[Restore] \in SelectRecord
  BY Numbers DEF SelInv, SelTypes
<1>2. /\ link = "restoring" /\ sel[Restore].work = "answered" /\ link' = "up"
      /\ kind' = kind /\ listed' = listed /\ known' = known /\ core' = core
      /\ cached' = cached /\ saved' = saved /\ gMihomoMutex' = gMihomoMutex
      /\ stateMu' = stateMu /\ hook' = hook /\ selFile' = selFile /\ events' = events
      /\ latest' = latest /\ UNCHANGED latency
      /\ drifted' \in BOOLEAN
      /\ drifted' = FALSE =>
            sel[Restore].ok = TRUE /\ latest = Restore /\ sel[Restore].node = saved
  <2>1. sel[Restore].ok \in BOOLEAN
    BY <1>1 DEF SelectRecord
  <2>2. drifted' = (~sel[Restore].ok \/ latest # Restore \/ sel[Restore].node # saved)
    BY DEF Restored
  <2>3. /\ drifted' \in BOOLEAN
        /\ drifted' = FALSE =>
              sel[Restore].ok = TRUE /\ latest = Restore /\ sel[Restore].node = saved
    BY <2>1, <2>2
  <2>4. QED
    BY <2>3 DEF Restored, config, selection, locks
<1>3. /\ sel' \in [Calls -> SelectRecord]
      /\ \A q \in Calls : q # Restore => sel'[q] = sel[q]
      /\ sel'[Restore].work = "end"
  <2>1. [sel[Restore] EXCEPT !.work = "end"] \in SelectRecord
    BY <1>1 DEF SelectRecord, InNative
  <2>2. PICK w \in SelectRecord : w = [sel[Restore] EXCEPT !.work = "end"]
    BY <2>1
  <2>3. w.work = "end"
    BY <1>1, <2>2 DEF SelectRecord
  <2>4. sel' = [sel EXCEPT ![Restore] = w]
    BY <1>1, <2>2 DEF Restored
  <2>5. QED
    BY <1>1, <2>3, <2>4, SelStep
<1>4. SelTypes'
  BY <1>1, <1>2, <1>3, Numbers DEF SelInv, SelTypes, SelectRecord
<1>5. LocksOK'
  BY <1>1, <1>2, <1>3, Numbers DEF SelInv, SelTypes, LocksOK, InNative, SelectRecord
<1>6. RestoreOK'
  BY <1>1, <1>2, <1>3, Numbers DEF SelInv, SelTypes, RestoreOK, SelectRecord
<1>7. ResultsOK'
  BY <1>1, <1>2, <1>3, Numbers DEF SelInv, SelTypes, ResultsOK, SelectRecord
<1>8. SelAnswersOK'
  BY <1>1, <1>2, <1>3, Numbers DEF SelInv, SelTypes, ResultsOK, SelAnswersOK, IsAnswer,
      SelectRecord
<1>9. LatestOK'
  BY <1>1, <1>2, <1>3, Numbers DEF SelInv, SelTypes, LatestOK, LocksOK, SelectRecord
<1>10. SavedOK'
  BY <1>1, <1>2, <1>3, Numbers DEF SelInv, SelTypes, SavedOK, LatestOK, SelectRecord
<1>11. CoreOK'
  BY <1>1, <1>2, <1>3, Numbers DEF SelInv, SelTypes, CoreOK, LatestOK, LocksOK, RestoreOK,
      SelectRecord
<1>12. QED
  BY <1>2, <1>4, <1>5, <1>6, <1>7, <1>8, <1>9, <1>10, <1>11, SameTests DEF SelInv

\* Kill keeps the invariant: a handler that dies before it has saved is a drift.
LEMMA ReqKill ==
    ASSUME SelInv, LatInv, Kill
    PROVE  SelInv' /\ LatInv'
<1>1. sel \in [Calls -> SelectRecord] /\ Restore \in Calls
  BY Numbers DEF SelInv, SelTypes
<1>2. /\ link' = "down" /\ gMihomoMutex' = Free /\ stateMu' = Free /\ hook' = "idle"
      /\ kind' = kind /\ listed' = listed /\ known' = known /\ core' = core
      /\ cached' = cached /\ saved' = saved /\ selFile' = selFile
      /\ events' \in 0..MaxEvents /\ latest' = latest /\ latFile' = latFile
      /\ dirty' = {a \in dirty : a[1] = "page"}
  BY RequestsAssumption DEF Kill, Event, config, selection, SelInv, SelTypes
<1>3. /\ drifted' \in BOOLEAN
      /\ drifted' = FALSE =>
            drifted = FALSE /\ \A r \in Calls : sel[r].work # "answered"
  <2>1. drifted' = (drifted \/ \E r \in Calls : sel[r].work = "answered")
    BY DEF Kill
  <2>2. drifted \in BOOLEAN
    BY DEF SelInv, SelTypes
  <2>3. QED
    BY <2>1, <2>2
<1>4. /\ sel' \in [Calls -> SelectRecord]
      /\ \A r \in Calls :
            /\ sel'[r].node = sel[r].node /\ sel'[r].page = sel[r].page
            /\ sel'[r].result = sel[r].result
            /\ \/ sel[r].work \in {"none", "sent", "end"} /\ sel'[r].work = sel[r].work
               \/ sel[r].work \notin {"none", "sent", "end"} /\ sel'[r].work = "dead"
  <2>1. /\ sel' = [r \in Calls |-> sel'[r]]
        /\ \A r \in Calls : sel'[r] = IF sel[r].work \in {"none", "sent", "end"} THEN sel[r]
                                      ELSE [sel[r] EXCEPT !.work = "dead"]
    BY DEF Kill
  <2>2. SUFFICES ASSUME NEW r \in Calls
                 PROVE  /\ sel'[r] \in SelectRecord
                        /\ sel'[r].node = sel[r].node /\ sel'[r].page = sel[r].page
                        /\ sel'[r].result = sel[r].result
                        /\ \/ /\ sel[r].work \in {"none", "sent", "end"}
                              /\ sel'[r].work = sel[r].work
                           \/ /\ sel[r].work \notin {"none", "sent", "end"}
                              /\ sel'[r].work = "dead"
    BY <2>1
  <2>3. sel[r] \in SelectRecord
    BY <1>1
  <2>4. [sel[r] EXCEPT !.work = "dead"] \in SelectRecord
    BY <2>3 DEF SelectRecord, InNative
  <2>5. QED
    BY <2>1, <2>3, <2>4 DEF SelectRecord
<1>5. SelTypes'
  BY <1>1, <1>2, <1>3, <1>4, Numbers DEF SelInv, SelTypes, SelectRecord
<1>6. LocksOK'
  BY <1>1, <1>2, <1>3, <1>4, Numbers DEF SelInv, SelTypes, LocksOK, InNative, SelectRecord
<1>7. RestoreOK'
  BY <1>1, <1>2, <1>3, <1>4, Numbers DEF SelInv, SelTypes, RestoreOK, SelectRecord
<1>8. ResultsOK'
  BY <1>1, <1>2, <1>3, <1>4, Numbers DEF SelInv, SelTypes, ResultsOK, SelectRecord
<1>9. SelAnswersOK'
  BY <1>1, <1>2, <1>3, <1>4, Numbers DEF SelInv, SelTypes, ResultsOK, SelAnswersOK,
      IsAnswer, SelectRecord
<1>10. LatestOK'
  BY <1>1, <1>2, <1>3, <1>4, Numbers DEF SelInv, SelTypes, LatestOK, LocksOK, SelectRecord
<1>11. SavedOK'
  BY <1>1, <1>2, <1>3, <1>4, Numbers DEF SelInv, SelTypes, SavedOK, LatestOK, SelectRecord
<1>12. CoreOK'
  BY <1>1, <1>2, <1>3, <1>4, Numbers DEF SelInv, SelTypes, CoreOK, LatestOK, LocksOK,
      RestoreOK, SelectRecord
<1>13. SelInv'
  BY <1>5, <1>6, <1>7, <1>8, <1>9, <1>10, <1>11, <1>12 DEF SelInv
<1>14. /\ lat \in [Tests -> TestRecord] /\ lat' \in [Tests -> TestRecord]
      /\ \A l \in Tests :
            /\ lat'[l].page = lat[l].page /\ lat'[l].held = lat[l].held
            /\ \/ lat[l].work = "running" /\ lat'[l].work = "dead"
               \/ lat[l].work # "running" /\ lat'[l].work = lat[l].work
  <2>1. /\ lat' = [l \in Tests |-> lat'[l]]
        /\ \A l \in Tests : lat'[l] = IF lat[l].work = "running"
                                      THEN [lat[l] EXCEPT !.work = "dead"] ELSE lat[l]
    BY DEF Kill
  <2>2. lat \in [Tests -> TestRecord]
    BY DEF LatInv, LatTypes
  <2>3. SUFFICES ASSUME NEW l \in Tests
                 PROVE  /\ lat'[l] \in TestRecord
                        /\ lat'[l].page = lat[l].page /\ lat'[l].held = lat[l].held
                        /\ \/ lat[l].work = "running" /\ lat'[l].work = "dead"
                           \/ lat[l].work # "running" /\ lat'[l].work = lat[l].work
    BY <2>1, <2>2
  <2>4. lat[l] \in TestRecord
    BY <2>2
  <2>5. [lat[l] EXCEPT !.work = "dead"] \in TestRecord
    BY <2>4 DEF TestRecord
  <2>6. QED
    BY <2>1, <2>4, <2>5 DEF TestRecord
<1>15. LatTypes'
  BY <1>2, <1>14 DEF LatInv, LatTypes
<1>16. LatAnswersOK'
  BY <1>2, <1>14 DEF LatInv, LatAnswersOK, IsAnswer
<1>17. ReadersOK'
  BY <1>2, <1>14 DEF LatInv, LatTypes, ReadersOK
<1>18. QED
  BY <1>13, <1>15, <1>16, <1>17 DEF LatInv

\* Everyone who has read the records but the writer holds outdated ones after a replacement.
LEMMA ReplaceDirty ==
    ASSUME LatTypes, NEW writer, dirty' = (dirty \cup Readers) \ {writer}
    PROVE  /\ dirty' \subseteq {"page", "handler"} \X Tests
           /\ \A q \in Tests :
                 /\ lat[q].page \in {"loaded", "giving up"} /\ <<"page", q>> # writer =>
                        <<"page", q>> \in dirty'
                 /\ lat[q].work = "running" /\ <<"handler", q>> # writer =>
                        <<"handler", q>> \in dirty'
<1>1. ASSUME NEW a \in Readers
      PROVE  a \in {"page", "handler"} \X Tests
  <2>1. PICK l \in Tests : a = <<"page", l>> \/ a = <<"handler", l>>
    BY DEF Readers
  <2>2. QED
    BY <2>1
<1>2. \A q \in Tests : lat[q].page \in {"loaded", "giving up"} => <<"page", q>> \in Readers
  BY DEF Readers
<1>3. \A q \in Tests : lat[q].work = "running" => <<"handler", q>> \in Readers
  BY DEF Readers
<1>4. QED
  BY <1>1, <1>2, <1>3 DEF LatTypes

\* RequestProxyLatency keeps the invariant.
LEMMA ReqRequestProxyLatency ==
    ASSUME SelInv, LatInv, NEW l \in Tests, RequestProxyLatency(l)
    PROVE  SelInv' /\ LatInv'
<1>1. /\ lat \in [Tests -> TestRecord] /\ lat[l] \in TestRecord
      /\ latFile \in [id : 0..MaxRequests, status : {"idle", "running", "complete", "error"},
                       recs : Records]
      /\ latFile.recs \in Records /\ l \in 0..MaxRequests
  BY Numbers DEF LatInv, LatTypes
<1>2. /\ latFile' = latFile
      /\ dirty' = dirty \ {<<"page", l>>}
  BY DEF RequestProxyLatency, Fresh, Reads
<1>3. PICK s \in SUBSET Groups :
        lat' = [lat EXCEPT ![l].groups = s, ![l].page = "loaded", ![l].held = latFile.recs]
  BY DEF RequestProxyLatency
<1>4. PICK w \in TestRecord :
        /\ lat' = [lat EXCEPT ![l] = w]
        /\ w.groups = s /\ w.page = "loaded" /\ w.work = lat[l].work /\ w.held = latFile.recs
        /\ w.seen = lat[l].seen
  <2>1. [lat[l] EXCEPT !.groups = s, !.page = "loaded", !.held = latFile.recs] \in TestRecord
    BY <1>1 DEF TestRecord
  <2>2. PICK w \in TestRecord :
            w = [lat[l] EXCEPT !.groups = s, !.page = "loaded", !.held = latFile.recs]
    BY <2>1
  <2>3. /\ w.groups = s /\ w.page = "loaded" /\ w.work = lat[l].work /\ w.held = latFile.recs
        /\ w.seen = lat[l].seen
    BY <1>1, <2>2 DEF TestRecord
  <2>4. lat' = [lat EXCEPT ![l] = w]
    BY <1>1, <2>2, <1>3
  <2>5. QED
    BY <2>3, <2>4
<1>5. lat' \in [Tests -> TestRecord] /\ lat'[l] = w /\ \A q \in Tests : q # l => lat'[q] = lat[q]
  BY <1>1, <1>4, LatStep
<1>6. w.held \in Records /\ w.seen \in Records /\ lat[l].held \in Records
  BY <1>1 DEF TestRecord
<1>7. LatTypes'
  BY <1>1, <1>2, <1>4, <1>5, <1>6, ReplaceDirty, Numbers DEF LatInv, LatTypes
<1>8. LatAnswersOK'
  BY <1>1, <1>2, <1>4, <1>5 DEF LatInv, LatAnswersOK, IsAnswer
<1>9. ReadersOK'
  BY <1>1, <1>2, <1>4, <1>5, ReplaceDirty DEF LatInv, ReadersOK
<1>10. QED
  BY <1>7, <1>8, <1>9, SameSelections DEF LatInv, RequestProxyLatency

\* SaveProxyLatency keeps the invariant.
LEMMA ReqSaveProxyLatency ==
    ASSUME SelInv, LatInv, NEW l \in Tests, SaveProxyLatency(l)
    PROVE  SelInv' /\ LatInv'
<1>1. /\ lat \in [Tests -> TestRecord] /\ lat[l] \in TestRecord
      /\ latFile \in [id : 0..MaxRequests, status : {"idle", "running", "complete", "error"},
                       recs : Records]
      /\ latFile.recs \in Records /\ l \in 0..MaxRequests
  BY Numbers DEF LatInv, LatTypes
<1>2. /\ lat[l].page = "loaded"
      /\ latFile' = [id |-> l, status |-> "running", recs |-> lat[l].held]
      /\ dirty' = (dirty \cup Readers) \ {<<"page", l>>}
  BY DEF SaveProxyLatency, Replace
<1>3. PICK w \in TestRecord :
        /\ lat' = [lat EXCEPT ![l] = w]
        /\ \/ /\ w.groups = lat[l].groups /\ w.page = "waiting" /\ w.work = "sent"
              /\ w.held = lat[l].held /\ w.seen = lat[l].seen
           \/ /\ w.groups = lat[l].groups /\ w.page = "refused" /\ w.work = lat[l].work
              /\ w.held = lat[l].held /\ w.seen = lat[l].seen
  <2>1. \/ lat' = [lat EXCEPT ![l].page = "waiting", ![l].work = "sent"]
        \/ lat' = [lat EXCEPT ![l].page = "refused"]
    BY DEF SaveProxyLatency, Replace
  <2>2. CASE lat' = [lat EXCEPT ![l].page = "waiting", ![l].work = "sent"]
    <3>1. [lat[l] EXCEPT !.page = "waiting", !.work = "sent"] \in TestRecord
      BY <1>1 DEF TestRecord
    <3>2. PICK w \in TestRecord : w = [lat[l] EXCEPT !.page = "waiting", !.work = "sent"]
      BY <3>1
    <3>3. /\ w.groups = lat[l].groups /\ w.page = "waiting" /\ w.work = "sent"
          /\ w.held = lat[l].held /\ w.seen = lat[l].seen
      BY <1>1, <3>2 DEF TestRecord
    <3>4. lat' = [lat EXCEPT ![l] = w]
      BY <1>1, <2>2, <3>2
    <3>5. QED
      BY <2>2, <3>3, <3>4
  <2>3. CASE lat' = [lat EXCEPT ![l].page = "refused"]
    <3>1. [lat[l] EXCEPT !.page = "refused"] \in TestRecord
      BY <1>1 DEF TestRecord
    <3>2. PICK w \in TestRecord : w = [lat[l] EXCEPT !.page = "refused"]
      BY <3>1
    <3>3. /\ w.groups = lat[l].groups /\ w.page = "refused" /\ w.work = lat[l].work
          /\ w.held = lat[l].held /\ w.seen = lat[l].seen
      BY <1>1, <3>2 DEF TestRecord
    <3>4. lat' = [lat EXCEPT ![l] = w]
      BY <1>1, <2>3, <3>2
    <3>5. QED
      BY <2>3, <3>3, <3>4
  <2>4. QED
    BY <2>1, <2>2, <2>3
<1>4. lat' \in [Tests -> TestRecord] /\ lat'[l] = w /\ \A q \in Tests : q # l => lat'[q] = lat[q]
  BY <1>1, <1>3, LatStep
<1>5. w.held \in Records /\ w.seen \in Records /\ lat[l].held \in Records
  BY <1>1 DEF TestRecord
<1>6. LatTypes'
  BY <1>1, <1>2, <1>3, <1>4, <1>5, ReplaceDirty, Numbers DEF LatInv, LatTypes
<1>7. LatAnswersOK'
  BY <1>1, <1>2, <1>3, <1>4 DEF LatInv, LatAnswersOK, IsAnswer
<1>8. ReadersOK'
  BY <1>1, <1>2, <1>3, <1>4, ReplaceDirty DEF LatInv, ReadersOK
<1>9. QED
  BY <1>6, <1>7, <1>8, SameSelections DEF LatInv, SaveProxyLatency

\* LatencyAnswered keeps the invariant.
LEMMA ReqLatencyAnswered ==
    ASSUME SelInv, LatInv, NEW l \in Tests, LatencyAnswered(l)
    PROVE  SelInv' /\ LatInv'
<1>1. /\ lat \in [Tests -> TestRecord] /\ lat[l] \in TestRecord
      /\ latFile \in [id : 0..MaxRequests, status : {"idle", "running", "complete", "error"},
                       recs : Records]
      /\ latFile.recs \in Records /\ l \in 0..MaxRequests
  BY Numbers DEF LatInv, LatTypes
<1>2. /\ lat[l].page = "waiting"
      /\ IsAnswer(latFile, l)
      /\ latFile' = latFile
      /\ dirty' = dirty
  BY DEF LatencyAnswered
<1>3. PICK w \in TestRecord :
        /\ lat' = [lat EXCEPT ![l] = w]
        /\ w.groups = lat[l].groups /\ w.page = latFile.status /\ w.work = lat[l].work
        /\ w.held = lat[l].held /\ w.seen = lat[l].seen
  <2>1. [lat[l] EXCEPT !.page = latFile.status] \in TestRecord
    BY <1>1, <1>2 DEF TestRecord, IsAnswer
  <2>2. PICK w \in TestRecord : w = [lat[l] EXCEPT !.page = latFile.status]
    BY <2>1
  <2>3. /\ w.groups = lat[l].groups /\ w.page = latFile.status /\ w.work = lat[l].work
        /\ w.held = lat[l].held /\ w.seen = lat[l].seen
    BY <1>1, <2>2 DEF TestRecord
  <2>4. lat' = [lat EXCEPT ![l] = w]
    BY <1>1, <2>2 DEF LatencyAnswered
  <2>5. QED
    BY <2>3, <2>4
<1>4. lat' \in [Tests -> TestRecord] /\ lat'[l] = w /\ \A q \in Tests : q # l => lat'[q] = lat[q]
  BY <1>1, <1>3, LatStep
<1>5. w.held \in Records /\ w.seen \in Records /\ lat[l].held \in Records
  BY <1>1 DEF TestRecord
<1>6. LatTypes'
  BY <1>1, <1>2, <1>3, <1>4, <1>5, ReplaceDirty, Numbers DEF LatInv, LatTypes
<1>7. LatAnswersOK'
  BY <1>1, <1>2, <1>3, <1>4 DEF LatInv, LatAnswersOK, IsAnswer
<1>8. ReadersOK'
  BY <1>1, <1>2, <1>3, <1>4, ReplaceDirty DEF LatInv, ReadersOK
<1>9. QED
  BY <1>6, <1>7, <1>8, SameSelections DEF LatInv, LatencyAnswered

\* LatencyDisconnected keeps the invariant.
LEMMA ReqLatencyDisconnected ==
    ASSUME SelInv, LatInv, NEW l \in Tests, LatencyDisconnected(l)
    PROVE  SelInv' /\ LatInv'
<1>1. /\ lat \in [Tests -> TestRecord] /\ lat[l] \in TestRecord
      /\ latFile \in [id : 0..MaxRequests, status : {"idle", "running", "complete", "error"},
                       recs : Records]
      /\ latFile.recs \in Records /\ l \in 0..MaxRequests
  BY Numbers DEF LatInv, LatTypes
<1>2. /\ latFile' = latFile
      /\ dirty' = dirty
  BY DEF LatencyDisconnected
<1>3. PICK w \in TestRecord :
        /\ lat' = [lat EXCEPT ![l] = w]
        /\ w.groups = lat[l].groups /\ w.page = "gone" /\ w.work = lat[l].work
        /\ w.held = lat[l].held /\ w.seen = lat[l].seen
  <2>1. [lat[l] EXCEPT !.page = "gone"] \in TestRecord
    BY <1>1 DEF TestRecord
  <2>2. PICK w \in TestRecord : w = [lat[l] EXCEPT !.page = "gone"]
    BY <2>1
  <2>3. /\ w.groups = lat[l].groups /\ w.page = "gone" /\ w.work = lat[l].work
        /\ w.held = lat[l].held /\ w.seen = lat[l].seen
    BY <1>1, <2>2 DEF TestRecord
  <2>4. lat' = [lat EXCEPT ![l] = w]
    BY <1>1, <2>2 DEF LatencyDisconnected
  <2>5. QED
    BY <2>3, <2>4
<1>4. lat' \in [Tests -> TestRecord] /\ lat'[l] = w /\ \A q \in Tests : q # l => lat'[q] = lat[q]
  BY <1>1, <1>3, LatStep
<1>5. w.held \in Records /\ w.seen \in Records /\ lat[l].held \in Records
  BY <1>1 DEF TestRecord
<1>6. LatTypes'
  BY <1>1, <1>2, <1>3, <1>4, <1>5, ReplaceDirty, Numbers DEF LatInv, LatTypes
<1>7. LatAnswersOK'
  BY <1>1, <1>2, <1>3, <1>4 DEF LatInv, LatAnswersOK, IsAnswer
<1>8. ReadersOK'
  BY <1>1, <1>2, <1>3, <1>4, ReplaceDirty DEF LatInv, ReadersOK
<1>9. QED
  BY <1>6, <1>7, <1>8, SameSelections DEF LatInv, LatencyDisconnected

\* SaveLatencyTimeout keeps the invariant.
LEMMA ReqSaveLatencyTimeout ==
    ASSUME SelInv, LatInv, NEW l \in Tests, SaveLatencyTimeout(l)
    PROVE  SelInv' /\ LatInv'
<1>1. /\ lat \in [Tests -> TestRecord] /\ lat[l] \in TestRecord
      /\ latFile \in [id : 0..MaxRequests, status : {"idle", "running", "complete", "error"},
                       recs : Records]
      /\ latFile.recs \in Records /\ l \in 0..MaxRequests
  BY Numbers DEF LatInv, LatTypes
<1>2. /\ lat[l].page = "giving up"
      /\ latFile' = [id |-> l, status |-> "error", recs |-> lat[l].held]
      /\ dirty' = (dirty \cup Readers) \ {<<"page", l>>}
  BY DEF SaveLatencyTimeout, Replace
<1>3. PICK w \in TestRecord :
        /\ lat' = [lat EXCEPT ![l] = w]
        /\ w.groups = lat[l].groups /\ w.page = "timeout" /\ w.work = lat[l].work
        /\ w.held = lat[l].held /\ w.seen = lat[l].seen
  <2>1. [lat[l] EXCEPT !.page = "timeout"] \in TestRecord
    BY <1>1 DEF TestRecord
  <2>2. PICK w \in TestRecord : w = [lat[l] EXCEPT !.page = "timeout"]
    BY <2>1
  <2>3. /\ w.groups = lat[l].groups /\ w.page = "timeout" /\ w.work = lat[l].work
        /\ w.held = lat[l].held /\ w.seen = lat[l].seen
    BY <1>1, <2>2 DEF TestRecord
  <2>4. lat' = [lat EXCEPT ![l] = w]
    BY <1>1, <2>2 DEF SaveLatencyTimeout
  <2>5. QED
    BY <2>3, <2>4
<1>4. lat' \in [Tests -> TestRecord] /\ lat'[l] = w /\ \A q \in Tests : q # l => lat'[q] = lat[q]
  BY <1>1, <1>3, LatStep
<1>5. w.held \in Records /\ w.seen \in Records /\ lat[l].held \in Records
  BY <1>1 DEF TestRecord
<1>6. LatTypes'
  BY <1>1, <1>2, <1>3, <1>4, <1>5, ReplaceDirty, Numbers DEF LatInv, LatTypes
<1>7. LatAnswersOK'
  BY <1>1, <1>2, <1>3, <1>4 DEF LatInv, LatAnswersOK, IsAnswer
<1>8. ReadersOK'
  BY <1>1, <1>2, <1>3, <1>4, ReplaceDirty DEF LatInv, ReadersOK
<1>9. QED
  BY <1>6, <1>7, <1>8, SameSelections DEF LatInv, SaveLatencyTimeout

\* LatencyTimeout keeps the invariant.
LEMMA ReqLatencyTimeout ==
    ASSUME SelInv, LatInv, NEW l \in Tests, LatencyTimeout(l)
    PROVE  SelInv' /\ LatInv'
<1>1. /\ lat \in [Tests -> TestRecord] /\ lat[l] \in TestRecord
      /\ latFile \in [id : 0..MaxRequests, status : {"idle", "running", "complete", "error"},
                       recs : Records]
      /\ latFile.recs \in Records /\ l \in 0..MaxRequests
  BY Numbers DEF LatInv, LatTypes
<1>2. /\ lat[l].page = "waiting"
      /\ latFile' = latFile
  BY DEF LatencyTimeout, Reads
<1>3. PICK w \in TestRecord :
        /\ lat' = [lat EXCEPT ![l] = w]
        /\ \/ /\ w.groups = lat[l].groups /\ w.page = "giving up" /\ w.work = lat[l].work
              /\ w.held = latFile.recs /\ w.seen = lat[l].seen
              /\ dirty' = dirty \ {<<"page", l>>}
           \/ /\ w.groups = lat[l].groups /\ w.page = "timeout" /\ w.work = lat[l].work
              /\ w.held = lat[l].held /\ w.seen = lat[l].seen /\ dirty' = dirty
  <2>1. \/ /\ lat' = [lat EXCEPT ![l].page = "giving up", ![l].held = latFile.recs]
           /\ dirty' = dirty \ {<<"page", l>>}
        \/ lat' = [lat EXCEPT ![l].page = "timeout"] /\ dirty' = dirty
    BY DEF LatencyTimeout, Reads
  <2>2. CASE /\ lat' = [lat EXCEPT ![l].page = "giving up", ![l].held = latFile.recs]
             /\ dirty' = dirty \ {<<"page", l>>}
    <3>1. [lat[l] EXCEPT !.page = "giving up", !.held = latFile.recs] \in TestRecord
      BY <1>1 DEF TestRecord
    <3>2. PICK w \in TestRecord : w = [lat[l] EXCEPT !.page = "giving up", !.held = latFile.recs]
      BY <3>1
    <3>3. /\ w.groups = lat[l].groups /\ w.page = "giving up" /\ w.work = lat[l].work
          /\ w.held = latFile.recs /\ w.seen = lat[l].seen
      BY <1>1, <3>2 DEF TestRecord
    <3>4. lat' = [lat EXCEPT ![l] = w]
      BY <1>1, <2>2, <3>2
    <3>5. QED
      BY <2>2, <3>3, <3>4
  <2>3. CASE lat' = [lat EXCEPT ![l].page = "timeout"] /\ dirty' = dirty
    <3>1. [lat[l] EXCEPT !.page = "timeout"] \in TestRecord
      BY <1>1 DEF TestRecord
    <3>2. PICK w \in TestRecord : w = [lat[l] EXCEPT !.page = "timeout"]
      BY <3>1
    <3>3. /\ w.groups = lat[l].groups /\ w.page = "timeout" /\ w.work = lat[l].work
          /\ w.held = lat[l].held /\ w.seen = lat[l].seen
      BY <1>1, <3>2 DEF TestRecord
    <3>4. lat' = [lat EXCEPT ![l] = w]
      BY <1>1, <2>3, <3>2
    <3>5. QED
      BY <2>3, <3>3, <3>4
  <2>4. QED
    BY <2>1, <2>2, <2>3
<1>4. lat' \in [Tests -> TestRecord] /\ lat'[l] = w /\ \A q \in Tests : q # l => lat'[q] = lat[q]
  BY <1>1, <1>3, LatStep
<1>5. w.held \in Records /\ w.seen \in Records /\ lat[l].held \in Records
  BY <1>1 DEF TestRecord
<1>6. LatTypes'
  BY <1>1, <1>2, <1>3, <1>4, <1>5, ReplaceDirty, Numbers DEF LatInv, LatTypes
<1>7. LatAnswersOK'
  BY <1>1, <1>2, <1>3, <1>4 DEF LatInv, LatAnswersOK, IsAnswer
<1>8. ReadersOK'
  BY <1>1, <1>2, <1>3, <1>4, ReplaceDirty DEF LatInv, ReadersOK
<1>9. QED
  BY <1>6, <1>7, <1>8, SameSelections DEF LatInv, LatencyTimeout

\* RunProductLatency keeps the invariant.
LEMMA ReqRunProductLatency ==
    ASSUME SelInv, LatInv, NEW l \in Tests, RunProductLatency(l)
    PROVE  SelInv' /\ LatInv'
<1>1. /\ lat \in [Tests -> TestRecord] /\ lat[l] \in TestRecord
      /\ latFile \in [id : 0..MaxRequests, status : {"idle", "running", "complete", "error"},
                       recs : Records]
      /\ latFile.recs \in Records /\ l \in 0..MaxRequests
  BY Numbers DEF LatInv, LatTypes
<1>2. /\ lat[l].work = "sent"
  BY DEF RunProductLatency, Reads, Replace
<1>3. PICK w \in TestRecord :
        /\ lat' = [lat EXCEPT ![l] = w]
        /\ \/ /\ w.groups = lat[l].groups /\ w.page = lat[l].page /\ w.work = "running"
              /\ w.held = lat[l].held /\ w.seen = latFile.recs /\ latFile' = latFile
              /\ dirty' = dirty \ {<<"handler", l>>}
           \/ /\ w.groups = lat[l].groups /\ w.page = lat[l].page /\ w.work = "end"
              /\ w.held = lat[l].held /\ w.seen = lat[l].seen
              /\ latFile' = [id |-> l, status |-> "error", recs |-> latFile.recs]
              /\ dirty' = (dirty \cup Readers) \ {<<"handler", l>>}
  <2>1. \/ /\ lat' = [lat EXCEPT ![l].work = "running", ![l].seen = latFile.recs]
           /\ latFile' = latFile /\ dirty' = dirty \ {<<"handler", l>>}
        \/ /\ lat' = [lat EXCEPT ![l].work = "end"]
           /\ latFile' = [id |-> l, status |-> "error", recs |-> latFile.recs]
           /\ dirty' = (dirty \cup Readers) \ {<<"handler", l>>}
    BY DEF RunProductLatency, Reads, Replace
  <2>2. CASE /\ lat' = [lat EXCEPT ![l].work = "running", ![l].seen = latFile.recs]
             /\ latFile' = latFile /\ dirty' = dirty \ {<<"handler", l>>}
    <3>1. [lat[l] EXCEPT !.work = "running", !.seen = latFile.recs] \in TestRecord
      BY <1>1 DEF TestRecord
    <3>2. PICK w \in TestRecord : w = [lat[l] EXCEPT !.work = "running", !.seen = latFile.recs]
      BY <3>1
    <3>3. /\ w.groups = lat[l].groups /\ w.page = lat[l].page /\ w.work = "running"
          /\ w.held = lat[l].held /\ w.seen = latFile.recs
      BY <1>1, <3>2 DEF TestRecord
    <3>4. lat' = [lat EXCEPT ![l] = w]
      BY <1>1, <2>2, <3>2
    <3>5. QED
      BY <2>2, <3>3, <3>4
  <2>3. CASE /\ lat' = [lat EXCEPT ![l].work = "end"]
             /\ latFile' = [id |-> l, status |-> "error", recs |-> latFile.recs]
             /\ dirty' = (dirty \cup Readers) \ {<<"handler", l>>}
    <3>1. [lat[l] EXCEPT !.work = "end"] \in TestRecord
      BY <1>1 DEF TestRecord
    <3>2. PICK w \in TestRecord : w = [lat[l] EXCEPT !.work = "end"]
      BY <3>1
    <3>3. /\ w.groups = lat[l].groups /\ w.page = lat[l].page /\ w.work = "end"
          /\ w.held = lat[l].held /\ w.seen = lat[l].seen
      BY <1>1, <3>2 DEF TestRecord
    <3>4. lat' = [lat EXCEPT ![l] = w]
      BY <1>1, <2>3, <3>2
    <3>5. QED
      BY <2>3, <3>3, <3>4
  <2>4. QED
    BY <2>1, <2>2, <2>3
<1>4. lat' \in [Tests -> TestRecord] /\ lat'[l] = w /\ \A q \in Tests : q # l => lat'[q] = lat[q]
  BY <1>1, <1>3, LatStep
<1>5. w.held \in Records /\ w.seen \in Records /\ lat[l].held \in Records
  BY <1>1 DEF TestRecord
<1>6. \/ dirty' = dirty \ {<<"handler", l>>}
      \/ /\ dirty' \subseteq {"page", "handler"} \X Tests
         /\ \A q \in Tests :
               /\ lat[q].page \in {"loaded", "giving up"} => <<"page", q>> \in dirty'
               /\ lat[q].work = "running" /\ q # l => <<"handler", q>> \in dirty'
  <2>1. CASE dirty' = dirty \ {<<"handler", l>>}
    BY <2>1
  <2>2. CASE dirty' = (dirty \cup Readers) \ {<<"handler", l>>}
    <3>1. PICK writer : writer = <<"handler", l>>
      OBVIOUS
    <3>2. \A q \in Tests : <<"page", q>> # writer /\ (q # l => <<"handler", q>> # writer)
      BY <3>1
    <3>3. dirty' = (dirty \cup Readers) \ {writer}
      BY <2>2, <3>1
    <3>4. LatTypes
      BY DEF LatInv
    <3>5. /\ dirty' \subseteq {"page", "handler"} \X Tests
          /\ \A q \in Tests :
                 /\ lat[q].page \in {"loaded", "giving up"} /\ <<"page", q>> # writer =>
                        <<"page", q>> \in dirty'
                 /\ lat[q].work = "running" /\ <<"handler", q>> # writer =>
                        <<"handler", q>> \in dirty'
      BY <3>3, <3>4, ReplaceDirty
    <3>6. QED
      BY <3>2, <3>5
  <2>3. QED
    BY <2>1, <2>2, <1>2, <1>3
<1>7. LatTypes'
  <2>1. latFile' \in [id : 0..MaxRequests, status : {"idle", "running", "complete", "error"},
                      recs : Records]
    BY <1>1, <1>3
  <2>2. dirty' \subseteq {"page", "handler"} \X Tests
    BY <1>6 DEF LatInv, LatTypes
  <2>3. QED
    BY <1>4, <2>1, <2>2 DEF LatTypes
<1>8. LatAnswersOK'
  BY <1>1, <1>2, <1>3, <1>4 DEF LatInv, LatAnswersOK, IsAnswer
<1>9. ReadersOK'
  <2>1. SUFFICES ASSUME NEW q \in Tests
        PROVE  /\ lat'[q].page \in {"loaded", "giving up"} /\ <<"page", q>> \notin dirty' =>
                      lat'[q].held = latFile'.recs
               /\ lat'[q].work = "running" /\ <<"handler", q>> \notin dirty' =>
                      lat'[q].seen = latFile'.recs
    BY DEF ReadersOK
  <2>2. latFile'.recs = latFile.recs
    BY <1>3
  <2>3. /\ lat'[q].page = lat[q].page /\ lat'[q].held = lat[q].held
        /\ q # l => lat'[q].work = lat[q].work /\ lat'[q].seen = lat[q].seen
        /\ q = l => lat'[q].work = "end" \/ lat'[q].seen = latFile.recs
    BY <1>3, <1>4
  <2>4. \/ dirty' = dirty \ {<<"handler", l>>}
        \/ /\ lat[q].page \in {"loaded", "giving up"} => <<"page", q>> \in dirty'
           /\ lat[q].work = "running" /\ q # l => <<"handler", q>> \in dirty'
    BY <1>6
  <2>5. <<"page", q>> # <<"handler", l>> /\ (q # l => <<"handler", q>> # <<"handler", l>>)
    OBVIOUS
  <2>6. QED
    BY <2>2, <2>3, <2>4, <2>5 DEF LatInv, ReadersOK
<1>10. QED
  BY <1>7, <1>8, <1>9, SameSelections DEF LatInv, RunProductLatency

\* LatencyMeasured keeps the invariant.
LEMMA ReqLatencyMeasured ==
    ASSUME SelInv, LatInv, NEW l \in Tests, LatencyMeasured(l)
    PROVE  SelInv' /\ LatInv'
<1>1. /\ lat \in [Tests -> TestRecord] /\ lat[l] \in TestRecord
      /\ latFile \in [id : 0..MaxRequests, status : {"idle", "running", "complete", "error"},
                       recs : Records]
      /\ latFile.recs \in Records /\ l \in 0..MaxRequests
  BY Numbers DEF LatInv, LatTypes
<1>2. PICK measured \in SUBSET lat[l].groups :
        /\ latFile' = [id |-> l, status |-> IF measured = {} THEN "error" ELSE "complete",
                       recs |-> Results(l, measured)]
        /\ dirty' = (dirty \cup Readers) \ {<<"handler", l>>}
  BY DEF LatencyMeasured, Replace
<1>3. Results(l, measured) \in Records
  <2>1. lat[l].seen \in [Groups -> 0..MaxRequests]
    BY <1>1 DEF TestRecord, Records
  <2>2. QED
    BY <1>1, <2>1, Numbers DEF Results, Records
<1>4. /\ lat[l].work = "running"
      /\ latFile'.id = l
      /\ latFile'.status \in {"complete", "error"}
      /\ latFile'.recs \in Records
      /\ latFile' = [id |-> latFile'.id, status |-> latFile'.status, recs |-> latFile'.recs]
      /\ dirty' = (dirty \cup Readers) \ {<<"handler", l>>}
  BY <1>1, <1>2, <1>3 DEF LatencyMeasured
<1>5. PICK w \in TestRecord :
        /\ lat' = [lat EXCEPT ![l] = w]
        /\ w.groups = lat[l].groups /\ w.page = lat[l].page /\ w.work = "end"
        /\ w.held = lat[l].held /\ w.seen = lat[l].seen
  <2>1. [lat[l] EXCEPT !.work = "end"] \in TestRecord
    BY <1>1 DEF TestRecord
  <2>2. PICK w \in TestRecord : w = [lat[l] EXCEPT !.work = "end"]
    BY <2>1
  <2>3. /\ w.groups = lat[l].groups /\ w.page = lat[l].page /\ w.work = "end"
        /\ w.held = lat[l].held /\ w.seen = lat[l].seen
    BY <1>1, <2>2 DEF TestRecord
  <2>4. lat' = [lat EXCEPT ![l] = w]
    BY <1>1, <2>2 DEF LatencyMeasured
  <2>5. QED
    BY <2>3, <2>4
<1>6. lat' \in [Tests -> TestRecord] /\ lat'[l] = w /\ \A q \in Tests : q # l => lat'[q] = lat[q]
  BY <1>1, <1>5, LatStep
<1>7. w.held \in Records /\ w.seen \in Records /\ lat[l].held \in Records
  BY <1>1 DEF TestRecord
<1>8. /\ dirty' \subseteq {"page", "handler"} \X Tests
      /\ \A q \in Tests :
            /\ lat[q].page \in {"loaded", "giving up"} => <<"page", q>> \in dirty'
            /\ lat[q].work = "running" /\ q # l => <<"handler", q>> \in dirty'
  <2>1. PICK writer : writer = <<"handler", l>>
    OBVIOUS
  <2>2. \A q \in Tests : <<"page", q>> # writer /\ (q # l => <<"handler", q>> # writer)
    BY <2>1
  <2>3. dirty' = (dirty \cup Readers) \ {writer}
    BY <2>1, <1>4
  <2>4. LatTypes
    BY DEF LatInv
  <2>5. /\ dirty' \subseteq {"page", "handler"} \X Tests
        /\ \A q \in Tests :
               /\ lat[q].page \in {"loaded", "giving up"} /\ <<"page", q>> # writer =>
                      <<"page", q>> \in dirty'
               /\ lat[q].work = "running" /\ <<"handler", q>> # writer =>
                      <<"handler", q>> \in dirty'
    BY <2>3, <2>4, ReplaceDirty
  <2>6. QED
    BY <2>2, <2>5
<1>9. LatTypes'
  BY <1>1, <1>4, <1>5, <1>6, <1>7, <1>8, Numbers DEF LatInv, LatTypes
<1>10. LatAnswersOK'
  BY <1>1, <1>4, <1>5, <1>6 DEF LatInv, LatAnswersOK, IsAnswer
<1>11. ReadersOK'
  BY <1>1, <1>4, <1>5, <1>6, <1>8 DEF LatInv, ReadersOK
<1>12. QED
  BY <1>9, <1>10, <1>11, SameSelections DEF LatInv, LatencyMeasured

-----------------------------------------------------------------------------
(* Theorems *)

\* The initial states satisfy the invariant.
LEMMA ReqInit ==
    ASSUME Init
    PROVE  SelInv /\ LatInv
<1>1. NoSelect \in SelectRecord /\ NoTest \in TestRecord /\ [g \in Groups |-> 0] \in Records
  BY Numbers DEF NoSelect, SelectRecord, NoTest, TestRecord, Records
<1>2. /\ sel \in [Calls -> SelectRecord] /\ \A r \in Calls : sel[r] = NoSelect
      /\ lat \in [Tests -> TestRecord] /\ \A l \in Tests : lat[l] = NoTest
  BY <1>1 DEF Init
<1>3. /\ \A r \in Calls : sel[r].page = "new" /\ sel[r].work = "none" /\ sel[r].result = "none"
      /\ \A l \in Tests : lat[l].page = "new" /\ lat[l].work = "none"
  BY <1>2 DEF NoSelect, NoTest
<1>4. SelTypes
  <2>1. /\ kind \in {"select", "fallback"} /\ link \in {"down", "restoring", "up"}
        /\ listed \subseteq Nodes /\ known \subseteq Nodes
        /\ core \in Nodes \cup {None} /\ cached \in Nodes \cup {None}
        /\ saved \in Nodes \cup {None} /\ hook \in {"idle", "waiting"}
        /\ latest \in Calls \cup {Free} /\ drifted \in BOOLEAN
    BY DEF Init
  <2>2. events \in 0..MaxEvents
    BY RequestsAssumption DEF Init
  <2>3. selFile \in [id : Calls, status : {"idle", "running", "complete", "error"}]
    BY Numbers DEF Init
  <2>4. QED
    BY <1>2, <2>1, <2>2, <2>3 DEF SelTypes
<1>5. LocksOK /\ RestoreOK /\ ResultsOK /\ SelAnswersOK /\ LatestOK /\ SavedOK /\ CoreOK
  BY <1>3, Numbers DEF Init, LocksOK, InNative, RestoreOK, ResultsOK, SelAnswersOK, IsAnswer,
      LatestOK, SavedOK, CoreOK
<1>6. LatTypes /\ LatAnswersOK /\ ReadersOK
  BY <1>1, <1>2, <1>3, Numbers DEF Init, LatTypes, LatAnswersOK, IsAnswer, ReadersOK
<1>7. QED
  BY <1>4, <1>5, <1>6 DEF SelInv, LatInv

\* Every step keeps the invariant.
LEMMA ReqNext ==
    ASSUME SelInv, LatInv, [Next]_vars
    PROVE  SelInv' /\ LatInv'
<1>1. ASSUME NEW r \in Selects, RequestProxySelection(r) \/ SelectPage(r)
      PROVE  SelInv' /\ LatInv'
  BY <1>1, ReqRequestProxySelection, ReqSelectionAnswered, ReqSelectionTimeout DEF SelectPage
<1>2. ASSUME NEW r \in Calls, Select(r)
      PROVE  SelInv' /\ LatInv'
  BY <1>2, ReqRunProductProxySelection, ReqSelectMihomoProxy, ReqSelectProxy,
      ReqSelectProxyTests, ReqTestEnds, ReqTestDials, ReqSelectionResumes DEF Select
<1>3. ASSUME NEW l \in Tests, RequestProxyLatency(l) \/ Test(l) \/ TestPage(l)
      PROVE  SelInv' /\ LatInv'
  BY <1>3, ReqRequestProxyLatency, ReqSaveProxyLatency, ReqLatencyAnswered,
      ReqLatencyDisconnected, ReqLatencyTimeout, ReqSaveLatencyTimeout, ReqRunProductLatency,
      ReqLatencyMeasured DEF Test, TestPage
<1>4. CASE UNCHANGED vars
  BY <1>4, SameSelections, SameTests DEF vars, frame
<1>5. QED
  BY <1>1, <1>2, <1>3, <1>4, ReqDisconnect, ReqStart, ReqRestored, ReqKill, ReqProfileUpdate,
      ReqFindAliveProxy, ReqHookCalled, ReqHookEnters DEF Next

\* Every behaviour satisfies the invariant.
LEMMA ReqAlways == Spec => [](SelInv /\ LatInv)
<1>1. Init => SelInv /\ LatInv
  BY ReqInit
<1>2. SelInv /\ LatInv /\ [Next]_vars => (SelInv /\ LatInv)'
  BY ReqNext
<1>3. QED
  BY <1>1, <1>2, PTL DEF Spec

\* The variables keep their types, and g_mihomoMutex and stateMu are held exactly by the calls
\* that are inside the native layer and inside Fallback.Set's test.
THEOREM RequestsTypeCorrect == Spec => []TypeOK
<1>1. SelInv /\ LatInv => TypeOK
  BY DEF SelInv, LatInv, SelTypes, LatTypes, LocksOK, TypeOK
<1>2. QED
  BY <1>1, ReqAlways, PTL

\* A page reports what its own request's handler did, for any number of overlapping requests
\* (the request ids that waitProxySelectionResult and waitProxyLatencyResult compare).
THEOREM AnswersAreMine == Spec => []AnswerIsMine
<1>1. SelInv /\ LatInv => AnswerIsMine
  BY DEF SelInv, LatInv, SelAnswersOK, LatAnswersOK, AnswerIsMine
<1>2. QED
  BY <1>1, ReqAlways, PTL

\* The core uses the saved node once nothing is under way, across any number of selections,
\* disconnects, restarts and ended processes (runProductProxySelection and
\* applySavedProxySelections against the core's own cache).
THEOREM CoreFollowsSaved == Spec => []CoreUsesSaved
<1>1. SelInv => CoreUsesSaved
  <2>1. SUFFICES ASSUME SelInv, link = "up", ~drifted,
                        \A r \in Calls : sel[r].work \in {"none", "sent", "end", "dead"}
                 PROVE  core = saved
    BY DEF CoreUsesSaved
  <2>2. drifted = FALSE
    BY <2>1 DEF SelInv, SelTypes
  <2>3. QED
    BY <2>1, <2>2 DEF SelInv, SavedOK, CoreOK
<1>2. QED
  BY <1>1, ReqAlways, PTL

\* A step that is none of the writers' leaves the latency file alone.
LEMMA WritersOnly ==
    ASSUME [Next]_vars, latFile' # latFile
    PROVE  \E l \in Tests : \/ SaveProxyLatency(l) \/ SaveLatencyTimeout(l)
                            \/ RunProductLatency(l) \/ LatencyMeasured(l)
<1>1. ASSUME NEW r \in Calls, Select(r) \/ RequestProxySelection(r) \/ SelectPage(r)
      PROVE  latFile' = latFile
  BY <1>1 DEF Select, RunProductProxySelection, SelectMihomoProxy, SelectProxy,
      SelectProxyTests, TestEnds, TestDials, SelectionResumes, RequestProxySelection, SelectPage,
      SelectionAnswered, SelectionTimeout, latency
<1>2. ASSUME Disconnect \/ Start \/ Restored \/ Kill \/ ProfileUpdate \/ FindAliveProxy
                \/ HookCalled \/ HookEnters
      PROVE  latFile' = latFile
  BY <1>2 DEF Disconnect, Start, Restored, Kill, ProfileUpdate, FindAliveProxy, HookCalled,
      HookEnters, latency
<1>3. ASSUME NEW l \in Tests, \/ RequestProxyLatency(l) \/ LatencyAnswered(l)
                              \/ LatencyDisconnected(l) \/ LatencyTimeout(l)
      PROVE  latFile' = latFile
  BY <1>3 DEF RequestProxyLatency, LatencyAnswered, LatencyDisconnected, LatencyTimeout
<1>4. CASE UNCHANGED vars
  BY <1>4 DEF vars, latency
<1>5. QED
  BY <1>1, <1>2, <1>3, <1>4, Numbers DEF Next, Test, TestPage

\* A group's measured delays change only as a test of that group ends, or through a writer
\* whose records were replaced after it had read them (saveProxyLatency of both processes).
THEOREM DelaysStay == Spec => DelaysAreKept
<1>1. ASSUME SelInv, LatInv, [Next]_vars, NEW g \in Groups, latFile'.recs[g] # latFile.recs[g]
      PROVE  \/ \E l \in Tests : /\ g \in lat[l].groups /\ lat[l].work = "running"
                                 /\ lat'[l].work = "end"
             \/ \E l \in Tests : Outdated(l) /\ latFile'.id = l
  <2>1. PICK l \in Tests : \/ SaveProxyLatency(l) \/ SaveLatencyTimeout(l)
                           \/ RunProductLatency(l) \/ LatencyMeasured(l)
    BY <1>1, WritersOnly
  <2>2. lat \in [Tests -> TestRecord] /\ lat[l] \in TestRecord
    BY <1>1 DEF LatInv, LatTypes
  <2>3. CASE SaveProxyLatency(l)
    BY <1>1, <2>3 DEF SaveProxyLatency, Replace, LatInv, ReadersOK, Outdated
  <2>4. CASE SaveLatencyTimeout(l)
    BY <1>1, <2>4 DEF SaveLatencyTimeout, Replace, LatInv, ReadersOK, Outdated
  <2>5. CASE RunProductLatency(l)
    <3>1. latFile'.recs = latFile.recs
      BY <2>5 DEF RunProductLatency, Replace
    <3>2. QED
      BY <1>1, <3>1
  <2>6. CASE LatencyMeasured(l)
    <3>1. PICK measured \in SUBSET lat[l].groups :
              latFile'.recs = Results(l, measured) /\ latFile'.id = l
      BY <2>6 DEF LatencyMeasured, Replace
    <3>2. lat[l].work = "running"
      BY <2>6 DEF LatencyMeasured
    <3>3. lat'[l].work = "end"
      BY <2>2, <2>6 DEF LatencyMeasured, TestRecord
    <3>4. CASE g \in lat[l].groups
      BY <3>2, <3>3, <3>4
    <3>5. CASE g \notin lat[l].groups
      <4>1. latFile'.recs[g] = lat[l].seen[g]
        BY <3>1, <3>5 DEF Results
      <4>2. QED
        BY <1>1, <3>1, <3>2, <4>1 DEF LatInv, ReadersOK, Outdated
    <3>6. QED
      BY <3>4, <3>5
  <2>7. QED
    BY <2>1, <2>3, <2>4, <2>5, <2>6
<1>2. SelInv /\ LatInv /\ [Next]_vars =>
          [\A g \in Groups : latFile'.recs[g] # latFile.recs[g] =>
              \/ \E l \in Tests : g \in lat[l].groups /\ lat[l].work = "running" /\ lat'[l].work = "end"
              \/ \E l \in Tests : Outdated(l) /\ latFile'.id = l]_vars
  BY <1>1
<1>3. QED
  BY <1>2, ReqAlways, PTL DEF Spec, DelaysAreKept

=============================================================================
