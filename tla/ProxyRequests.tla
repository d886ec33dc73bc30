--------------------------- MODULE ProxyRequests ---------------------------
(***************************************************************************)
(* Node selection and latency tests: the page writes a request file and    *)
(* starts the extension with a want, the extension's handlers run          *)
(* concurrently and answer through the same file, the page polls it for    *)
(* its request id.  A selection goes through the native layer under        *)
(* g_mihomoMutex and through the bridge under stateMu; every protect hook  *)
(* of a dial needs stateMu too.                                            *)
(*                                                                         *)
(* One selectable group is modelled, of the kind select or fallback, and   *)
(* any number of groups for latency tests.  Disconnecting leaves the core  *)
(* running (destroyVpn does not stop it).  A timeout may strike at any     *)
(* moment of a wait.                                                       *)
(***************************************************************************)
EXTENDS Integers, FiniteSets

CONSTANTS
    Nodes,          \* nodes of the selectable group
    Groups,         \* groups whose latency is tested
    None,           \* no node
    MaxRequests,    \* bound: requests of both kinds together
    MaxEvents       \* bound: disconnects, profile updates, dead nodes, ended processes

ASSUME RequestsAssumption ==
    None \notin Nodes /\ MaxRequests \in Nat /\ MaxEvents \in Nat

Selects == 1..MaxRequests
Tests == 1..MaxRequests
Restore == 0            \* the selection startVpnForProduct makes itself
Calls == Selects \cup {Restore}
Free == -1

VARIABLES
    kind,               \* of the group: select or fallback
    link,               \* the snapshot and the extension: down, restoring or up
    listed, known,      \* the nodes of the profile, and those the core was started with
    core, cached,       \* the group's selected node, and the one SetSelected remembers
    saved,              \* the shared selection state
    gMihomoMutex, stateMu,      \* their holders
    hook,               \* a dial's protect hook: idle, or waiting for stateMu
    sel, selFile,       \* per selection its page, handler and result; its request file
    lat, latFile,       \* the same of latency tests
    events,
    latest, drifted, dirty      \* history, see below

config == <<kind, listed, known>>
selection == <<core, cached, saved>>
locks == <<gMihomoMutex, stateMu>>
history == <<latest, drifted>>
latency == <<lat, latFile, dirty>>
vars == <<config, link, selection, locks, hook, sel, selFile, latency, events, history>>

NoSelect == [node |-> None, page |-> "new", work |-> "none", ok |-> FALSE, result |-> "none"]
NoTest == [groups |-> {}, page |-> "new", work |-> "none",
           held |-> [g \in Groups |-> 0],     \* the records the page has read
           seen |-> [g \in Groups |-> 0]]     \* the records the handler has read

Init ==
    /\ kind \in {"select", "fallback"}
    /\ link = "up" /\ listed = Nodes /\ known \in SUBSET Nodes \ {{}}
    /\ core = None /\ cached = None /\ saved = None
    /\ gMihomoMutex = Free /\ stateMu = Free /\ hook = "idle"
    /\ sel = [r \in Calls |-> NoSelect] /\ selFile = [id |-> 0, status |-> "idle"]
    /\ lat = [l \in Tests |-> NoTest]
    /\ latFile = [id |-> 0, status |-> "idle", recs |-> [g \in Groups |-> 0]]
    /\ events = 0
    /\ latest = Free /\ drifted = FALSE /\ dirty = {}

\* The next request, by number.
Fresh(requests, r) == requests[r].page = "new" /\ \A q \in 1..(r - 1) : requests[q].page # "new"

RequestsLeft ==
    Cardinality({r \in Selects : sel[r].page # "new"})
        + Cardinality({l \in Tests : lat[l].page # "new"}) < MaxRequests

Event == events < MaxEvents /\ events' = events + 1

-----------------------------------------------------------------------------
(* The page: selecting a node *)

\* selectProxyNode with requestProxySelection; several may be under way.  The want may be
\* refused, the request file then stays running.
RequestProxySelection(r) ==
    /\ link = "up" /\ RequestsLeft /\ Fresh(sel, r)
    /\ selFile' = [id |-> r, status |-> "running"]
    /\ \E n \in listed :
        \/ sel' = [sel EXCEPT ![r].node = n, ![r].page = "waiting", ![r].work = "sent"]
        \/ sel' = [sel EXCEPT ![r].node = n, ![r].page = "refused"]
    /\ UNCHANGED <<config, link, selection, locks, hook, latency, events, history>>

\* A waiter takes whatever answer there is.
IsAnswer_AnyRequest(file, id) == file.status \in {"complete", "error"}

IsAnswer(file, id) == file.id = id /\ file.status \in {"complete", "error"}

\* waitProxySelectionResult
SelectionAnswered(r) ==
    /\ sel[r].page = "waiting" /\ IsAnswer(selFile, r)
    /\ sel' = [sel EXCEPT ![r].page = selFile.status]
    /\ UNCHANGED <<config, link, selection, locks, hook, selFile, latency, events, history>>

SelectionTimeout(r) ==
    /\ sel[r].page = "waiting"
    /\ sel' = [sel EXCEPT ![r].page = "timeout"]
    /\ UNCHANGED <<config, link, selection, locks, hook, selFile, latency, events, history>>

-----------------------------------------------------------------------------
(* The extension, the native layer and the bridge: selecting a node *)

\* Handlers answer unconditionally, whoever's request the file holds by then.
Answer(r, status) ==
    /\ selFile' = [id |-> r, status |-> status]
    /\ sel' = [sel EXCEPT ![r].work = "end", ![r].result = status]

\* runProductProxySelection up to its await.
RunProductProxySelection(r) ==
    /\ sel[r].work = "sent"
    /\ IF link = "up"
       THEN sel' = [sel EXCEPT ![r].work = "queued"] /\ UNCHANGED selFile
       ELSE Answer(r, "error")
    /\ UNCHANGED <<config, link, selection, locks, hook, latency, events, history>>

\* SelectMihomoProxy: a worker thread takes g_mihomoMutex for the whole call.
SelectMihomoProxy(r) ==
    /\ sel[r].work = "queued" /\ gMihomoMutex = Free
    /\ gMihomoMutex' = r
    /\ sel' = [sel EXCEPT ![r].work = "native"]
    /\ UNCHANGED <<config, link, selection, stateMu, hook, selFile, latency, events, history>>

\* The call returns; its deferred unlock, and the lock guard of the native layer.
Release_KeepsNative(r, ok) ==
    /\ stateMu' = Free /\ UNCHANGED gMihomoMutex
    /\ sel' = [sel EXCEPT ![r].work = "answered", ![r].ok = ok]

Release(r, ok) ==
    /\ gMihomoMutex' = Free /\ stateMu' = Free
    /\ sel' = [sel EXCEPT ![r].work = "answered", ![r].ok = ok]

\* The group's selected node; latest is whose it is.
Set(r) == core' = sel[r].node /\ latest' = r

SetSelected(r) == cached' = sel[r].node

\* MihomoOhosSelectProxy with Selector.Set, or Fallback.Set on a node it takes for alive.
SelectProxy(r) ==
    /\ sel[r].work = "native" /\ stateMu = Free
    /\ IF sel[r].node \in known
       THEN Release(r, TRUE) /\ Set(r) /\ SetSelected(r)
       ELSE Release(r, FALSE) /\ UNCHANGED <<core, cached, latest>>
    /\ UNCHANGED <<config, link, saved, hook, selFile, latency, events, drifted>>

\* Fallback.Set on a node whose last test failed: it is tested at once, under stateMu.
SelectProxyTests(r) ==
    /\ kind = "fallback" /\ sel[r].work = "native" /\ stateMu = Free /\ sel[r].node \in known
    /\ stateMu' = r /\ Set(r)
    /\ sel' = [sel EXCEPT ![r].work = "testing"]
    /\ UNCHANGED <<config, link, cached, saved, gMihomoMutex, hook, selFile, latency, events,
                   drifted>>

\* URLTest ends without opening a socket, its result is dropped.
TestEnds(r) ==
    /\ sel[r].work = "testing"
    /\ Release(r, TRUE) /\ SetSelected(r)
    /\ UNCHANGED <<config, link, core, saved, hook, selFile, latency, events, latest, drifted>>

\* URLTest opens a socket: the hook of that dial runs in this goroutine, which holds stateMu.  It
\* has no further step.
TestDials(r) ==
    /\ sel[r].work = "testing"
    /\ sel' = [sel EXCEPT ![r].work = "hook"]
    /\ UNCHANGED <<config, link, selection, locks, hook, selFile, latency, events, history>>

\* selectLocalProxy: the profile as it is now decides whether the node can be saved.
SelectLocalProxy_Forgets(n) == UNCHANGED saved

SelectLocalProxy(n) == saved' = IF n \in listed THEN n ELSE saved

\* Whether the handler goes on to save.
Switched(r) == sel[r].ok

\* runProductProxySelection after its await.  drifted: the core and the saved selection part
\* because the handler has been overtaken, or the node is no longer listed.
SelectionResumes(r) ==
    /\ r \in Selects /\ sel[r].work = "answered"
    /\ IF Switched(r)
       THEN /\ SelectLocalProxy(sel[r].node)
            /\ Answer(r, IF sel[r].node \in listed THEN "complete" ELSE "error")
            /\ drifted' = (sel[r].node \notin listed \/ latest # r)
       ELSE Answer(r, "error") /\ UNCHANGED <<saved, drifted>>
    /\ UNCHANGED <<config, link, core, cached, locks, hook, latency, events, latest>>

-----------------------------------------------------------------------------
(* Sessions *)

\* stopVpnForProduct: the snapshot leaves connected, the core goes on.
Disconnect ==
    /\ Event /\ link = "up"
    /\ link' = "down"
    /\ UNCHANGED <<config, selection, locks, hook, sel, selFile, latency, history>>

\* startWithConfig under both mutexes: new groups, selected as cached (patchSelectGroup);
\* then applySavedProxySelections, awaited before the snapshot says connected.
Start ==
    /\ link = "down" /\ gMihomoMutex = Free /\ stateMu = Free
    /\ known' = listed /\ core' = cached
    /\ IF saved = None
       THEN link' = "up" /\ UNCHANGED sel
       ELSE /\ link' = "restoring"
            /\ sel' = [sel EXCEPT ![Restore] = [NoSelect EXCEPT !.node = saved,
                                                                !.work = "queued"]]
    /\ UNCHANGED <<kind, listed, cached, saved, locks, hook, selFile, latency, events, history>>

\* Restored or not, the session is up.
Restored ==
    /\ link = "restoring" /\ sel[Restore].work = "answered"
    /\ link' = "up"
    /\ sel' = [sel EXCEPT ![Restore].work = "end"]
    /\ drifted' = (~sel[Restore].ok \/ latest # Restore \/ sel[Restore].node # saved)
    /\ UNCHANGED <<config, selection, locks, hook, selFile, latency, events, latest>>

\* The extension's process ends: its handlers, calls and mutexes are gone.
Kill ==
    /\ Event
    /\ link' = "down" /\ gMihomoMutex' = Free /\ stateMu' = Free /\ hook' = "idle"
    /\ sel' = [r \in Calls |-> IF sel[r].work \in {"none", "sent", "end"} THEN sel[r]
                               ELSE [sel[r] EXCEPT !.work = "dead"]]
    /\ lat' = [l \in Tests |-> IF lat[l].work = "running" THEN [lat[l] EXCEPT !.work = "dead"]
                               ELSE lat[l]]
    /\ drifted' = (drifted \/ \E r \in Calls : sel[r].work = "answered")
    /\ dirty' = {a \in dirty : a[1] = "page"}
    /\ UNCHANGED <<config, selection, selFile, latFile, latest>>

\* The profile is edited, or its subscription updated.
ProfileUpdate ==
    /\ Event
    /\ \E s \in SUBSET Nodes \ {{}, listed} : listed' = s
    /\ UNCHANGED <<kind, link, known, selection, locks, hook, sel, selFile, latency, history>>

\* findAliveProxy on a dial: a dead selection is forgotten.
FindAliveProxy ==
    /\ Event /\ kind = "fallback" /\ core # None
    /\ core' = None /\ drifted' = TRUE /\ latest' = Free
    /\ UNCHANGED <<config, link, cached, saved, locks, hook, sel, selFile, latency>>

\* mihomoProtectSocketHook of any dial; one that finds stateMu free is no step of its own.
HookCalled ==
    /\ hook = "idle" /\ stateMu # Free
    /\ hook' = "waiting"
    /\ UNCHANGED <<config, link, selection, locks, sel, selFile, latency, events, history>>

HookEnters ==
    /\ hook = "waiting" /\ stateMu = Free
    /\ hook' = "idle"
    /\ UNCHANGED <<config, link, selection, locks, sel, selFile, latency, events, history>>

-----------------------------------------------------------------------------
(* Latency tests.  Page and extension rewrite the records they have read;  *)
(* dirty: the ones whose records another has replaced since.               *)

Readers ==
    {<<"page", l>> : l \in {l \in Tests : lat[l].page \in {"loaded", "giving up"}}}
        \cup {<<"handler", l>> : l \in {l \in Tests : lat[l].work = "running"}}

Replace(writer, id, status, recs) ==
    /\ latFile' = [id |-> id, status |-> status, recs |-> recs]
    /\ dirty' = (dirty \cup Readers) \ {writer}

Reads(reader) == dirty' = dirty \ {reader}

\* latencyBusy
Busy == \E l \in Tests : lat[l].page \in {"loaded", "waiting", "giving up"}

frame == <<config, link, selection, locks, hook, sel, selFile, history>>

\* testProxyLatency with requestProxyLatency: the records are read ...
RequestProxyLatency(l) ==
    /\ link = "up" /\ ~Busy /\ RequestsLeft /\ Fresh(lat, l)
    /\ \E s \in SUBSET Groups \ {{}} :
        lat' = [lat EXCEPT ![l].groups = s, ![l].page = "loaded", ![l].held = latFile.recs]
    /\ Reads(<<"page", l>>)
    /\ UNCHANGED <<frame, latFile, events>>

\* ... and saved with the new request id; then the want is sent.
SaveProxyLatency(l) ==
    /\ lat[l].page = "loaded"
    /\ Replace(<<"page", l>>, l, "running", lat[l].held)
    /\ \/ lat' = [lat EXCEPT ![l].page = "waiting", ![l].work = "sent"]
       \/ lat' = [lat EXCEPT ![l].page = "refused"]
    /\ UNCHANGED <<frame, events>>

\* waitProxyLatencyResult: answered, disconnected, or out of time.
LatencyAnswered(l) ==
    /\ lat[l].page = "waiting" /\ IsAnswer(latFile, l)
    /\ lat' = [lat EXCEPT ![l].page = latFile.status]
    /\ UNCHANGED <<frame, latFile, dirty, events>>

LatencyDisconnected(l) ==
    /\ lat[l].page = "waiting" /\ ~IsAnswer(latFile, l) /\ link # "up"
    /\ lat' = [lat EXCEPT ![l].page = "gone"]
    /\ UNCHANGED <<frame, latFile, dirty, events>>

LatencyTimeout(l) ==
    /\ lat[l].page = "waiting"
    /\ IF latFile.id = l /\ latFile.status = "running"
       THEN /\ lat' = [lat EXCEPT ![l].page = "giving up", ![l].held = latFile.recs]
            /\ Reads(<<"page", l>>)
       ELSE lat' = [lat EXCEPT ![l].page = "timeout"] /\ UNCHANGED dirty
    /\ UNCHANGED <<frame, latFile, events>>

SaveLatencyTimeout(l) ==
    /\ lat[l].page = "giving up"
    /\ Replace(<<"page", l>>, l, "error", lat[l].held)
    /\ lat' = [lat EXCEPT ![l].page = "timeout"]
    /\ UNCHANGED <<frame, events>>

\* runProductLatency up to its first await.  Without a session it fails at once.
RunProductLatency(l) ==
    /\ lat[l].work = "sent"
    /\ IF link = "up"
       THEN /\ lat' = [lat EXCEPT ![l].work = "running", ![l].seen = latFile.recs]
            /\ Reads(<<"handler", l>>) /\ UNCHANGED latFile
       ELSE /\ lat' = [lat EXCEPT ![l].work = "end"]
            /\ Replace(<<"handler", l>>, l, "error", latFile.recs)
    /\ UNCHANGED <<frame, events>>

\* The records of a finished test: measured are the groups some node of which answered.
Results_OnlyNew(l, measured) == [g \in Groups |-> IF g \in measured THEN l ELSE 0]

Results(l, measured) ==
    [g \in Groups |-> IF g \in measured THEN l
                      ELSE IF g \in lat[l].groups THEN 0 ELSE lat[l].seen[g]]

\* runProductLatency after the last group, whoever's request the file holds by then.
LatencyMeasured(l) ==
    /\ lat[l].work = "running"
    /\ \E measured \in SUBSET lat[l].groups :
        Replace(<<"handler", l>>, l, IF measured = {} THEN "error" ELSE "complete",
                Results(l, measured))
    /\ lat' = [lat EXCEPT ![l].work = "end"]
    /\ UNCHANGED <<frame, events>>

-----------------------------------------------------------------------------
\* The steps of a selection that nobody but its handler takes.
Select(r) ==
    \/ RunProductProxySelection(r) \/ SelectMihomoProxy(r) \/ SelectProxy(r) \/ SelectProxyTests(r)
    \/ TestEnds(r) \/ TestDials(r) \/ SelectionResumes(r)

Test(l) == RunProductLatency(l) \/ LatencyMeasured(l)

SelectPage(r) == SelectionAnswered(r) \/ SelectionTimeout(r)

TestPage(l) ==
    SaveProxyLatency(l) \/ LatencyAnswered(l) \/ LatencyDisconnected(l) \/ LatencyTimeout(l)
        \/ SaveLatencyTimeout(l)

Next ==
    \/ \E r \in Selects : RequestProxySelection(r) \/ SelectPage(r)
    \/ \E r \in Calls : Select(r)
    \/ Disconnect \/ Start \/ Restored \/ Kill \/ ProfileUpdate \/ FindAliveProxy
    \/ HookCalled \/ HookEnters
    \/ \E l \in Tests : RequestProxyLatency(l) \/ Test(l) \/ TestPage(l)

Spec == Init /\ [][Next]_vars

\* Wants are delivered, worker threads and timers run, mutexes are handed on.
Fairness ==
    /\ \A r \in Calls : WF_vars(Select(r))
    /\ \A r \in Selects : WF_vars(SelectPage(r))
    /\ \A l \in Tests : WF_vars(Test(l)) /\ WF_vars(TestPage(l))
    /\ WF_vars(Restored) /\ WF_vars(HookEnters)

FairSpec == Spec /\ Fairness

-----------------------------------------------------------------------------
InNative == {"native", "testing", "hook"}
Records == [Groups -> 0..MaxRequests]
SelectRecord ==
    [node : Nodes \cup {None},
     page : {"new", "waiting", "refused", "timeout", "complete", "error"},
     work : {"none", "sent", "queued", "answered", "end", "dead"} \cup InNative,
     ok : BOOLEAN, result : {"none", "complete", "error"}]
TestRecord ==
    [groups : SUBSET Groups,
     page : {"new", "loaded", "waiting", "giving up", "refused", "gone", "timeout", "complete",
             "error"},
     work : {"none", "sent", "running", "end", "dead"}, held : Records, seen : Records]

\* Every variable keeps its type, and the mutexes are held by the call that is inside.
TypeOK ==
    /\ kind \in {"select", "fallback"} /\ link \in {"down", "restoring", "up"}
    /\ listed \subseteq Nodes /\ known \subseteq Nodes
    /\ {core, cached, saved} \subseteq Nodes \cup {None}
    /\ hook \in {"idle", "waiting"} /\ events \in 0..MaxEvents
    /\ sel \in [Calls -> SelectRecord]
    /\ selFile \in [id : Calls, status : {"idle", "running", "complete", "error"}]
    /\ lat \in [Tests -> TestRecord]
    /\ latFile \in [id : 0..MaxRequests, status : {"idle", "running", "complete", "error"},
                     recs : Records]
    /\ latest \in Calls \cup {Free} /\ drifted \in BOOLEAN
    /\ dirty \subseteq {"page", "handler"} \X Tests
    /\ \A r \in Calls : /\ sel[r].work \in InNative <=> gMihomoMutex = r
                        /\ sel[r].work \in {"testing", "hook"} <=> stateMu = r
    /\ gMihomoMutex \in Calls \cup {Free} /\ stateMu \in Calls \cup {Free}

\* What the page reports of a request is what that request's own handler did, however
\* requests overlap and late answers arrive (the request ids of both waiters).
AnswerIsMine ==
    /\ \A r \in Selects : sel[r].page \in {"complete", "error"} => sel[r].result = sel[r].page
    /\ \A l \in Tests : lat[l].page \in {"complete", "error"} => lat[l].work = "end"

\* Once nothing is under way the core uses the node the page shows, across overlapping
\* selections, disconnects and restarts, unless handlers resumed in another order than the
\* core switched, the node has left the profile, or the fallback group gave up a dead node.
CoreUsesSaved ==
    link = "up" /\ ~drifted /\ (\A r \in Calls : sel[r].work \in {"none", "sent", "end", "dead"})
        => core = saved

Outdated(l) == <<"page", l>> \in dirty \/ <<"handler", l>> \in dirty

\* A group's measured delays change only when a test of that group ends, or through a writer
\* whose records another has replaced meanwhile (the rewrites of both processes).
DelaysAreKept ==
    [][\A g \in Groups : latFile'.recs[g] # latFile.recs[g] =>
        \/ \E l \in Tests : g \in lat[l].groups /\ lat[l].work = "running" /\ lat'[l].work = "end"
        \/ \E l \in Tests : Outdated(l) /\ latFile'.id = l]_vars

\* A dead node of a fallback group is being tested by a call that waits for itself.
SelfBlocked == \E r \in Calls : sel[r].work = "hook"

Settled ==
    /\ \A r \in Calls : sel[r].work \in {"none", "end", "dead"}
    /\ \A r \in Selects : sel[r].page # "waiting"
    /\ \A l \in Tests : lat[l].work \in {"none", "end", "dead"}
    /\ ~Busy /\ hook = "idle"

\* Every request is answered, every page stops waiting and every hook returns, unless a
\* selection has tested a dead node (the unlocks of MihomoOhosSelectProxy, the timeouts).
RequestsSettle == []<>(Settled \/ SelfBlocked)

\* next-stage-development-plan.md:309: a selection does not block the protect callbacks.
HooksReturn == []<>(hook = "idle")

=============================================================================
