------------------------------ MODULE ProxyGroup ------------------------------
(***************************************************************************)
(* A url-test group of the core: the choice of its fastest node, shared by *)
(* the dials of ten seconds through singledo.Single, the user's selection, *)
(* and the health checks that failing dials start.                         *)
(*                                                                         *)
(* A caller is a goroutine that dials through the group, and then the      *)
(* goroutine onDialFailed starts for it.  A running call is named by the   *)
(* caller that runs it.  fn is not covered by the mutex of Single, and     *)
(* Reset lets a second call begin beside it: selected and fastNode are     *)
(* read and written by both.                                               *)
(***************************************************************************)
EXTENDS ProxyHealth, FiniteSets

CONSTANTS
    Callers, NoCaller,
    Tolerance,          \* milliseconds
    MaxFailedTimes,     \* failures that start a health check
    MaxDials,           \* bound: dials
    MaxEvents           \* bound: selections, tests, ticks and expiries

ASSUME GroupAssumption ==
    /\ NoCaller \notin Callers
    /\ Tolerance \in 0..MaxDelay
    /\ MaxFailedTimes \in Nat /\ MaxFailedTimes > 1
    /\ MaxDials \in Nat /\ MaxEvents \in Nat

VARIABLES
    selected, fastNode,      \* the group's fields; None is the empty name and nil
    call, result,            \* of fastSingle
    caller,                  \* where each caller is
    user,                    \* "set" between the two statements of ForceSet
    failedTesting, failedTimes,
    failedTestMux,           \* its holder
    check, left,             \* the provider's HealthCheck.singleDo and the tests it waits for
    dials, events,
    old, kept, promised      \* history, see below

groupVars == <<selected, fastNode>>
single == <<call, result>>
failing == <<failedTesting, failedTimes, failedTestMux>>
provider == <<check, left>>
bounds == <<dials, events>>
history == <<old, kept, promised>>
vars == <<health, groupVars, single, caller, user, failing, provider, bounds, history>>

NoResult == [val |-> None, old |-> FALSE]

\* val is what Do returned or fn is about to return; fast and absent are fn's locals; on is
\* the call waited for.  tainted says that what Do joined had begun before an earlier Reset.
At(pc) == [pc |-> pc, val |-> None, fast |-> None, absent |-> FALSE, on |-> NoCaller,
           tainted |-> FALSE]
Idle == At("idle")

Running == {"scan", "settle", "return"}
Leading == Running \cup {"store"}
Checking == {"check", "load", "begin", "testing", "tested", "again"}

Init ==
    /\ health = [n \in Nodes |-> Untested]
    /\ selected = None /\ fastNode = None
    /\ call = NoCaller /\ result = NoResult
    /\ caller = [c \in Callers |-> Idle]
    /\ user = "idle"
    /\ failedTesting = FALSE /\ failedTimes = 0 /\ failedTestMux = NoCaller
    /\ check = "none" /\ left = {}
    /\ dials = 0 /\ events = 0
    /\ old = {} /\ kept = FALSE /\ promised = [c \in Callers |-> None]

-----------------------------------------------------------------------------
(* singledo.Single *)

Event == events < MaxEvents /\ events' = events + 1 /\ UNCHANGED dials

\* old: the running calls that began before the last Reset.  kept: the selected node has
\* been alive, and stayed selected, since the last Reset.
Reset_ResultOnly == result' = NoResult /\ UNCHANGED call

Reset == call' = NoCaller /\ result' = NoResult

Resets ==
    /\ Reset
    /\ old' = {c \in Callers : caller[c].pc \in Leading}
    /\ kept' = (selected # None /\ AliveForTestUrl(selected))
    /\ UNCHANGED promised

\* The first critical section of Do: a recent result, a running call, or a call of its own.
Do(c) ==
    /\ caller[c].pc = "idle" /\ dials < MaxDials
    /\ dials' = dials + 1
    /\ IF result # NoResult
       THEN /\ caller' = [caller EXCEPT ![c] = [At("dial") EXCEPT !.val = result.val,
                                                                  !.tainted = result.old]]
            /\ UNCHANGED <<single, old>>
       ELSE IF call # NoCaller
       THEN /\ caller' = [caller EXCEPT ![c] =
                  IF caller[call].pc = "store"
                  THEN [At("dial") EXCEPT !.val = caller[call].val, !.tainted = call \in old]
                  ELSE [At("wait") EXCEPT !.on = call, !.tainted = call \in old]]
            /\ UNCHANGED <<single, old>>
       ELSE /\ caller' = [caller EXCEPT ![c] = At("scan")]
            /\ call' = c /\ old' = old \ {c}
            /\ UNCHANGED result
    /\ promised' = [promised EXCEPT ![c] = IF kept THEN selected ELSE None]
    /\ UNCHANGED <<events, health, groupVars, user, failing, provider, kept>>

\* wg.Done: whoever waits for the call has its value, also when a Reset has detached it.
Return_Attached(c) ==
    /\ caller[c].pc = "return"
    /\ LET v == IF caller[c].val # None THEN caller[c].val ELSE fastNode
       IN  caller' = [d \in Callers |->
               IF d = c THEN [caller[c] EXCEPT !.pc = "store", !.val = v]
               ELSE IF caller[d].pc = "wait" /\ caller[d].on = c /\ call = c
               THEN [At("dial") EXCEPT !.val = v, !.tainted = caller[d].tainted]
               ELSE caller[d]]
    /\ UNCHANGED <<bounds, health, groupVars, single, user, failing, provider, history>>

Return(c) ==
    /\ caller[c].pc = "return"
    /\ LET v == IF caller[c].val # None THEN caller[c].val ELSE fastNode
       IN  caller' = [d \in Callers |->
               IF d = c THEN [caller[c] EXCEPT !.pc = "store", !.val = v]
               ELSE IF caller[d].pc = "wait" /\ caller[d].on = c
               THEN [At("dial") EXCEPT !.val = v, !.tainted = caller[d].tainted]
               ELSE caller[d]]
    /\ UNCHANGED <<bounds, health, groupVars, single, user, failing, provider, history>>

\* The second critical section of Do.
Keep_Always(c) ==
    /\ call' = NoCaller
    /\ result' = [val |-> caller[c].val, old |-> c \in old]

Keep(c) ==
    IF call = c
    THEN call' = NoCaller /\ result' = [val |-> caller[c].val, old |-> c \in old]
    ELSE UNCHANGED single

Store(c) ==
    /\ caller[c].pc = "store"
    /\ Keep(c)
    /\ caller' = [caller EXCEPT ![c] = [At("dial") EXCEPT !.val = caller[c].val]]
    /\ old' = old \ {c}
    /\ UNCHANGED <<bounds, health, groupVars, user, failing, provider, kept, promised>>

Expire ==
    /\ result # NoResult
    /\ result' = NoResult
    /\ Event
    /\ UNCHANGED <<health, groupVars, call, caller, user, failing, provider, history>>

-----------------------------------------------------------------------------
(* URLTest.fast *)

\* The first of the nodes with the least delay, the first node being taken as it is.
Fastest ==
    LET candidates == {1} \cup {n \in Nodes : AliveForTestUrl(n)}
    IN  CHOOSE n \in candidates : \A m \in candidates :
            \/ LastDelayForTestUrl(n) < LastDelayForTestUrl(m)
            \/ LastDelayForTestUrl(n) = LastDelayForTestUrl(m) /\ n <= m

\* fastNotExist: the loop that clears it starts at the second node.
FastNotExist == fastNode \notin 2..N

\* The last comparison of fast, with locals of an earlier scan.
Switches(fast, absent) ==
    \/ fastNode = None
    \/ absent
    \/ ~AliveForTestUrl(fastNode)
    \/ LastDelayForTestUrl(fastNode) > Wrap(LastDelayForTestUrl(fast) + Tolerance)

Scan(c) ==
    /\ caller[c].pc = "scan"
    /\ IF selected # None /\ AliveForTestUrl(selected)
       THEN /\ fastNode' = selected
            /\ caller' = [caller EXCEPT ![c] = [At("return") EXCEPT !.val = selected]]
       ELSE /\ caller' = [caller EXCEPT ![c] = [At("settle") EXCEPT !.fast = Fastest,
                                                                    !.absent = FastNotExist]]
            /\ UNCHANGED fastNode
    /\ UNCHANGED <<bounds, health, selected, single, user, failing, provider, history>>

Settle(c) ==
    /\ caller[c].pc = "settle"
    /\ fastNode' = IF Switches(caller[c].fast, caller[c].absent) THEN caller[c].fast ELSE fastNode
    /\ caller' = [caller EXCEPT ![c] = At("return")]
    /\ UNCHANGED <<bounds, health, selected, single, user, failing, provider, history>>

\* Set finds the name in the list and calls ForceSet; ForceSet("") unfixes the group.
ForceSet(n) ==
    /\ user = "idle"
    /\ selected' = n /\ user' = "set"
    /\ kept' = FALSE /\ promised' = [c \in Callers |-> None]
    /\ Event
    /\ UNCHANGED <<health, fastNode, single, caller, failing, provider, old>>

ForceSetReset ==
    /\ user = "set"
    /\ user' = "idle"
    /\ Resets
    /\ UNCHANGED <<bounds, health, groupVars, caller, failing, provider>>

-----------------------------------------------------------------------------
(* Dials and their failures *)

\* onDialSuccess follows a handshake; its store of 0 may lose against a concurrent ++.
DialOk(c) ==
    /\ caller[c].pc = "dial"
    /\ failedTimes' \in IF failedTesting THEN {failedTimes} ELSE {0, failedTimes}
    /\ caller' = [caller EXCEPT ![c] = Idle]
    /\ promised' = [promised EXCEPT ![c] = None]
    /\ UNCHANGED <<bounds, health, groupVars, single, user, failedTesting, failedTestMux, provider,
                   old, kept>>

\* onDialFailed: not counted for DIRECT and the like, at once when refused, else counted.
DialFails(c) ==
    /\ caller[c].pc = "dial"
    /\ \E pc \in {"idle", "check", "lock"} : caller' = [caller EXCEPT ![c] = At(pc)]
    /\ promised' = [promised EXCEPT ![c] = None]
    /\ UNCHANGED <<bounds, health, groupVars, single, user, failing, provider, old, kept>>

\* The count stops at the bound that matters.  A pause longer than the timeout clears it.
CountFailure(c) ==
    /\ caller[c].pc = "lock" /\ failedTestMux = NoCaller
    /\ LET times == IF failedTimes < MaxFailedTimes THEN failedTimes + 1 ELSE failedTimes
       IN  \/ /\ times > 1
              /\ failedTimes' = 0
              /\ caller' = [caller EXCEPT ![c] = Idle]
              /\ UNCHANGED failedTestMux
           \/ /\ times < MaxFailedTimes
              /\ failedTimes' = times
              /\ caller' = [caller EXCEPT ![c] = Idle]
              /\ UNCHANGED failedTestMux
           \/ /\ times = MaxFailedTimes
              /\ failedTimes' = times
              /\ caller' = [caller EXCEPT ![c] = At("check")]
              /\ failedTestMux' = c
    /\ UNCHANGED <<bounds, health, groupVars, single, user, failedTesting, provider, history>>

\* URLTest.healthCheck: Reset, GroupBase.healthCheck, Reset.
CheckReset(c) ==
    /\ caller[c].pc = "check"
    /\ Resets
    /\ caller' = [caller EXCEPT ![c] = At("load")]
    /\ UNCHANGED <<bounds, health, groupVars, user, failing, provider>>

\* failedTesting is read and then written: two checks may both find it false.
CheckLoad(c) ==
    /\ caller[c].pc = "load"
    /\ caller' = [caller EXCEPT ![c] = At(IF failedTesting THEN "again" ELSE "begin")]
    /\ UNCHANGED <<bounds, health, groupVars, single, user, failing, provider, history>>

\* provider.HealthCheck joins a running check and skips one that ended a second ago.
CheckBegin(c) ==
    /\ caller[c].pc = "begin"
    /\ failedTesting' = TRUE
    /\ caller' = [caller EXCEPT ![c] = At(IF check = "recent" THEN "tested" ELSE "testing")]
    /\ IF check = "none" THEN check' = "running" /\ left' = Nodes ELSE UNCHANGED provider
    /\ UNCHANGED <<bounds, health, groupVars, single, user, failedTimes, failedTestMux, history>>

CheckEnd(c) ==
    /\ caller[c].pc = "tested"
    /\ failedTesting' = FALSE /\ failedTimes' = 0
    /\ caller' = [caller EXCEPT ![c] = At("again")]
    /\ UNCHANGED <<bounds, health, groupVars, single, user, failedTestMux, provider, history>>

CheckResetAgain(c) ==
    /\ caller[c].pc = "again"
    /\ Resets
    /\ caller' = [caller EXCEPT ![c] = Idle]
    /\ failedTestMux' = IF failedTestMux = c THEN NoCaller ELSE failedTestMux
    /\ UNCHANGED <<bounds, health, groupVars, user, failedTesting, failedTimes, provider>>

-----------------------------------------------------------------------------
(* The provider's check and single tests *)

\* The ticker of HealthCheck.process.
Tick ==
    /\ check = "none"
    /\ check' = "running" /\ left' = Nodes
    /\ Event
    /\ UNCHANGED <<health, groupVars, single, caller, user, failing, history>>

\* A dead node breaks every promise to use it.
Recorded ==
    /\ kept' = (kept /\ health'[selected].alive)
    /\ promised' = [c \in Callers |->
           IF promised[c] # None /\ health'[promised[c]].alive THEN promised[c] ELSE None]
    /\ UNCHANGED old

\* HealthCheck.execute tests every node within its timeout.
CheckNode(n) ==
    /\ n \in left
    /\ URLTest(n)
    /\ left' = left \ {n}
    /\ Recorded
    /\ UNCHANGED <<bounds, groupVars, single, caller, user, failing, check>>

CheckDone ==
    /\ check = "running" /\ left = {}
    /\ check' = "recent"
    /\ caller' = [c \in Callers |-> IF caller[c].pc = "testing" THEN At("tested") ELSE caller[c]]
    /\ UNCHANGED <<bounds, health, groupVars, single, user, failing, left, history>>

CheckAges ==
    /\ check = "recent"
    /\ check' = "none"
    /\ UNCHANGED <<bounds, health, groupVars, single, caller, user, failing, left, history>>

\* A test the user asked for (group or node delay).
TestNode(n) ==
    /\ URLTest(n)
    /\ Recorded
    /\ Event
    /\ UNCHANGED <<groupVars, single, caller, user, failing, provider>>

-----------------------------------------------------------------------------
\* All dials the bound allows have ended: the only state in which the model may stop.
Finished ==
    /\ dials = MaxDials /\ \A c \in Callers : caller[c].pc = "idle"
    /\ UNCHANGED vars

CallerStep(c) ==
    \/ Do(c) \/ CountFailure(c)
    \/ Return(c) \/ Store(c) \/ Scan(c) \/ Settle(c)
    \/ DialOk(c) \/ DialFails(c)
    \/ CheckReset(c) \/ CheckLoad(c) \/ CheckBegin(c) \/ CheckEnd(c) \/ CheckResetAgain(c)

Next ==
    \/ \E c \in Callers : CallerStep(c)
    \/ \E n \in Nodes : CheckNode(n) \/ TestNode(n)
    \/ \E n \in 0..N : ForceSet(n)
    \/ ForceSetReset
    \/ Expire \/ Tick \/ CheckDone \/ CheckAges
    \/ Finished

Spec == Init /\ [][Next]_vars

-----------------------------------------------------------------------------
Names == 0..N

\* Every variable keeps its type.
TypeOK ==
    /\ health \in [Nodes -> [alive : BOOLEAN, delay : Delays \cup {0}]]
    /\ selected \in Names /\ fastNode \in Names
    /\ call \in Callers \cup {NoCaller}
    /\ result \in [val : Names, old : BOOLEAN]
    /\ caller \in [Callers -> [pc : {"idle", "wait", "dial", "lock"} \cup Leading \cup Checking,
                               val : Names, fast : Names, absent : BOOLEAN,
                               on : Callers \cup {NoCaller}, tainted : BOOLEAN]]
    /\ user \in {"idle", "set"}
    /\ failedTesting \in BOOLEAN /\ failedTimes \in 0..MaxFailedTimes
    /\ failedTestMux \in Callers \cup {NoCaller}
    /\ check \in {"none", "running", "recent"} /\ left \subseteq Nodes
    /\ dials \in 0..MaxDials /\ events \in 0..MaxEvents
    /\ old \subseteq Callers /\ kept \in BOOLEAN /\ promised \in [Callers -> Names]

\* A dial never gets a node that was chosen before the last Reset: what Do returns was
\* computed, from its first read on, after every Reset that precedes the Do.  Without it a
\* choice made before a health check, or before a selection, is used for ten seconds more.
FreshAfterReset == \A c \in Callers : ~caller[c].tainted

\* A dial that begins after the user's Set returned goes through the selected node, as long
\* as that node stays alive and selected, whatever older computation is still running.
SelectionHonoured ==
    \A c \in Callers : caller[c].pc = "dial" /\ promised[c] # None =>
        caller[c].val = promised[c]

Measured(n) == AliveForTestUrl(n) /\ LastDelayForTestUrl(n) < MaxDelay

\* When a measured node is alive, an undisturbed choice without a selection is a live,
\* measured node, at most the tolerance slower than the fastest: also with dead, untested
\* and sub-millisecond nodes, a dead first node, and sums that leave uint16.
ChoiceIsFast ==
    (\E n \in Nodes : Measured(n)) =>
        LET choice == IF Switches(Fastest, FastNotExist) THEN Fastest ELSE fastNode
        IN  /\ Measured(choice)
            /\ \A n \in Nodes : Measured(n) =>
                   LastDelayForTestUrl(choice) <= LastDelayForTestUrl(n) + Tolerance

\* Nobody waits for something that will not come: the call a caller waits for is still
\* running although a Reset has detached it, a check somebody waits for has tests left to
\* end, and the holder of failedTestMux is in a health check that does not need the mutex.
WaitersAreServed ==
    /\ \A c \in Callers : caller[c].pc = "wait" => caller[caller[c].on].pc \in Running
    /\ \A c \in Callers : caller[c].pc = "testing" => check = "running"
    /\ failedTestMux # NoCaller => caller[failedTestMux].pc \in Checking

=============================================================================
