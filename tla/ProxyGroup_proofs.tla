------------------------- MODULE ProxyGroup_proofs -------------------------
(***************************************************************************)
(* Proofs about ProxyGroup, for any number of nodes, callers and events:   *)
(* the choice of the fastest node, that no dial uses a choice from before  *)
(* the last Reset, that nobody waits for something that is over, and that  *)
(* a dial which begins after Set goes through the selected node.           *)
(***************************************************************************)
EXTENDS ProxyGroup, WellFoundedInduction, TLAPS

-----------------------------------------------------------------------------
(* The fastest node *)

\* Every set of numbers has a least one.
LEMMA LeastNumber ==
    ASSUME NEW S \in SUBSET Nat, S # {}
    PROVE  \E x \in S : \A y \in S : x <= y
<1>1. PICK x \in S : \A y \in S : ~(<<y, x>> \in OpToRel(<, Nat))
  BY NatLessThanWellFounded, WFMin, Zenon
<1>2. \A y \in S : ~(y < x)
  BY <1>1, Zenon DEF OpToRel
<1>3. QED
  BY <1>2

HealthOK == health \in [Nodes -> [alive : BOOLEAN, delay : Delays \cup {0}]]

Candidates == {1} \cup {n \in Nodes : AliveForTestUrl(n)}

\* MaxDelay is a number.
LEMMA MaxDelayType == MaxDelay \in Nat /\ MaxDelay > 0
BY DEF MaxDelay

\* Delays stay within uint16.
LEMMA DelayType ==
    ASSUME HealthOK, NEW n \in Nodes
    PROVE  LastDelayForTestUrl(n) \in 0..MaxDelay
<1>1. health[n].delay \in Delays \cup {0}
  BY DEF HealthOK
<1>2. \A d \in Delays : d \in 0..MaxDelay
  BY HealthAssumption, MaxDelayType
<1>3. health[n].delay \in 0..MaxDelay
  BY <1>1, <1>2, MaxDelayType
<1>4. QED
  BY <1>3, MaxDelayType DEF LastDelayForTestUrl

\* The loop of fast finds a node of the list, and none of its candidates is faster.
LEMMA FastestIsLeast ==
    ASSUME HealthOK
    PROVE  /\ Fastest \in Candidates /\ Fastest \in Nodes
           /\ \A m \in Candidates : LastDelayForTestUrl(Fastest) <= LastDelayForTestUrl(m)
<1>1. 1 \in Candidates /\ Candidates \subseteq Nodes /\ Nodes \subseteq Nat
  BY HealthAssumption DEF Candidates, Nodes
<1>2. \A n \in Candidates : LastDelayForTestUrl(n) \in Nat
  BY <1>1, DelayType
<1>3. PICK d \in {LastDelayForTestUrl(n) : n \in Candidates} :
        \A e \in {LastDelayForTestUrl(n) : n \in Candidates} : d <= e
  <2>1. /\ {LastDelayForTestUrl(n) : n \in Candidates} \in SUBSET Nat
        /\ {LastDelayForTestUrl(n) : n \in Candidates} # {}
    BY <1>1, <1>2
  <2>2. QED
    BY <2>1, LeastNumber
<1>4. PICK x \in {n \in Candidates : LastDelayForTestUrl(n) = d} :
        \A y \in {n \in Candidates : LastDelayForTestUrl(n) = d} : x <= y
  <2>1. /\ {n \in Candidates : LastDelayForTestUrl(n) = d} \in SUBSET Nat
        /\ {n \in Candidates : LastDelayForTestUrl(n) = d} # {}
    BY <1>1, <1>3
  <2>2. QED
    BY <2>1, LeastNumber
<1> DEFINE Least(n) == \A m \in Candidates :
             \/ LastDelayForTestUrl(n) < LastDelayForTestUrl(m)
             \/ LastDelayForTestUrl(n) = LastDelayForTestUrl(m) /\ n <= m
<1>5. x \in Candidates /\ Least(x)
  <2>1. x \in Candidates /\ LastDelayForTestUrl(x) = d
    BY <1>4
  <2>2. ASSUME NEW m \in Candidates
        PROVE  \/ LastDelayForTestUrl(x) < LastDelayForTestUrl(m)
               \/ LastDelayForTestUrl(x) = LastDelayForTestUrl(m) /\ x <= m
    <3>1. d <= LastDelayForTestUrl(m) /\ LastDelayForTestUrl(m) \in Nat /\ d \in Nat
      BY <1>2, <1>3, <2>1
    <3>2. CASE d = LastDelayForTestUrl(m)
      BY <2>1, <3>2, <1>4
    <3>3. CASE d # LastDelayForTestUrl(m)
      BY <2>1, <3>1, <3>3
    <3>4. QED
      BY <3>2, <3>3
  <2>3. QED
    BY <2>1, <2>2
<1>6. Fastest = CHOOSE n \in Candidates : Least(n)
  BY DEF Fastest, Candidates
<1> HIDE DEF Least
<1>7. Fastest \in Candidates /\ Least(Fastest)
  BY <1>5, <1>6
<1>8. QED
  <2>1. ASSUME NEW m \in Candidates
        PROVE  LastDelayForTestUrl(Fastest) <= LastDelayForTestUrl(m)
    <3>1. \/ LastDelayForTestUrl(Fastest) < LastDelayForTestUrl(m)
          \/ LastDelayForTestUrl(Fastest) = LastDelayForTestUrl(m)
      BY <1>7 DEF Least
    <3>2. QED
      BY <3>1, <1>2, <1>7
  <2>2. QED
    BY <2>1, <1>1, <1>7

\* The choice of fast, whatever is known of the nodes.  A tolerance that takes a measured
\* delay to exactly 65535, the mark of an unmeasured node, is excluded: with it an unmeasured
\* fastNode would be kept.
LEMMA ChoiceFast ==
    ASSUME HealthOK, fastNode \in Names, \A d \in Delays : d + Tolerance # MaxDelay
    PROVE  ChoiceIsFast
<1> DEFINE choice == IF Switches(Fastest, FastNotExist) THEN Fastest ELSE fastNode
<1> SUFFICES ASSUME NEW k \in Nodes, Measured(k)
             PROVE  /\ Measured(choice)
                    /\ \A n \in Nodes : Measured(n) =>
                           LastDelayForTestUrl(choice) <= LastDelayForTestUrl(n) + Tolerance
  BY DEF ChoiceIsFast
<1>1. \A n \in Nodes : LastDelayForTestUrl(n) \in 0..MaxDelay
  BY DelayType
<1>2. /\ Fastest \in Nodes
      /\ \A n \in Nodes : Measured(n) => LastDelayForTestUrl(Fastest) <= LastDelayForTestUrl(n)
  BY FastestIsLeast DEF Candidates, Measured
<1>3. LastDelayForTestUrl(Fastest) < MaxDelay
  BY <1>1, <1>2, MaxDelayType DEF Measured
<1>4. AliveForTestUrl(Fastest) /\ health[Fastest].delay = LastDelayForTestUrl(Fastest)
  BY <1>3, MaxDelayType DEF LastDelayForTestUrl, AliveForTestUrl
<1>5. LastDelayForTestUrl(Fastest) \in Delays
  <2>1. health[Fastest].delay \in Delays \cup {0} /\ health[Fastest].delay # 0
    BY <1>2, <1>3, MaxDelayType DEF HealthOK, LastDelayForTestUrl
  <2>2. QED
    BY <2>1, <1>4
<1>6. Tolerance \in 0..MaxDelay
  BY GroupAssumption
<1>7. CASE Switches(Fastest, FastNotExist)
  BY <1>1, <1>2, <1>3, <1>4, <1>6, <1>7, MaxDelayType DEF Measured
<1>8. CASE ~Switches(Fastest, FastNotExist)
  <2>1. /\ fastNode \in Nodes /\ AliveForTestUrl(fastNode)
        /\ ~(LastDelayForTestUrl(fastNode) > Wrap(LastDelayForTestUrl(Fastest) + Tolerance))
    BY <1>8 DEF Switches, Names, Nodes, None
  <2> DEFINE d == LastDelayForTestUrl(Fastest)
             f == LastDelayForTestUrl(fastNode)
  <2>2. d \in 0..(MaxDelay - 1) /\ f \in 0..MaxDelay /\ d + Tolerance # MaxDelay
    BY <1>1, <1>2, <1>3, <1>5, <2>1, MaxDelayType
  <2>3. f <= Wrap(d + Tolerance)
    <3>1. Wrap(d + Tolerance) \in Nat
      BY <2>2, <1>6, MaxDelayType DEF Wrap
    <3>2. QED
      BY <2>1, <2>2, <3>1
  <2>4. \A n \in Nodes : Measured(n) => d <= LastDelayForTestUrl(n)
    BY <1>2
  <2> HIDE DEF d, f
  <2>5. f < MaxDelay /\ f <= d + Tolerance
    BY <2>2, <2>3, <1>6, MaxDelayType DEF Wrap
  <2>6. \A n \in Nodes : Measured(n) => f <= LastDelayForTestUrl(n) + Tolerance
    BY <2>2, <2>4, <2>5, <1>1, <1>6, MaxDelayType
  <2>7. QED
    BY <1>8, <2>1, <2>5, <2>6 DEF f, Measured
<1>9. QED
  BY <1>7, <1>8

-----------------------------------------------------------------------------
(* The inductive invariant *)

CallerType ==
    [pc : {"idle", "wait", "dial", "lock"} \cup Leading \cup Checking, val : Names, fast : Names,
     absent : BOOLEAN, on : Callers \cup {NoCaller}, tainted : BOOLEAN]

\* The group's fields and what its users remember are nodes of the list.
GroupTypes ==
    /\ HealthOK /\ selected \in Names /\ fastNode \in Names
    /\ result \in [val : Names, old : BOOLEAN]
    /\ call \in Callers \cup {NoCaller} /\ failedTestMux \in Callers \cup {NoCaller}
    /\ check \in {"none", "running", "recent"}

\* Neither the result nor the running call that Do would join is older than the last Reset.
Fresh == result.old = FALSE /\ call \notin old /\ old \subseteq Callers

\* A running call is somebody's, and nobody waits in vain.
CallersOK ==
    /\ caller \in [Callers -> CallerType]
    /\ \A c \in Callers : caller[c].tainted = FALSE
    /\ \A c \in Callers : caller[c].pc = "wait" =>
           caller[c].on \in Callers /\ caller[caller[c].on].pc \in Running
    /\ call # NoCaller => caller[call].pc \in Leading
    /\ \A c \in Callers : caller[c].pc = "testing" => check = "running"
    /\ failedTestMux # NoCaller => caller[failedTestMux].pc \in Checking

GroupInv == GroupTypes /\ Fresh /\ CallersOK

\* A caller that has just come to a place remembers nothing.
LEMMA AtPlace ==
    ASSUME NEW pc \in {"idle", "wait", "dial", "lock"} \cup Leading \cup Checking
    PROVE  /\ At(pc) \in CallerType
           /\ At(pc).pc = pc /\ At(pc).tainted = FALSE
<1>1. None \in Names
  BY HealthAssumption DEF None, Names
<1>2. At(pc) \in CallerType
  BY <1>1 DEF At, CallerType
<1>3. QED
  BY <1>2 DEF At

\* What Do, Return, Store and Scan write into a caller.
LEMMA GotValue ==
    ASSUME NEW r \in CallerType, NEW v \in Names
    PROVE  /\ [r EXCEPT !.val = v] \in CallerType
           /\ [r EXCEPT !.val = v].pc = r.pc /\ [r EXCEPT !.val = v].tainted = r.tainted
BY DEF CallerType

LEMMA GotResult ==
    ASSUME NEW r \in CallerType, NEW v \in Names, NEW t \in BOOLEAN
    PROVE  /\ [r EXCEPT !.val = v, !.tainted = t] \in CallerType
           /\ [r EXCEPT !.val = v, !.tainted = t].pc = r.pc
           /\ [r EXCEPT !.val = v, !.tainted = t].tainted = t
BY DEF CallerType

LEMMA JoinedCall ==
    ASSUME NEW r \in CallerType, NEW o \in Callers, NEW t \in BOOLEAN
    PROVE  /\ [r EXCEPT !.on = o, !.tainted = t] \in CallerType
           /\ [r EXCEPT !.on = o, !.tainted = t].pc = r.pc
           /\ [r EXCEPT !.on = o, !.tainted = t].on = o
           /\ [r EXCEPT !.on = o, !.tainted = t].tainted = t
BY DEF CallerType

LEMMA HasScanned ==
    ASSUME NEW r \in CallerType, NEW f \in Names, NEW a \in BOOLEAN
    PROVE  /\ [r EXCEPT !.fast = f, !.absent = a] \in CallerType
           /\ [r EXCEPT !.fast = f, !.absent = a].pc = r.pc
           /\ [r EXCEPT !.fast = f, !.absent = a].tainted = r.tainted
BY DEF CallerType

\* One caller moves: to a call that runs, if it waits; on in its own call, if it runs one.
LEMMA CallerMoves ==
    ASSUME GroupInv, NEW c \in Callers, NEW r \in CallerType, caller' = [caller EXCEPT ![c] = r],
           r.tainted = FALSE,
           r.pc = "wait" => r.on \in Callers \ {c} /\ caller[r.on].pc \in Running,
           caller[c].pc \in Running => r.pc \in Running,
           call' # NoCaller => \/ call' = call /\ call # c
                               \/ call' = c /\ r.pc \in Leading,
           r.pc = "testing" => check' = "running",
           check = "running" => check' = "running",
           failedTestMux' # NoCaller => \/ failedTestMux' = failedTestMux /\ failedTestMux # c
                                        \/ failedTestMux' = c /\ r.pc \in Checking
    PROVE  CallersOK'
<1>1. /\ caller' \in [Callers -> CallerType] /\ caller'[c] = r
      /\ \A d \in Callers : d # c => caller'[d] = caller[d]
  BY DEF GroupInv, CallersOK
<1>2. \A d \in Callers : caller'[d].tainted = FALSE
  BY <1>1 DEF GroupInv, CallersOK
<1>3. \A d \in Callers : caller'[d].pc = "wait" =>
        caller'[d].on \in Callers /\ caller'[caller'[d].on].pc \in Running
  <2> SUFFICES ASSUME NEW d \in Callers, caller'[d].pc = "wait"
               PROVE  caller'[d].on \in Callers /\ caller'[caller'[d].on].pc \in Running
    OBVIOUS
  <2>1. CASE d = c
    BY <2>1, <1>1
  <2>2. CASE d # c
    <3>1. caller[d].on \in Callers /\ caller[caller[d].on].pc \in Running
      BY <2>2, <1>1 DEF GroupInv, CallersOK
    <3>2. QED
      BY <2>2, <3>1, <1>1
  <2>3. QED
    BY <2>1, <2>2
<1>4. call' # NoCaller => caller'[call'].pc \in Leading
  <2>1. CASE call' = c /\ r.pc \in Leading
    BY <2>1, <1>1
  <2>2. CASE call' = call /\ call # c /\ call # NoCaller
    BY <2>2, <1>1 DEF GroupInv, GroupTypes, CallersOK
  <2>3. QED
    BY <2>1, <2>2
<1>5. \A d \in Callers : caller'[d].pc = "testing" => check' = "running"
  BY <1>1 DEF GroupInv, CallersOK
<1>6. failedTestMux' # NoCaller => caller'[failedTestMux'].pc \in Checking
  <2>1. CASE failedTestMux' = c /\ r.pc \in Checking
    BY <2>1, <1>1
  <2>2. CASE failedTestMux' = failedTestMux /\ failedTestMux # c /\ failedTestMux # NoCaller
    BY <2>2, <1>1 DEF GroupInv, GroupTypes, CallersOK
  <2>3. QED
    BY <2>1, <2>2
<1>7. QED
  BY <1>1, <1>2, <1>3, <1>4, <1>5, <1>6 DEF CallersOK

\* The callers stay where they are.
LEMMA CallersStay ==
    ASSUME GroupInv, UNCHANGED <<caller, failedTestMux>>, call' \in {call, NoCaller},
           check = "running" => check' = "running"
    PROVE  CallersOK'
BY DEF GroupInv, CallersOK

\* After a Reset there is nothing to join.
LEMMA ResetFresh ==
    ASSUME GroupInv, Resets
    PROVE  Fresh' /\ call' = NoCaller /\ result' \in [val : Names, old : BOOLEAN]
<1>1. None \in Names
  BY HealthAssumption DEF None, Names
<1>2. call' = NoCaller /\ result' = NoResult /\ old' \subseteq Callers
  BY DEF Resets, Reset
<1>3. result'.old = FALSE /\ result' \in [val : Names, old : BOOLEAN]
  BY <1>1, <1>2 DEF NoResult
<1>4. QED
  BY <1>2, <1>3, GroupAssumption DEF Fresh

\* Nothing has been chosen yet.
LEMMA InitGroup == Init => GroupInv
<1> SUFFICES ASSUME Init PROVE GroupInv
  OBVIOUS
<1>1. None \in Names
  BY HealthAssumption DEF None, Names
<1>2. HealthOK
  <2>1. Untested \in [alive : BOOLEAN, delay : Delays \cup {0}]
    BY DEF Untested
  <2>2. QED
    BY <2>1 DEF Init, HealthOK
<1>3. result \in [val : Names, old : BOOLEAN] /\ result.old = FALSE
  BY <1>1 DEF Init, NoResult
<1>4. GroupTypes
  BY <1>1, <1>2, <1>3 DEF Init, GroupTypes
<1>5. Fresh
  BY <1>3 DEF Init, Fresh
<1>6. Idle \in CallerType /\ Idle.pc = "idle" /\ Idle.tainted = FALSE
  BY AtPlace DEF Idle
<1>7. CallersOK
  BY <1>6 DEF Init, CallersOK
<1>8. QED
  BY <1>4, <1>5, <1>7 DEF GroupInv

-----------------------------------------------------------------------------
(* The steps *)

\* The first critical section of Do.
LEMMA DoInv ==
    ASSUME GroupInv, NEW c \in Callers, Do(c)
    PROVE  GroupInv'
<1>1. UNCHANGED <<health, selected, fastNode, failedTestMux, check>> /\ caller[c].pc = "idle"
  BY DEF Do, groupVars, failing, provider
<1>2. /\ caller \in [Callers -> CallerType] /\ NoCaller \notin Callers
      /\ failedTestMux # c /\ call # c /\ result.old = FALSE /\ call \notin old
  BY <1>1, GroupAssumption DEF GroupInv, CallersOK, Fresh, Leading, Running, Checking
<1>7. (call \in old) = FALSE
  BY <1>2
<1>3. CASE result # NoResult
  <2> DEFINE r == [At("dial") EXCEPT !.val = result.val, !.tainted = FALSE]
  <2>1. caller' = [caller EXCEPT ![c] = r] /\ UNCHANGED <<call, result, old>>
    <3>1. caller' = [caller EXCEPT ![c] = [At("dial") EXCEPT !.val = result.val,
                                                             !.tainted = result.old]]
      BY <1>3 DEF Do
    <3>2. UNCHANGED <<call, result, old>>
      BY <1>3 DEF Do, single
    <3>3. QED
      BY <3>1, <3>2, <1>2
  <2>2. result.val \in Names
    BY DEF GroupInv, GroupTypes
  <2>3. At("dial") \in CallerType /\ At("dial").pc = "dial"
    BY AtPlace
  <2>4. r \in CallerType /\ r.pc = "dial" /\ r.tainted = FALSE
    BY <2>2, <2>3, GotResult
  <2> HIDE DEF r
  <2>5. CallersOK'
    BY <1>1, <1>2, <2>1, <2>4, CallerMoves DEF Running
  <2>6. QED
    BY <1>1, <2>1, <2>5 DEF GroupInv, GroupTypes, Fresh, HealthOK
<1>4. CASE result = NoResult /\ call # NoCaller
  <2>1. call \in Callers /\ caller[call] \in CallerType /\ caller[call].pc \in Leading
    BY <1>2, <1>4 DEF GroupInv, GroupTypes, CallersOK
  <2>2. UNCHANGED <<call, result, old>>
    BY <1>4 DEF Do, single
  <2>3. CASE caller[call].pc = "store"
    <3> DEFINE r == [At("dial") EXCEPT !.val = caller[call].val, !.tainted = FALSE]
    <3>1. caller' = [caller EXCEPT ![c] = r]
      <4>1. caller' = [caller EXCEPT ![c] =
               [At("dial") EXCEPT !.val = caller[call].val, !.tainted = call \in old]]
        BY <1>4, <2>3 DEF Do
      <4>2. QED
        BY <4>1, <1>7
    <3>2. caller[call].val \in Names
      BY <2>1 DEF CallerType
    <3>3. At("dial") \in CallerType /\ At("dial").pc = "dial"
      BY AtPlace
    <3>4. r \in CallerType /\ r.pc = "dial" /\ r.tainted = FALSE
      BY <3>2, <3>3, GotResult
    <3> HIDE DEF r
    <3>5. CallersOK'
      BY <1>1, <1>2, <2>2, <3>1, <3>4, CallerMoves DEF Running
    <3>6. QED
      BY <1>1, <2>2, <3>5 DEF GroupInv, GroupTypes, Fresh, HealthOK
  <2>4. CASE caller[call].pc # "store"
    <3> DEFINE r == [At("wait") EXCEPT !.on = call, !.tainted = FALSE]
    <3>1. caller' = [caller EXCEPT ![c] = r]
      <4>1. caller' = [caller EXCEPT ![c] =
               [At("wait") EXCEPT !.on = call, !.tainted = call \in old]]
        BY <1>4, <2>4 DEF Do
      <4>2. QED
        BY <4>1, <1>7
    <3>2. At("wait") \in CallerType /\ At("wait").pc = "wait"
      BY AtPlace
    <3>3. r \in CallerType /\ r.pc = "wait" /\ r.on = call /\ r.tainted = FALSE
      BY <2>1, <3>2, JoinedCall
    <3>4. caller[call].pc \in Running
      BY <2>1, <2>4 DEF Leading
    <3> HIDE DEF r
    <3>5. CallersOK'
      BY <1>1, <1>2, <2>1, <2>2, <3>1, <3>3, <3>4, CallerMoves DEF Running
    <3>6. QED
      BY <1>1, <2>2, <3>5 DEF GroupInv, GroupTypes, Fresh, HealthOK
  <2>5. QED
    BY <2>3, <2>4
<1>5. CASE result = NoResult /\ call = NoCaller
  <2>1. /\ caller' = [caller EXCEPT ![c] = At("scan")] /\ call' = c /\ old' = old \ {c}
        /\ result' = result
    BY <1>5 DEF Do
  <2>2. At("scan") \in CallerType /\ At("scan").pc = "scan" /\ At("scan").tainted = FALSE
    BY AtPlace DEF Leading, Running
  <2>3. CallersOK'
    BY <1>1, <1>2, <2>1, <2>2, CallerMoves DEF Running, Leading
  <2>4. QED
    BY <1>1, <1>2, <2>1, <2>3 DEF GroupInv, GroupTypes, Fresh, HealthOK
<1>6. QED
  BY <1>3, <1>4, <1>5

\* wg.Done: the waiters have the value of the call they waited for.
LEMMA ReturnInv ==
    ASSUME GroupInv, NEW c \in Callers, Return(c)
    PROVE  GroupInv'
<1> DEFINE v == IF caller[c].val # None THEN caller[c].val ELSE fastNode
           mine == [caller[c] EXCEPT !.pc = "store", !.val = v]
           got == [At("dial") EXCEPT !.val = v, !.tainted = FALSE]
           waits(d) == caller[d].pc = "wait" /\ caller[d].on = c
<1>1. /\ UNCHANGED <<health, selected, fastNode, call, result, old, failedTestMux, check>>
      /\ caller[c].pc = "return"
  BY DEF Return, groupVars, single, failing, provider, history
<1>2. caller \in [Callers -> CallerType] /\ NoCaller \notin Callers
  BY GroupAssumption DEF GroupInv, CallersOK
<1>3. v \in Names
  <2>1. caller[c].val \in Names
    BY <1>2 DEF CallerType
  <2>2. QED
    BY <2>1 DEF GroupInv, GroupTypes
<1> HIDE DEF v
<1>4. /\ mine \in CallerType /\ mine.pc = "store" /\ mine.tainted = caller[c].tainted
  BY <1>2, <1>3 DEF CallerType, Leading
<1>5. got \in CallerType /\ got.pc = "dial" /\ got.tainted = FALSE
  <2>1. At("dial") \in CallerType /\ At("dial").pc = "dial"
    BY AtPlace
  <2>2. QED
    BY <1>3, <2>1, GotResult
<1>14. caller' = [d \in Callers |-> IF d = c THEN mine ELSE IF waits(d) THEN got ELSE caller[d]]
  <2>1. caller' = [d \in Callers |->
           IF d = c THEN mine
           ELSE IF waits(d) THEN [At("dial") EXCEPT !.val = v, !.tainted = caller[d].tainted]
           ELSE caller[d]]
    BY DEF Return, v
  <2>2. \A d \in Callers : [At("dial") EXCEPT !.val = v, !.tainted = caller[d].tainted] = got
    BY DEF GroupInv, CallersOK
  <2> HIDE DEF mine, got
  <2>3. QED
    BY <2>1, <2>2
<1> HIDE DEF mine, got
<1>6. /\ caller'[c] = mine
      /\ \A d \in Callers : d # c => caller'[d] = IF waits(d) THEN got ELSE caller[d]
      /\ caller' \in [Callers -> CallerType]
  BY <1>14, <1>2, <1>4, <1>5
<1>7. \A d \in Callers : caller'[d].tainted = FALSE
  BY <1>4, <1>5, <1>6 DEF GroupInv, CallersOK
<1>8. \A d \in Callers : caller'[d].pc = "wait" =>
        caller'[d].on \in Callers /\ caller'[caller'[d].on].pc \in Running
  <2> SUFFICES ASSUME NEW d \in Callers, caller'[d].pc = "wait"
               PROVE  caller'[d].on \in Callers /\ caller'[caller'[d].on].pc \in Running
    OBVIOUS
  <2>1. d # c /\ caller'[d] = caller[d] /\ ~waits(d)
    BY <1>4, <1>5, <1>6
  <2>2. /\ caller[d].on \in Callers /\ caller[d].on # c
        /\ caller[caller[d].on].pc \in Running
    BY <2>1 DEF GroupInv, CallersOK
  <2>3. ~waits(caller[d].on)
    BY <2>2 DEF Running
  <2>4. QED
    BY <2>1, <2>2, <2>3, <1>6
<1>9. \A d \in Callers : caller[d].pc \in Leading => caller'[d].pc \in Leading
  BY <1>4, <1>6 DEF Leading, Running
<1>10. \A d \in Callers : caller'[d].pc = "testing" => caller[d].pc = "testing"
  BY <1>4, <1>5, <1>6
<1>11. \A d \in Callers : caller[d].pc \in Checking => caller'[d].pc \in Checking
  BY <1>1, <1>6 DEF Checking
<1>12. CallersOK'
  <2>1. call' # NoCaller => caller'[call'].pc \in Leading
    BY <1>1, <1>9 DEF GroupInv, GroupTypes, CallersOK
  <2>2. \A d \in Callers : caller'[d].pc = "testing" => check' = "running"
    BY <1>1, <1>10 DEF GroupInv, CallersOK
  <2>3. failedTestMux' # NoCaller => caller'[failedTestMux'].pc \in Checking
    BY <1>1, <1>11 DEF GroupInv, GroupTypes, CallersOK
  <2>4. QED
    BY <2>1, <2>2, <2>3, <1>6, <1>7, <1>8 DEF CallersOK
<1>13. QED
  BY <1>1, <1>12 DEF GroupInv, GroupTypes, Fresh, HealthOK

\* The second critical section of Do.
LEMMA StoreInv ==
    ASSUME GroupInv, NEW c \in Callers, Store(c)
    PROVE  GroupInv'
<1> DEFINE r == [At("dial") EXCEPT !.val = caller[c].val]
<1>1. /\ UNCHANGED <<health, selected, fastNode, failedTestMux, check>> /\ old' = old \ {c}
      /\ caller[c].pc = "store" /\ caller' = [caller EXCEPT ![c] = r]
  BY DEF Store, groupVars, failing, provider
<1>2. caller \in [Callers -> CallerType] /\ NoCaller \notin Callers /\ failedTestMux # c
  BY <1>1, GroupAssumption DEF GroupInv, CallersOK, Checking
<1>3. caller[c].val \in Names
  BY <1>2 DEF CallerType
<1>4. At("dial") \in CallerType /\ At("dial").pc = "dial" /\ At("dial").tainted = FALSE
  BY AtPlace
<1>5. r \in CallerType /\ r.pc = "dial" /\ r.tainted = FALSE
  BY <1>3, <1>4, GotValue
<1> HIDE DEF r
<1>6. /\ call' # NoCaller => call' = call /\ call # c
      /\ result' \in [val : Names, old : BOOLEAN] /\ result'.old = FALSE
      /\ call' \in Callers \cup {NoCaller} /\ call' \notin old'
  <2>1. CASE call = c
    <3>1. call' = NoCaller /\ result' = [val |-> caller[c].val, old |-> c \in old]
      BY <2>1 DEF Store, Keep
    <3>2. c \notin old
      BY <2>1 DEF GroupInv, Fresh
    <3>3. (c \in old) = FALSE
      BY <3>2
    <3>4. result' \in [val : Names, old : BOOLEAN] /\ result'.old = FALSE
      BY <3>1, <3>3, <1>3
    <3>5. NoCaller \notin old'
      BY <1>1, <1>2 DEF GroupInv, Fresh
    <3>6. QED
      BY <3>1, <3>4, <3>5
  <2>2. CASE call # c
    <3>1. call' = call /\ result' = result
      BY <2>2 DEF Store, Keep, single
    <3>2. QED
      BY <2>2, <3>1, <1>1 DEF GroupInv, GroupTypes, Fresh
  <2>3. QED
    BY <2>1, <2>2
<1>7. CallersOK'
  BY <1>1, <1>2, <1>5, <1>6, CallerMoves DEF Running
<1>8. QED
  BY <1>1, <1>6, <1>7 DEF GroupInv, GroupTypes, Fresh, HealthOK

\* The first statement of fast, and its loop.
LEMMA ScanInv ==
    ASSUME GroupInv, NEW c \in Callers, Scan(c)
    PROVE  GroupInv'
<1>1. /\ UNCHANGED <<health, selected, call, result, old, failedTestMux, check>>
      /\ caller[c].pc = "scan"
  BY DEF Scan, single, failing, provider, history
<1>2. failedTestMux # c /\ NoCaller \notin Callers
  BY <1>1, GroupAssumption DEF GroupInv, CallersOK, Checking
<1>3. PICK r \in CallerType : /\ caller' = [caller EXCEPT ![c] = r] /\ fastNode' \in Names
                              /\ r.pc \in {"return", "settle"} /\ r.tainted = FALSE
  <2>1. CASE selected # None /\ AliveForTestUrl(selected)
    <3> DEFINE r == [At("return") EXCEPT !.val = selected]
    <3>1. caller' = [caller EXCEPT ![c] = r] /\ fastNode' = selected
      BY <2>1 DEF Scan
    <3>2. selected \in Names /\ "return" \in Leading
      BY DEF GroupInv, GroupTypes, Leading, Running
    <3>3. /\ At("return") \in CallerType /\ At("return").pc = "return"
          /\ At("return").tainted = FALSE
      BY <3>2, AtPlace
    <3>4. r \in CallerType /\ r.pc = "return" /\ r.tainted = FALSE
      BY <3>2, <3>3, GotValue
    <3> HIDE DEF r
    <3>5. QED
      BY <3>1, <3>2, <3>4
  <2>2. CASE ~(selected # None /\ AliveForTestUrl(selected))
    <3> DEFINE r == [At("settle") EXCEPT !.fast = Fastest, !.absent = FastNotExist]
    <3>1. caller' = [caller EXCEPT ![c] = r] /\ fastNode' = fastNode
      BY <2>2 DEF Scan
    <3>2. Fastest \in Nodes /\ fastNode \in Names /\ "settle" \in Leading
      BY FastestIsLeast DEF GroupInv, GroupTypes, Leading, Running
    <3>3. Fastest \in Names
      BY <3>2 DEF Names, Nodes
    <3>4. FastNotExist \in BOOLEAN
      BY DEF FastNotExist
    <3>5. /\ At("settle") \in CallerType /\ At("settle").pc = "settle"
          /\ At("settle").tainted = FALSE
      BY <3>2, AtPlace
    <3>6. r \in CallerType /\ r.pc = "settle" /\ r.tainted = FALSE
      BY <3>3, <3>4, <3>5, HasScanned
    <3> HIDE DEF r
    <3>7. QED
      BY <3>1, <3>2, <3>6
  <2>3. QED
    BY <2>1, <2>2
<1>4. CallersOK'
  BY <1>1, <1>2, <1>3, CallerMoves DEF Running, Leading
<1>5. QED
  BY <1>1, <1>3, <1>4 DEF GroupInv, GroupTypes, Fresh, HealthOK

\* The last comparison of fast.
LEMMA SettleInv ==
    ASSUME GroupInv, NEW c \in Callers, Settle(c)
    PROVE  GroupInv'
<1>1. /\ UNCHANGED <<health, selected, call, result, old, failedTestMux, check>>
      /\ caller[c].pc = "settle" /\ caller' = [caller EXCEPT ![c] = At("return")]
  BY DEF Settle, single, failing, provider, history
<1>2. failedTestMux # c /\ NoCaller \notin Callers /\ caller[c] \in CallerType
  BY <1>1, GroupAssumption DEF GroupInv, CallersOK, Checking
<1>3. fastNode' \in Names
  <2>1. caller[c].fast \in Names
    BY <1>2 DEF CallerType
  <2>2. fastNode' \in {caller[c].fast, fastNode}
    BY DEF Settle
  <2>3. QED
    BY <2>1, <2>2 DEF GroupInv, GroupTypes
<1>4. At("return") \in CallerType /\ At("return").pc = "return" /\ At("return").tainted = FALSE
  BY AtPlace DEF Leading, Running
<1>5. CallersOK'
  BY <1>1, <1>2, <1>4, CallerMoves DEF Running, Leading
<1>6. QED
  BY <1>1, <1>3, <1>5 DEF GroupInv, GroupTypes, Fresh, HealthOK

\* A caller outside fn goes on, to a dial's end or through a health check.
LEMMA Moves ==
    ASSUME GroupInv, NEW c \in Callers, NEW pc \in {"idle", "lock"} \cup Checking,
           caller[c].pc \notin Leading, caller' = [caller EXCEPT ![c] = At(pc)],
           call' \in {call, NoCaller},
           pc = "testing" => check' = "running",
           check = "running" => check' = "running",
           failedTestMux' \in {failedTestMux, c, NoCaller},
           failedTestMux' = c => pc \in Checking
    PROVE  CallersOK'
<1>1. NoCaller \notin Callers /\ call # c
  BY GroupAssumption DEF GroupInv, CallersOK
<1>2. At(pc) \in CallerType /\ At(pc).pc = pc /\ At(pc).tainted = FALSE
  BY AtPlace
<1>3. pc # "wait"
  BY DEF Checking
<1>4. caller[c].pc \notin Running
  BY DEF Leading
<1>5. QED
  BY <1>1, <1>2, <1>3, <1>4, CallerMoves

\* The choice, the result and the running call stay.
LEMMA GroupStays ==
    ASSUME GroupInv, UNCHANGED <<health, selected, fastNode, call, result, old>>,
           failedTestMux' \in Callers \cup {NoCaller}, check' \in {"none", "running", "recent"},
           CallersOK'
    PROVE  GroupInv'
BY DEF GroupInv, GroupTypes, Fresh, HealthOK

\* A Reset, and one caller that goes on.
LEMMA GroupReset ==
    ASSUME GroupInv, Resets, UNCHANGED <<health, selected, fastNode, check>>,
           failedTestMux' \in Callers \cup {NoCaller}, CallersOK'
    PROVE  GroupInv'
<1>1. Fresh' /\ call' = NoCaller /\ result' \in [val : Names, old : BOOLEAN]
  BY ResetFresh
<1>2. QED
  BY <1>1 DEF GroupInv, GroupTypes, HealthOK

LEMMA DialOkInv ==
    ASSUME GroupInv, NEW c \in Callers, DialOk(c)
    PROVE  GroupInv'
<1>1. /\ UNCHANGED <<health, selected, fastNode, call, result, old, failedTestMux, check>>
      /\ caller[c].pc = "dial" /\ caller' = [caller EXCEPT ![c] = At("idle")]
  BY DEF DialOk, Idle, groupVars, single, provider
<1>2. failedTestMux # c
  BY <1>1, GroupAssumption DEF GroupInv, CallersOK, Checking
<1>3. CallersOK'
  BY <1>1, <1>2, Moves DEF Leading, Running, Checking
<1>4. QED
  BY <1>1, <1>3, GroupStays DEF GroupInv, GroupTypes

LEMMA DialFailsInv ==
    ASSUME GroupInv, NEW c \in Callers, DialFails(c)
    PROVE  GroupInv'
<1>1. /\ UNCHANGED <<health, selected, fastNode, call, result, old, failedTestMux, check>>
      /\ caller[c].pc = "dial"
  BY DEF DialFails, groupVars, single, provider, failing
<1>2. PICK pc \in {"idle", "check", "lock"} : caller' = [caller EXCEPT ![c] = At(pc)]
  BY DEF DialFails
<1>3. failedTestMux # c
  BY <1>1, GroupAssumption DEF GroupInv, CallersOK, Checking
<1>4. pc \in {"idle", "lock"} \cup Checking /\ pc # "testing" /\ caller[c].pc \notin Leading
  BY <1>1, <1>2 DEF Checking, Leading, Running
<1>5. CallersOK'
  BY <1>1, <1>2, <1>3, <1>4, Moves
<1>6. QED
  BY <1>1, <1>5, GroupStays DEF GroupInv, GroupTypes

LEMMA CountFailureInv ==
    ASSUME GroupInv, NEW c \in Callers, CountFailure(c)
    PROVE  GroupInv'
<1>1. /\ UNCHANGED <<health, selected, fastNode, call, result, old, check>>
      /\ caller[c].pc = "lock" /\ failedTestMux = NoCaller
  BY DEF CountFailure, groupVars, single, provider, history
<1>2. NoCaller \notin Callers /\ caller[c].pc \notin Leading
  BY <1>1, GroupAssumption DEF Leading, Running
<1>3. \/ caller' = [caller EXCEPT ![c] = At("idle")] /\ failedTestMux' = NoCaller
      \/ caller' = [caller EXCEPT ![c] = At("check")] /\ failedTestMux' = c
  BY <1>1 DEF CountFailure, Idle
<1>4. CallersOK'
  BY <1>1, <1>2, <1>3, Moves DEF Checking
<1>5. QED
  BY <1>1, <1>3, <1>4, GroupStays DEF GroupInv, GroupTypes

LEMMA CheckResetInv ==
    ASSUME GroupInv, NEW c \in Callers, CheckReset(c)
    PROVE  GroupInv'
<1>1. /\ UNCHANGED <<health, selected, fastNode, failedTestMux, check>> /\ Resets
      /\ caller[c].pc = "check" /\ caller' = [caller EXCEPT ![c] = At("load")]
  BY DEF CheckReset, groupVars, provider, failing
<1>2. call' = NoCaller /\ caller[c].pc \notin Leading
  BY <1>1, ResetFresh DEF Leading, Running
<1>3. CallersOK'
  BY <1>1, <1>2, Moves DEF Checking
<1>4. QED
  BY <1>1, <1>3, GroupReset DEF GroupInv, GroupTypes

LEMMA CheckLoadInv ==
    ASSUME GroupInv, NEW c \in Callers, CheckLoad(c)
    PROVE  GroupInv'
<1>1. /\ UNCHANGED <<health, selected, fastNode, call, result, old, failedTestMux, check>>
      /\ caller[c].pc = "load"
  BY DEF CheckLoad, groupVars, single, provider, failing, history
<1>2. PICK pc \in {"again", "begin"} : caller' = [caller EXCEPT ![c] = At(pc)]
  BY DEF CheckLoad
<1>3. pc \in Checking /\ pc # "testing" /\ caller[c].pc \notin Leading
  BY <1>1, <1>2 DEF Checking, Leading, Running
<1>4. CallersOK'
  BY <1>1, <1>2, <1>3, Moves
<1>5. QED
  BY <1>1, <1>4, GroupStays DEF GroupInv, GroupTypes

LEMMA CheckBeginInv ==
    ASSUME GroupInv, NEW c \in Callers, CheckBegin(c)
    PROVE  GroupInv'
<1>1. /\ UNCHANGED <<health, selected, fastNode, call, result, old, failedTestMux>>
      /\ caller[c].pc = "begin"
      /\ caller' = [caller EXCEPT ![c] = At(IF check = "recent" THEN "tested" ELSE "testing")]
      /\ check' = IF check = "none" THEN "running" ELSE check
  BY DEF CheckBegin, groupVars, single, provider, history
<1>2. check \in {"none", "running", "recent"} /\ check' \in {"none", "running", "recent"}
  BY <1>1 DEF GroupInv, GroupTypes
<1>3. PICK pc \in {"tested", "testing"} :
        /\ caller' = [caller EXCEPT ![c] = At(pc)]
        /\ pc = "testing" => check' = "running"
  BY <1>1, <1>2
<1>4. pc \in Checking /\ caller[c].pc \notin Leading
  BY <1>1, <1>3 DEF Checking, Leading, Running
<1>5. CallersOK'
  BY <1>1, <1>2, <1>3, <1>4, Moves
<1>6. QED
  BY <1>1, <1>2, <1>5, GroupStays DEF GroupInv, GroupTypes

LEMMA CheckEndInv ==
    ASSUME GroupInv, NEW c \in Callers, CheckEnd(c)
    PROVE  GroupInv'
<1>1. /\ UNCHANGED <<health, selected, fastNode, call, result, old, failedTestMux, check>>
      /\ caller[c].pc = "tested" /\ caller' = [caller EXCEPT ![c] = At("again")]
  BY DEF CheckEnd, groupVars, single, provider, history
<1>2. CallersOK'
  BY <1>1, Moves DEF Leading, Running, Checking
<1>3. QED
  BY <1>1, <1>2, GroupStays DEF GroupInv, GroupTypes

LEMMA CheckResetAgainInv ==
    ASSUME GroupInv, NEW c \in Callers, CheckResetAgain(c)
    PROVE  GroupInv'
<1>1. /\ UNCHANGED <<health, selected, fastNode, check>> /\ Resets
      /\ caller[c].pc = "again" /\ caller' = [caller EXCEPT ![c] = At("idle")]
      /\ failedTestMux' = IF failedTestMux = c THEN NoCaller ELSE failedTestMux
  BY DEF CheckResetAgain, Idle, groupVars, provider
<1>2. call' = NoCaller /\ caller[c].pc \notin Leading /\ NoCaller \notin Callers
  BY <1>1, ResetFresh, GroupAssumption DEF Leading, Running
<1>3. CallersOK'
  BY <1>1, <1>2, Moves
<1>4. QED
  BY <1>1, <1>3, GroupReset DEF GroupInv, GroupTypes

\* The test of a node ends.
LEMMA TestedHealth ==
    ASSUME HealthOK, NEW n \in Nodes, URLTest(n)
    PROVE  HealthOK'
<1>1. PICK o \in Outcomes : health' = [health EXCEPT ![n] = o]
  BY DEF URLTest
<1>2. o \in [alive : BOOLEAN, delay : Delays \cup {0}]
  <2>1. CASE o = Failed
    BY <2>1 DEF Failed
  <2>2. CASE o \in [alive : {TRUE}, delay : Delays]
    <3>1. PICK d \in Delays : o = [alive |-> TRUE, delay |-> d]
      BY <2>2
    <3>2. QED
      BY <3>1
  <2>3. QED
    BY <1>1, <2>1, <2>2 DEF Outcomes
<1>3. QED
  BY <1>1, <1>2 DEF HealthOK

LEMMA TestInv ==
    ASSUME GroupInv, NEW n \in Nodes, CheckNode(n) \/ TestNode(n)
    PROVE  GroupInv'
<1>1. /\ UNCHANGED <<selected, fastNode, call, result, caller, failedTestMux, check, old>>
      /\ URLTest(n)
  BY DEF CheckNode, TestNode, Recorded, groupVars, single, failing, provider
<1>2. HealthOK'
  BY <1>1, TestedHealth DEF GroupInv, GroupTypes
<1>3. CallersOK'
  BY <1>1, CallersStay
<1>4. QED
  BY <1>1, <1>2, <1>3 DEF GroupInv, GroupTypes, Fresh

LEMMA ForceSetInv ==
    ASSUME GroupInv, NEW n \in Names, ForceSet(n)
    PROVE  GroupInv'
<1>1. /\ UNCHANGED <<health, fastNode, call, result, caller, failedTestMux, check, old>>
      /\ selected' = n
  BY DEF ForceSet, single, failing, provider
<1>2. CallersOK'
  BY <1>1, CallersStay
<1>3. QED
  BY <1>1, <1>2 DEF GroupInv, GroupTypes, Fresh, HealthOK

LEMMA ForceSetResetInv ==
    ASSUME GroupInv, ForceSetReset
    PROVE  GroupInv'
<1>1. UNCHANGED <<health, selected, fastNode, caller, failedTestMux, check>> /\ Resets
  BY DEF ForceSetReset, groupVars, failing, provider
<1>2. call' = NoCaller
  BY <1>1, ResetFresh
<1>3. CallersOK'
  BY <1>1, <1>2, CallersStay
<1>4. QED
  BY <1>1, <1>3, GroupReset DEF GroupInv, GroupTypes

LEMMA ExpireInv ==
    ASSUME GroupInv, Expire
    PROVE  GroupInv'
<1>1. /\ UNCHANGED <<health, selected, fastNode, call, caller, failedTestMux, check, old>>
      /\ result' = NoResult
  BY DEF Expire, groupVars, failing, provider, history
<1>2. CallersOK'
  BY <1>1, CallersStay
<1>3. None \in Names
  BY HealthAssumption DEF None, Names
<1>4. result'.old = FALSE /\ result' \in [val : Names, old : BOOLEAN]
  BY <1>1, <1>3 DEF NoResult
<1>5. QED
  BY <1>1, <1>2, <1>4 DEF GroupInv, GroupTypes, Fresh, HealthOK

LEMMA ProviderInv ==
    ASSUME GroupInv, Tick \/ CheckAges
    PROVE  GroupInv'
<1>1. /\ UNCHANGED <<health, selected, fastNode, call, result, caller, failedTestMux, old>>
      /\ check # "running" /\ check' \in {"running", "none"}
  BY DEF Tick, CheckAges, groupVars, single, failing, history
<1>2. CallersOK'
  BY <1>1, CallersStay
<1>3. QED
  BY <1>1, <1>2, GroupStays DEF GroupInv, GroupTypes

\* The check ends for everybody who waits for it.
LEMMA CheckDoneInv ==
    ASSUME GroupInv, CheckDone
    PROVE  GroupInv'
<1>1. /\ UNCHANGED <<health, selected, fastNode, call, result, failedTestMux, old>>
      /\ check' = "recent"
      /\ caller' = [c \in Callers |-> IF caller[c].pc = "testing" THEN At("tested") ELSE caller[c]]
  BY DEF CheckDone, groupVars, single, failing, history
<1>2. At("tested") \in CallerType /\ At("tested").pc = "tested" /\ At("tested").tainted = FALSE
  BY AtPlace DEF Checking
<1>3. /\ caller \in [Callers -> CallerType] /\ caller' \in [Callers -> CallerType]
      /\ \A c \in Callers : caller'[c] = IF caller[c].pc = "testing" THEN At("tested") ELSE caller[c]
  BY <1>1, <1>2 DEF GroupInv, CallersOK
<1>4. \A c \in Callers : caller'[c].tainted = FALSE
  BY <1>2, <1>3 DEF GroupInv, CallersOK
<1>5. \A c \in Callers : /\ caller[c].pc \in Leading => caller'[c] = caller[c]
                         /\ caller[c].pc \in Checking => caller'[c].pc \in Checking
                         /\ caller'[c].pc # "testing"
                         /\ caller'[c].pc = "wait" => caller'[c] = caller[c]
  BY <1>2, <1>3 DEF Leading, Running, Checking
<1>6. \A c \in Callers : caller'[c].pc = "wait" =>
        caller'[c].on \in Callers /\ caller'[caller'[c].on].pc \in Running
  <2> SUFFICES ASSUME NEW c \in Callers, caller'[c].pc = "wait"
               PROVE  caller'[c].on \in Callers /\ caller'[caller'[c].on].pc \in Running
    OBVIOUS
  <2>1. caller'[c] = caller[c] /\ caller[c].pc = "wait"
    BY <1>5
  <2>2. caller[c].on \in Callers /\ caller[caller[c].on].pc \in Running
    BY <2>1 DEF GroupInv, CallersOK
  <2>3. caller'[caller[c].on] = caller[caller[c].on]
    BY <2>2, <1>5 DEF Leading
  <2>4. QED
    BY <2>1, <2>2, <2>3
<1>7. call' # NoCaller => caller'[call'].pc \in Leading
  BY <1>1, <1>5 DEF GroupInv, GroupTypes, CallersOK
<1>8. failedTestMux' # NoCaller => caller'[failedTestMux'].pc \in Checking
  BY <1>1, <1>5 DEF GroupInv, GroupTypes, CallersOK
<1>9. CallersOK'
  BY <1>3, <1>4, <1>5, <1>6, <1>7, <1>8 DEF CallersOK
<1>10. QED
  BY <1>1, <1>9, GroupStays DEF GroupInv, GroupTypes

\* No variable of the invariant changes.
LEMMA StutterInv ==
    ASSUME GroupInv, UNCHANGED vars
    PROVE  GroupInv'
<1>1. UNCHANGED <<health, selected, fastNode, call, result, caller, failedTestMux, check, old>>
  BY DEF vars, groupVars, single, failing, provider, history
<1>2. QED
  BY <1>1 DEF GroupInv, GroupTypes, Fresh, HealthOK, CallersOK

LEMMA NextGroup == GroupInv /\ [Next]_vars => GroupInv'
<1> SUFFICES ASSUME GroupInv, [Next]_vars PROVE GroupInv'
  OBVIOUS
<1>1. ASSUME NEW c \in Callers, CallerStep(c) PROVE GroupInv'
  BY <1>1, DoInv, ReturnInv, StoreInv, ScanInv, SettleInv, DialOkInv, DialFailsInv,
     CountFailureInv, CheckResetInv, CheckLoadInv, CheckBeginInv, CheckEndInv, CheckResetAgainInv
     DEF CallerStep
<1>2. ASSUME NEW n \in Nodes, CheckNode(n) \/ TestNode(n) PROVE GroupInv'
  BY <1>2, TestInv
<1>3. ASSUME NEW n \in 0..N, ForceSet(n) PROVE GroupInv'
  BY <1>3, ForceSetInv DEF Names
<1>4. CASE ForceSetReset \/ Expire \/ Tick \/ CheckDone \/ CheckAges
  BY <1>4, ForceSetResetInv, ExpireInv, ProviderInv, CheckDoneInv
<1>5. CASE Finished \/ UNCHANGED vars
  BY <1>5, StutterInv DEF Finished
<1>6. QED
  BY <1>1, <1>2, <1>3, <1>4, <1>5 DEF Next

LEMMA GroupAlways == Spec => []GroupInv
BY InitGroup, NextGroup, PTL DEF Spec

-----------------------------------------------------------------------------
(* Theorems *)

\* No dial ever uses a choice from before the last Reset: Do joins neither the result nor
\* the call of an earlier one, whatever overlaps.
THEOREM FreshChoices == Spec => []FreshAfterReset
<1>1. GroupInv => FreshAfterReset
  BY DEF GroupInv, CallersOK, FreshAfterReset
<1>2. QED
  BY <1>1, GroupAlways, PTL

\* Nobody waits in vain: not for a call that has ended, not for a check that is over, and
\* not for a failedTestMux that is never released.
THEOREM WaitersServed == Spec => []WaitersAreServed
<1>1. GroupInv => WaitersAreServed
  BY DEF GroupInv, CallersOK, WaitersAreServed
<1>2. QED
  BY <1>1, GroupAlways, PTL

\* The choice of fast is a live, measured node within the tolerance of the fastest, for any
\* list, delays and tolerance, unless the tolerance takes a measured delay to exactly 65535.
THEOREM FastChoices ==
    ASSUME \A d \in Delays : d + Tolerance # MaxDelay
    PROVE  Spec => []ChoiceIsFast
<1>1. GroupInv => ChoiceIsFast
  BY ChoiceFast DEF GroupInv, GroupTypes
<1>2. QED
  BY <1>1, GroupAlways, PTL

-----------------------------------------------------------------------------
(* Selections: a dial that begins after Set goes through the selected node *)

\* The selected node can be used.
InUse == selected # None /\ AliveForTestUrl(selected)

\* A call in state r ends with the selected node, as long as that node can be used.
FindsIt(r) == r.pc = "scan" \/ (r.pc \in {"return", "store"} /\ r.val = selected)

\* A dial that was promised the selected node has it, computes it or waits for it.
Served(r) ==
    /\ r.pc \in Leading => FindsIt(r)
    /\ r.pc = "wait" => r.on \in Callers /\ FindsIt(caller[r.on])
    /\ r.pc = "dial" => r.val = selected

\* Since the last Reset the selected node could be used: so there is nothing else to join.
KeptOK ==
    kept => /\ InUse
            /\ result # NoResult => result.val = selected
            /\ call # NoCaller => FindsIt(caller[call])

PromisesOK ==
    /\ promised \in [Callers -> Names]
    /\ \A c \in Callers : promised[c] # None =>
           promised[c] = selected /\ InUse /\ Served(caller[c])

SelectionInv == KeptOK /\ PromisesOK

\* One caller moves.  A call that finds the selected node goes on to find it, and Do joins
\* only what finds it.
LEMMA SelectionMoves ==
    ASSUME GroupInv, SelectionInv, NEW c \in Callers, NEW r \in CallerType,
           UNCHANGED <<health, selected>>, caller' = [caller EXCEPT ![c] = r],
           kept' => InUse,
           kept' /\ result' # NoResult => result'.val = selected,
           kept' /\ call' # NoCaller =>
               \/ call' = call /\ kept /\ (call = c => caller[c].pc \in Running)
               \/ call' = c /\ r.pc = "scan",
           InUse /\ FindsIt(caller[c]) /\ caller[c].pc \in Running => FindsIt(r),
           promised' \in [Callers -> Names],
           \A d \in Callers \ {c} : promised'[d] # None => promised'[d] = promised[d],
           promised'[c] # None => /\ promised'[c] = selected /\ InUse /\ Served(r)
                                  /\ r.pc = "wait" => r.on # c
    PROVE  SelectionInv'
<1>1. /\ caller'[c] = r /\ \A d \in Callers : d # c => caller'[d] = caller[d]
      /\ NoCaller \notin Callers
  BY GroupAssumption DEF GroupInv, CallersOK
<1>2. InUse' <=> InUse
  BY DEF InUse, AliveForTestUrl
<1>3. \A s : FindsIt(s)' <=> FindsIt(s)
  BY DEF FindsIt
<1>4. KeptOK'
  <2> SUFFICES ASSUME kept'
               PROVE  /\ InUse' /\ (result' # NoResult => result'.val = selected')
                      /\ call' # NoCaller => FindsIt(caller[call])'
    BY DEF KeptOK
  <2>1. ASSUME call' # NoCaller PROVE FindsIt(caller'[call'])
    <3>1. CASE call' = c /\ r.pc = "scan"
      BY <3>1, <1>1 DEF FindsIt
    <3>2. CASE call' = call /\ kept /\ (call = c => caller[c].pc \in Running)
      <4>1. InUse /\ FindsIt(caller[call]) /\ call \in Callers
        BY <2>1, <3>2 DEF SelectionInv, KeptOK, GroupInv, GroupTypes
      <4>2. QED
        BY <3>2, <4>1, <1>1
    <3>3. QED
      BY <2>1, <3>1, <3>2
  <2>2. QED
    BY <2>1, <1>2 DEF FindsIt
<1>5. ASSUME NEW d \in Callers, promised'[d] # None
      PROVE  promised'[d] = selected /\ InUse /\ Served(caller[d])'
  <2>1. CASE d = c
    <3>1. promised'[c] = selected /\ InUse /\ Served(r) /\ (r.pc = "wait" => r.on # c)
      BY <1>5, <2>1
    <3>2. r.pc = "wait" => r.on \in Callers /\ FindsIt(caller'[r.on])
      BY <3>1, <1>1 DEF Served
    <3>3. Served(caller[d])'
      BY <2>1, <3>1, <3>2, <1>1 DEF Served, FindsIt
    <3>4. QED
      BY <2>1, <3>1, <3>3
  <2>2. CASE d # c
    <3>1. promised[d] # None /\ promised'[d] = promised[d] /\ caller'[d] = caller[d]
      BY <1>5, <2>2, <1>1
    <3>2. promised[d] = selected /\ InUse /\ Served(caller[d])
      BY <3>1 DEF SelectionInv, PromisesOK
    <3>3. ASSUME caller[d].pc = "wait"
          PROVE  caller[d].on \in Callers /\ FindsIt(caller'[caller[d].on])
      <4>1. /\ caller[d].on \in Callers /\ FindsIt(caller[caller[d].on])
            /\ caller[caller[d].on].pc \in Running
        BY <3>2, <3>3 DEF Served, GroupInv, CallersOK
      <4>2. QED
        BY <3>2, <4>1, <1>1
    <3>4. Served(caller[d])'
      BY <3>1, <3>2, <3>3 DEF Served, FindsIt
    <3>5. QED
      BY <3>1, <3>2, <3>4
  <2>3. QED
    BY <2>1, <2>2
<1>6. PromisesOK'
  BY <1>2, <1>5 DEF PromisesOK
<1>7. QED
  BY <1>4, <1>6 DEF SelectionInv

\* A Reset leaves nothing to join.
LEMMA ResetSelects ==
    ASSUME Resets
    PROVE  call' = NoCaller /\ result' = NoResult /\ (kept' => InUse) /\ promised' = promised
BY DEF Resets, Reset, InUse

\* A caller outside fn goes on, perhaps with a Reset, and perhaps forgets its promise.
LEMMA SelectionQuiet ==
    ASSUME GroupInv, SelectionInv, NEW c \in Callers, NEW pc \in {"idle", "lock"} \cup Checking,
           caller[c].pc \notin Leading, UNCHANGED <<health, selected>>,
           caller' = [caller EXCEPT ![c] = At(pc)],
           UNCHANGED <<call, result, kept>> \/ Resets,
           promised' = promised \/ promised' = [promised EXCEPT ![c] = None]
    PROVE  SelectionInv'
<1>1. At(pc) \in CallerType /\ At(pc).pc = pc
  BY AtPlace
<1>2. /\ pc \notin Leading /\ pc # "wait" /\ pc # "dial"
      /\ caller[c].pc \notin Running /\ None \in Names /\ NoCaller \notin Callers
  BY HealthAssumption, GroupAssumption DEF Checking, Leading, Running, None, Names
<1>3. Served(At(pc))
  BY <1>1, <1>2 DEF Served
<1>4. call # NoCaller => call # c
  BY <1>2 DEF GroupInv, CallersOK
<1>5. /\ kept' => InUse
      /\ kept' /\ result' # NoResult => result'.val = selected
      /\ kept' /\ call' # NoCaller => call' = call /\ kept /\ call # c
  <2>1. CASE Resets
    BY <2>1, ResetSelects
  <2>2. CASE UNCHANGED <<call, result, kept>>
    BY <2>2, <1>4 DEF SelectionInv, KeptOK
  <2>3. QED
    BY <2>1, <2>2
<1>6. /\ promised' \in [Callers -> Names]
      /\ \A d \in Callers : promised'[d] # None => promised'[d] = promised[d]
      /\ promised'[c] # None => promised'[c] = selected /\ InUse
  BY <1>2 DEF SelectionInv, PromisesOK
<1>7. QED
  BY <1>1, <1>2, <1>3, <1>5, <1>6, SelectionMoves

\* The callers stay, and so does what is known of the selected node.
LEMMA SelectionStays ==
    ASSUME GroupInv, SelectionInv, UNCHANGED <<health, selected, caller, promised>>,
           \/ UNCHANGED <<call, kept>> /\ result' \in {result, NoResult}
           \/ Resets
    PROVE  SelectionInv'
<1>1. InUse' <=> InUse
  BY DEF InUse, AliveForTestUrl
<1>2. PromisesOK'
  BY <1>1 DEF SelectionInv, PromisesOK, Served, FindsIt
<1>3. KeptOK'
  <2>1. CASE Resets
    BY <2>1, <1>1, ResetSelects DEF KeptOK
  <2>2. CASE UNCHANGED <<call, kept>> /\ result' \in {result, NoResult}
    BY <2>2, <1>1 DEF SelectionInv, KeptOK, FindsIt
  <2>3. QED
    BY <2>1, <2>2
<1>4. QED
  BY <1>2, <1>3 DEF SelectionInv

-----------------------------------------------------------------------------
(* The steps *)

LEMMA InitSelection == Init => SelectionInv
<1>1. None \in Names
  BY HealthAssumption DEF None, Names
<1>2. QED
  BY <1>1 DEF Init, SelectionInv, KeptOK, PromisesOK

\* Do promises the selected node, and joins only what finds it.
LEMMA DoSelection ==
    ASSUME GroupInv, SelectionInv, NEW c \in Callers, Do(c)
    PROVE  SelectionInv'
<1>1. /\ UNCHANGED <<health, selected, result, kept>> /\ caller[c].pc = "idle"
      /\ promised' = [promised EXCEPT ![c] = IF kept THEN selected ELSE None]
  BY DEF Do, groupVars, single
<1>2. /\ NoCaller \notin Callers /\ call # c /\ caller[c].pc \notin Running
      /\ None \in Names /\ selected \in Names
  BY <1>1, GroupAssumption, HealthAssumption
     DEF GroupInv, GroupTypes, CallersOK, Leading, Running, None, Names
<1>3. /\ promised' \in [Callers -> Names]
      /\ \A d \in Callers \ {c} : promised'[d] # None => promised'[d] = promised[d]
      /\ promised'[c] = IF kept THEN selected ELSE None
  BY <1>1, <1>2 DEF SelectionInv, PromisesOK
<1>4. kept => /\ InUse /\ (result # NoResult => result.val = selected)
              /\ call # NoCaller => FindsIt(caller[call])
  BY DEF SelectionInv, KeptOK
<1>5. result.val \in Names
  BY DEF GroupInv, GroupTypes
<1>6. PICK r \in CallerType :
        /\ caller' = [caller EXCEPT ![c] = r]
        /\ kept => Served(r)
        /\ r.pc = "wait" => r.on # c
        /\ call' # NoCaller => call' = call \/ (call' = c /\ r.pc = "scan")
  <2>1. CASE result # NoResult
    <3> DEFINE r == [At("dial") EXCEPT !.val = result.val, !.tainted = FALSE]
    <3>1. caller' = [caller EXCEPT ![c] = r] /\ call' = call
      <4>1. caller' = [caller EXCEPT ![c] = [At("dial") EXCEPT !.val = result.val,
                                                               !.tainted = result.old]]
        BY <2>1 DEF Do
      <4>2. result.old = FALSE
        BY DEF GroupInv, Fresh
      <4>3. call' = call
        BY <2>1 DEF Do, single
      <4>4. QED
        BY <4>1, <4>2, <4>3
    <3>2. At("dial") \in CallerType /\ At("dial").pc = "dial"
      BY AtPlace
    <3>3. r \in CallerType /\ r.pc = "dial" /\ r.val = result.val
      BY <1>5, <3>2, GotResult DEF CallerType
    <3> HIDE DEF r
    <3>4. kept => Served(r)
      BY <1>4, <2>1, <3>3 DEF Served, Leading, Running
    <3>5. QED
      BY <3>1, <3>3, <3>4
  <2>2. CASE result = NoResult /\ call # NoCaller
    <3>1. call \in Callers /\ caller[call] \in CallerType /\ caller[call].pc \in Leading
      BY <2>2 DEF GroupInv, GroupTypes, CallersOK
    <3>2. (call \in old) = FALSE
      BY DEF GroupInv, Fresh
    <3>3. call' = call
      BY <2>2 DEF Do, single
    <3>4. CASE caller[call].pc = "store"
      <4> DEFINE r == [At("dial") EXCEPT !.val = caller[call].val, !.tainted = FALSE]
      <4>1. caller' = [caller EXCEPT ![c] = r]
        <5>1. caller' = [caller EXCEPT ![c] =
                 [At("dial") EXCEPT !.val = caller[call].val, !.tainted = call \in old]]
          BY <2>2, <3>4 DEF Do
        <5>2. QED
          BY <5>1, <3>2
      <4>2. At("dial") \in CallerType /\ At("dial").pc = "dial" /\ caller[call].val \in Names
        BY <3>1, AtPlace DEF CallerType
      <4>3. r \in CallerType /\ r.pc = "dial" /\ r.val = caller[call].val
        BY <4>2, GotResult DEF CallerType
      <4> HIDE DEF r
      <4>4. kept => Served(r)
        BY <1>4, <2>2, <3>4, <4>3 DEF Served, FindsIt, Leading, Running
      <4>5. QED
        BY <3>3, <4>1, <4>3, <4>4
    <3>5. CASE caller[call].pc # "store"
      <4> DEFINE r == [At("wait") EXCEPT !.on = call, !.tainted = FALSE]
      <4>1. caller' = [caller EXCEPT ![c] = r]
        <5>1. caller' = [caller EXCEPT ![c] =
                 [At("wait") EXCEPT !.on = call, !.tainted = call \in old]]
          BY <2>2, <3>5 DEF Do
        <5>2. QED
          BY <5>1, <3>2
      <4>2. At("wait") \in CallerType /\ At("wait").pc = "wait"
        BY AtPlace
      <4>3. r \in CallerType /\ r.pc = "wait" /\ r.on = call
        BY <3>1, <4>2, JoinedCall
      <4> HIDE DEF r
      <4>4. kept => Served(r)
        BY <1>4, <2>2, <3>1, <4>3 DEF Served, Leading, Running
      <4>5. QED
        BY <1>2, <3>3, <4>1, <4>3, <4>4
    <3>6. QED
      BY <3>4, <3>5
  <2>3. CASE result = NoResult /\ call = NoCaller
    <3>1. caller' = [caller EXCEPT ![c] = At("scan")] /\ call' = c
      BY <2>3 DEF Do
    <3>2. At("scan") \in CallerType /\ At("scan").pc = "scan"
      BY AtPlace DEF Leading, Running
    <3>3. Served(At("scan"))
      BY <3>2 DEF Served, FindsIt
    <3>4. QED
      BY <3>1, <3>2, <3>3
  <2>4. QED
    BY <2>1, <2>2, <2>3
<1>7. promised'[c] # None => /\ promised'[c] = selected /\ InUse /\ Served(r)
                             /\ r.pc = "wait" => r.on # c
  BY <1>3, <1>4, <1>6
<1>8. /\ kept' => InUse
      /\ kept' /\ result' # NoResult => result'.val = selected
      /\ kept' /\ call' # NoCaller => \/ call' = call /\ kept /\ (call = c => caller[c].pc \in Running)
                                      \/ call' = c /\ r.pc = "scan"
  BY <1>1, <1>2, <1>4, <1>6
<1>9. QED
  BY <1>1, <1>2, <1>3, <1>6, <1>7, <1>8, SelectionMoves

\* wg.Done: the waiters have the selected node if the call has found it.
LEMMA ReturnSelection ==
    ASSUME GroupInv, SelectionInv, NEW c \in Callers, Return(c)
    PROVE  SelectionInv'
<1> DEFINE v == IF caller[c].val # None THEN caller[c].val ELSE fastNode
           mine == [caller[c] EXCEPT !.pc = "store", !.val = v]
           got == [At("dial") EXCEPT !.val = v, !.tainted = FALSE]
           waits(d) == caller[d].pc = "wait" /\ caller[d].on = c
<1>1. UNCHANGED <<health, selected, call, result, kept, promised>> /\ caller[c].pc = "return"
  BY DEF Return, groupVars, single, history
<1>2. caller \in [Callers -> CallerType] /\ NoCaller \notin Callers
  BY GroupAssumption DEF GroupInv, CallersOK
<1>3. v \in Names /\ (InUse /\ FindsIt(caller[c]) => v = selected)
  <2>1. caller[c].val \in Names /\ fastNode \in Names
    BY <1>2 DEF CallerType, GroupInv, GroupTypes
  <2>2. QED
    BY <1>1, <2>1 DEF FindsIt, InUse
<1>4. caller' = [d \in Callers |-> IF d = c THEN mine ELSE IF waits(d) THEN got ELSE caller[d]]
  <2>1. caller' = [d \in Callers |->
           IF d = c THEN mine
           ELSE IF waits(d) THEN [At("dial") EXCEPT !.val = v, !.tainted = caller[d].tainted]
           ELSE caller[d]]
    BY DEF Return
  <2> HIDE DEF v
  <2>2. \A d \in Callers : [At("dial") EXCEPT !.val = v, !.tainted = caller[d].tainted] = got
    BY DEF GroupInv, CallersOK
  <2> HIDE DEF mine, got
  <2>3. QED
    BY <2>1, <2>2
<1> HIDE DEF v
<1>5. mine.pc = "store" /\ mine.val = v
  BY <1>2, <1>3 DEF CallerType
<1>6. got.pc = "dial" /\ got.val = v
  <2>1. At("dial") \in CallerType /\ At("dial").pc = "dial"
    BY AtPlace
  <2>2. QED
    BY <1>3, <2>1, GotResult DEF CallerType
<1> HIDE DEF mine, got
<1>7. /\ caller'[c] = mine
      /\ \A d \in Callers : d # c => caller'[d] = IF waits(d) THEN got ELSE caller[d]
  BY <1>4
<1>8. InUse' <=> InUse
  BY <1>1 DEF InUse, AliveForTestUrl
<1>9. \A d \in Callers : InUse /\ FindsIt(caller[d]) => FindsIt(caller'[d])
  <2> SUFFICES ASSUME NEW d \in Callers, InUse, FindsIt(caller[d]) PROVE FindsIt(caller'[d])
    OBVIOUS
  <2>1. CASE d = c
    BY <2>1, <1>3, <1>5, <1>7 DEF FindsIt
  <2>2. CASE d # c
    <3>1. ~waits(d)
      BY DEF FindsIt
    <3>2. QED
      BY <2>2, <3>1, <1>7
  <2>3. QED
    BY <2>1, <2>2
<1>10. KeptOK'
  <2> SUFFICES ASSUME kept
               PROVE  /\ InUse /\ (result # NoResult => result.val = selected)
                      /\ call # NoCaller => FindsIt(caller'[call])
    BY <1>1, <1>8 DEF KeptOK, FindsIt
  <2>1. /\ InUse /\ (result # NoResult => result.val = selected)
        /\ call # NoCaller => FindsIt(caller[call])
    BY DEF SelectionInv, KeptOK
  <2>2. QED
    BY <2>1, <1>9 DEF GroupInv, GroupTypes
<1>11. ASSUME NEW d \in Callers, promised[d] # None
       PROVE  promised[d] = selected /\ InUse /\ Served(caller[d])'
  <2>1. promised[d] = selected /\ InUse /\ Served(caller[d])
    BY <1>11 DEF SelectionInv, PromisesOK
  <2>2. CASE d = c
    BY <2>1, <2>2, <1>1, <1>3, <1>5, <1>7 DEF Served, FindsIt, Leading, Running
  <2>3. CASE d # c /\ waits(d)
    <3>1. v = selected
      BY <2>1, <2>3, <1>3 DEF Served
    <3>2. QED
      BY <2>1, <2>3, <3>1, <1>1, <1>6, <1>7 DEF Served, Leading, Running
  <2>4. CASE d # c /\ ~waits(d)
    <3>1. caller'[d] = caller[d]
      BY <2>4, <1>7
    <3>2. caller[d].pc = "wait" => caller[d].on \in Callers /\ FindsIt(caller'[caller[d].on])
      BY <2>1, <1>9 DEF Served
    <3>3. QED
      BY <2>1, <3>1, <3>2, <1>1 DEF Served, FindsIt
  <2>5. QED
    BY <2>2, <2>3, <2>4
<1>12. PromisesOK'
  BY <1>1, <1>8, <1>11 DEF PromisesOK, SelectionInv
<1>13. QED
  BY <1>10, <1>12 DEF SelectionInv

\* The result Store keeps is the one the call has found.
LEMMA StoreSelection ==
    ASSUME GroupInv, SelectionInv, NEW c \in Callers, Store(c)
    PROVE  SelectionInv'
<1> DEFINE r == [At("dial") EXCEPT !.val = caller[c].val]
<1>1. /\ UNCHANGED <<health, selected, kept, promised>> /\ caller[c].pc = "store"
      /\ caller' = [caller EXCEPT ![c] = r]
  BY DEF Store, groupVars
<1>2. At("dial") \in CallerType /\ At("dial").pc = "dial" /\ caller[c].val \in Names
  BY AtPlace DEF GroupInv, CallersOK, CallerType
<1>3. r \in CallerType /\ r.pc = "dial" /\ r.val = caller[c].val
  BY <1>2, GotValue DEF CallerType
<1> HIDE DEF r
<1>4. caller[c].pc \notin Running /\ caller[c].pc \in Leading /\ NoCaller \notin Callers
  BY <1>1, GroupAssumption DEF Running, Leading
<1>5. /\ kept => InUse
      /\ kept /\ result' # NoResult => result'.val = selected
      /\ call' # NoCaller => call' = call /\ call # c
  <2>1. kept => /\ InUse /\ (result # NoResult => result.val = selected)
                /\ call # NoCaller => FindsIt(caller[call])
    BY DEF SelectionInv, KeptOK
  <2>2. CASE call = c
    <3>1. call' = NoCaller /\ result'.val = caller[c].val
      BY <2>2 DEF Store, Keep
    <3>2. kept => caller[c].val = selected
      BY <2>1, <2>2, <1>1, <1>4 DEF FindsIt
    <3>3. QED
      BY <2>1, <3>1, <3>2
  <2>3. CASE call # c
    BY <2>1, <2>3 DEF Store, Keep, single
  <2>4. QED
    BY <2>2, <2>3
<1>6. promised[c] # None => promised[c] = selected /\ InUse /\ Served(r)
  <2> SUFFICES ASSUME promised[c] # None PROVE promised[c] = selected /\ InUse /\ Served(r)
    OBVIOUS
  <2>1. promised[c] = selected /\ InUse /\ Served(caller[c])
    BY DEF SelectionInv, PromisesOK
  <2>2. caller[c].val = selected
    BY <2>1, <1>1, <1>4 DEF Served, FindsIt
  <2>3. QED
    BY <2>1, <2>2, <1>3 DEF Served, Leading, Running
<1>7. QED
  BY <1>1, <1>3, <1>4, <1>5, <1>6, SelectionMoves DEF SelectionInv, PromisesOK

\* A selected node that can be used is what the first statement of fast returns.
LEMMA ScanSelection ==
    ASSUME GroupInv, SelectionInv, NEW c \in Callers, Scan(c)
    PROVE  SelectionInv'
<1>1. UNCHANGED <<health, selected, call, result, kept, promised>> /\ caller[c].pc = "scan"
  BY DEF Scan, single, history
<1>2. PICK r \in CallerType :
        /\ caller' = [caller EXCEPT ![c] = r]
        /\ r.pc \in {"return", "settle"}
        /\ InUse => FindsIt(r)
  <2>1. CASE InUse
    <3> DEFINE r == [At("return") EXCEPT !.val = selected]
    <3>1. caller' = [caller EXCEPT ![c] = r]
      BY <2>1 DEF Scan, InUse
    <3>2. At("return") \in CallerType /\ At("return").pc = "return" /\ selected \in Names
      BY AtPlace DEF Leading, Running, GroupInv, GroupTypes
    <3>3. r \in CallerType /\ r.pc = "return" /\ r.val = selected
      BY <3>2, GotValue DEF CallerType
    <3> HIDE DEF r
    <3>4. QED
      BY <3>1, <3>3 DEF FindsIt
  <2>2. CASE ~InUse
    <3> DEFINE r == [At("settle") EXCEPT !.fast = Fastest, !.absent = FastNotExist]
    <3>1. caller' = [caller EXCEPT ![c] = r]
      BY <2>2 DEF Scan, InUse
    <3>2. At("settle") \in CallerType /\ At("settle").pc = "settle"
      BY AtPlace DEF Leading, Running
    <3>3. Fastest \in Names
      <4>1. Fastest \in Nodes
        BY FastestIsLeast DEF GroupInv, GroupTypes
      <4>2. QED
        BY <4>1 DEF Names, Nodes
    <3>4. FastNotExist \in BOOLEAN
      BY DEF FastNotExist
    <3>5. r \in CallerType /\ r.pc = "settle"
      BY <3>2, <3>3, <3>4, HasScanned
    <3> HIDE DEF r
    <3>6. QED
      BY <3>1, <3>5, <2>2
  <2>3. QED
    BY <2>1, <2>2
<1>3. caller[c].pc \in Running /\ NoCaller \notin Callers
  BY <1>1, GroupAssumption DEF Running
<1>4. promised[c] # None => promised[c] = selected /\ InUse /\ Served(r)
  <2>1. promised[c] # None => promised[c] = selected /\ InUse
    BY DEF SelectionInv, PromisesOK
  <2>2. QED
    BY <2>1, <1>2 DEF Served
<1>5. /\ kept => InUse
      /\ kept /\ result # NoResult => result.val = selected
  BY DEF SelectionInv, KeptOK
<1>6. QED
  BY <1>1, <1>2, <1>3, <1>4, <1>5, SelectionMoves DEF SelectionInv, PromisesOK

\* A call that compares delays has not been promised anything.
LEMMA SettleSelection ==
    ASSUME GroupInv, SelectionInv, NEW c \in Callers, Settle(c)
    PROVE  SelectionInv'
<1>1. /\ UNCHANGED <<health, selected, call, result, kept, promised>>
      /\ caller[c].pc = "settle" /\ caller' = [caller EXCEPT ![c] = At("return")]
  BY DEF Settle, single, history
<1>2. At("return") \in CallerType /\ At("return").pc = "return"
  BY AtPlace DEF Leading, Running
<1>3. caller[c].pc \in Running /\ caller[c].pc \in Leading /\ ~FindsIt(caller[c])
  BY <1>1 DEF Running, Leading, FindsIt
<1>4. promised[c] = None
  BY <1>3 DEF SelectionInv, PromisesOK, Served
<1>5. /\ kept => InUse
      /\ kept /\ result # NoResult => result.val = selected
  BY DEF SelectionInv, KeptOK
<1>6. QED
  BY <1>1, <1>2, <1>3, <1>4, <1>5, SelectionMoves DEF SelectionInv, PromisesOK

\* The ends of a dial and the steps of a health check.
LEMMA DialSelection ==
    ASSUME GroupInv, SelectionInv, NEW c \in Callers,
           \/ DialOk(c) \/ DialFails(c) \/ CountFailure(c) \/ CheckReset(c) \/ CheckLoad(c)
           \/ CheckBegin(c) \/ CheckEnd(c) \/ CheckResetAgain(c)
    PROVE  SelectionInv'
<1>1. PICK pc \in {"idle", "lock"} \cup Checking : caller' = [caller EXCEPT ![c] = At(pc)]
  <2>1. \E pc \in {"idle", "lock", "check", "load", "again", "begin", "tested", "testing"} :
           caller' = [caller EXCEPT ![c] = At(pc)]
    BY DEF DialOk, DialFails, CountFailure, CheckReset, CheckLoad, CheckBegin, CheckEnd,
           CheckResetAgain, Idle
  <2>2. QED
    BY <2>1 DEF Checking
<1>2. caller[c].pc \notin Leading
  BY DEF DialOk, DialFails, CountFailure, CheckReset, CheckLoad, CheckBegin, CheckEnd,
         CheckResetAgain, Leading, Running
<1>3. UNCHANGED <<health, selected>>
  BY DEF DialOk, DialFails, CountFailure, CheckReset, CheckLoad, CheckBegin, CheckEnd,
         CheckResetAgain, groupVars
<1>4. UNCHANGED <<call, result, kept>> \/ Resets
  BY DEF DialOk, DialFails, CountFailure, CheckReset, CheckLoad, CheckBegin, CheckEnd,
         CheckResetAgain, single, history
<1>5. promised' = promised \/ promised' = [promised EXCEPT ![c] = None]
  BY DEF DialOk, DialFails, CountFailure, CheckReset, CheckLoad, CheckBegin, CheckEnd,
         CheckResetAgain, Resets, history
<1>6. QED
  BY <1>1, <1>2, <1>3, <1>4, <1>5, SelectionQuiet

\* A test that finds the selected node dead ends every promise, and no other test does.
LEMMA TestSelection ==
    ASSUME GroupInv, SelectionInv, NEW n \in Nodes, CheckNode(n) \/ TestNode(n)
    PROVE  SelectionInv'
<1>1. UNCHANGED <<selected, caller, call, result>> /\ Recorded
  BY DEF CheckNode, TestNode, groupVars, single
<1>2. None \in Names
  BY HealthAssumption DEF None, Names
<1>3. KeptOK'
  <2> SUFFICES ASSUME kept' PROVE KeptOK'
    BY DEF KeptOK
  <2>1. kept /\ health'[selected].alive
    BY <1>1 DEF Recorded
  <2>2. QED
    BY <1>1, <2>1 DEF SelectionInv, KeptOK, InUse, AliveForTestUrl, FindsIt
<1>4. ASSUME NEW c \in Callers, promised'[c] # None
      PROVE  promised'[c] = promised[c] /\ health'[promised[c]].alive
  BY <1>1, <1>4 DEF Recorded
<1>5. promised' \in [Callers -> Names]
  BY <1>1, <1>2 DEF Recorded, SelectionInv, PromisesOK
<1>6. ASSUME NEW c \in Callers, promised'[c] # None
      PROVE  promised'[c] = selected /\ InUse' /\ Served(caller[c])'
  <2>1. promised[c] = selected /\ InUse /\ Served(caller[c])
    BY <1>4, <1>6 DEF SelectionInv, PromisesOK
  <2>2. InUse'
    BY <1>1, <1>4, <1>6, <2>1 DEF InUse, AliveForTestUrl
  <2>3. Served(caller[c])'
    BY <1>1, <2>1 DEF Served, FindsIt
  <2>4. QED
    BY <1>4, <1>6, <2>1, <2>2, <2>3
<1>7. PromisesOK'
  BY <1>1, <1>5, <1>6 DEF PromisesOK
<1>8. QED
  BY <1>3, <1>7 DEF SelectionInv

\* Until the Reset of ForceSet nothing is promised.
LEMMA ForceSetSelection ==
    ASSUME NEW n \in Names, ForceSet(n)
    PROVE  SelectionInv'
<1>1. None \in Names
  BY HealthAssumption DEF None, Names
<1>2. kept' = FALSE /\ promised' = [c \in Callers |-> None]
  BY DEF ForceSet
<1>3. QED
  BY <1>1, <1>2 DEF SelectionInv, KeptOK, PromisesOK

LEMMA GroupSelection ==
    ASSUME GroupInv, SelectionInv, ForceSetReset \/ Expire \/ Tick \/ CheckAges \/ UNCHANGED vars
    PROVE  SelectionInv'
<1>1. /\ UNCHANGED <<health, selected, caller>>
      /\ \/ UNCHANGED <<call, kept>> /\ result' \in {result, NoResult}
         \/ Resets
  BY DEF ForceSetReset, Expire, Tick, CheckAges, vars, groupVars, single, history
<1>2. promised' = promised
  BY DEF ForceSetReset, Resets, Expire, Tick, CheckAges, vars, history
<1>3. QED
  BY <1>1, <1>2, SelectionStays

\* The end of a check moves only callers that are in it.
LEMMA CheckDoneSelection ==
    ASSUME GroupInv, SelectionInv, CheckDone
    PROVE  SelectionInv'
<1>1. /\ UNCHANGED <<health, selected, call, result, kept, promised>>
      /\ \A c \in Callers :
            caller'[c] = IF caller[c].pc = "testing" THEN At("tested") ELSE caller[c]
  BY DEF CheckDone, groupVars, single, history
<1>2. At("tested").pc = "tested"
  BY AtPlace DEF Checking
<1>3. InUse' <=> InUse
  BY <1>1 DEF InUse, AliveForTestUrl
<1>4. \A c \in Callers : FindsIt(caller[c]) => caller'[c] = caller[c]
  BY <1>1 DEF FindsIt
<1>5. KeptOK'
  BY <1>1, <1>3, <1>4 DEF SelectionInv, KeptOK, GroupInv, GroupTypes, FindsIt
<1>6. ASSUME NEW c \in Callers, promised[c] # None
      PROVE  promised[c] = selected /\ InUse /\ Served(caller[c])'
  <2>1. promised[c] = selected /\ InUse /\ Served(caller[c])
    BY <1>6 DEF SelectionInv, PromisesOK
  <2>2. CASE caller[c].pc = "testing"
    BY <2>1, <2>2, <1>1, <1>2 DEF Served, Leading, Running
  <2>3. CASE caller[c].pc # "testing"
    <3>1. caller'[c] = caller[c]
      BY <2>3, <1>1
    <3>2. caller[c].pc = "wait" => caller[c].on \in Callers /\ FindsIt(caller'[caller[c].on])
      BY <2>1, <1>4 DEF Served
    <3>3. QED
      BY <2>1, <3>1, <3>2, <1>1 DEF Served, FindsIt
  <2>4. QED
    BY <2>2, <2>3
<1>7. PromisesOK'
  BY <1>1, <1>3, <1>6 DEF SelectionInv, PromisesOK
<1>8. QED
  BY <1>5, <1>7 DEF SelectionInv

LEMMA NextSelection == GroupInv /\ SelectionInv /\ [Next]_vars => SelectionInv'
<1> SUFFICES ASSUME GroupInv, SelectionInv, [Next]_vars PROVE SelectionInv'
  OBVIOUS
<1>1. ASSUME NEW c \in Callers, CallerStep(c) PROVE SelectionInv'
  BY <1>1, DoSelection, ReturnSelection, StoreSelection, ScanSelection, SettleSelection,
     DialSelection DEF CallerStep
<1>2. ASSUME NEW n \in Nodes, CheckNode(n) \/ TestNode(n) PROVE SelectionInv'
  BY <1>2, TestSelection
<1>3. ASSUME NEW n \in 0..N, ForceSet(n) PROVE SelectionInv'
  BY <1>3, ForceSetSelection DEF Names
<1>4. CASE ForceSetReset \/ Expire \/ Tick \/ CheckAges
  BY <1>4, GroupSelection
<1>5. CASE CheckDone
  BY <1>5, CheckDoneSelection
<1>6. CASE Finished \/ UNCHANGED vars
  BY <1>6, GroupSelection DEF Finished
<1>7. QED
  BY <1>1, <1>2, <1>3, <1>4, <1>5, <1>6 DEF Next

\* A dial that begins after the user's Set returned goes through the selected node, as long
\* as that node stays alive and selected, whatever calls, checks and Resets overlap with it.
THEOREM SelectionIsHonoured == Spec => []SelectionHonoured
<1>1. SelectionInv => SelectionHonoured
  BY DEF SelectionInv, PromisesOK, Served, SelectionHonoured
<1>2. QED
  BY <1>1, GroupAlways, InitSelection, NextSelection, PTL DEF Spec

=============================================================================
