------------------------------ MODULE ProxyHealth ------------------------------
(***************************************************************************)
(* What the core knows of the nodes of a group: the outcome of the last    *)
(* test of each of them against the group's test URL (adapter/adapter.go). *)
(* Nodes are numbered in the order of the group's list.                    *)
(***************************************************************************)
EXTENDS Naturals

CONSTANTS
    N,          \* how many nodes the group lists
    Delays      \* measured delays, in milliseconds; 0 is a sub-millisecond answer

\* Delays are uint16.
MaxDelay == 65535
Wrap(d) == d % (MaxDelay + 1)

ASSUME HealthAssumption == N \in Nat \ {0} /\ Delays \subseteq 0..(MaxDelay - 1)

Nodes == 1..N
None == 0

VARIABLE health     \* per node: internalProxyState's alive and last history record

Untested == [alive |-> TRUE, delay |-> 0]
Failed == [alive |-> FALSE, delay |-> 0]

Outcomes == {Failed} \cup [alive : {TRUE}, delay : Delays]

AliveForTestUrl(n) == health[n].alive

LastDelayForTestUrl_Raw(n) == health[n].delay

LastDelayForTestUrl(n) ==
    IF ~health[n].alive \/ health[n].delay = 0 THEN MaxDelay ELSE health[n].delay

\* A test records its outcome when it ends, whoever asked for it.
URLTest(n) == \E o \in Outcomes : health' = [health EXCEPT ![n] = o]

=============================================================================
