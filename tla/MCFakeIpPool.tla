---------------------------- MODULE MCFakeIpPool ----------------------------
\* Instances of FakeIpPool for TLC.
EXTENDS FakeIpPool, TLC

Symmetry == Permutations(Hosts) \cup Permutations(Queries)

=============================================================================
