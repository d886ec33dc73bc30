---------------------------- MODULE MCProxyGroup ----------------------------
EXTENDS ProxyGroup, TLC

Symmetry == Permutations(Callers)

=============================================================================
