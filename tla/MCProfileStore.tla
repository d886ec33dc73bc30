--------------------------- MODULE MCProfileStore ---------------------------
(* ProfileStore on a small instance. *)
EXTENDS ProfileStore, TLC

\* Profile ids and update slots are only compared for equality.
Symmetry == Permutations(Profiles) \cup Permutations(Updates)
=============================================================================
