---------------------------- MODULE MCVpnSession ----------------------------
(* Small instances of VpnSession for TLC. *)
EXTENDS VpnSession, TLC


SlotSymmetry == Permutations(Slots)

=============================================================================
