-------------------------- MODULE MCProtectBridge --------------------------
(* Small instances of ProtectBridge for TLC. *)
EXTENDS ProtectBridge

=============================================================================
