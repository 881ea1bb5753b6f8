---------------------------- MODULE MCSelfUpdate ----------------------------
(* SelfUpdate for TLC: the values are in the configurations. *)
EXTENDS SelfUpdate
=============================================================================
