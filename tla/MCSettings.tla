----------------------------- MODULE MCSettings -----------------------------
(* Instance of Settings for TLC. *)
EXTENDS Settings

=============================================================================
