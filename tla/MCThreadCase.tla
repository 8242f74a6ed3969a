---------------------------- MODULE MCThreadCase ----------------------------
(* Small instances of ThreadCase for TLC. *)
EXTENDS ThreadCase
=============================================================================
