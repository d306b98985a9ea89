-------------------------- MODULE MCJobTaskSource --------------------------
(* Small instances of JobTaskSource for TLC. *)
EXTENDS JobTaskSource

CONSTANTS w1, w2, joiner, null
=============================================================================
