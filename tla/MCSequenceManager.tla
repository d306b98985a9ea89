------------------------- MODULE MCSequenceManager -------------------------
(* Instances of SequenceManager for TLC. *)
EXTENDS SequenceManager, TLC
CONSTANTS a, b, c, q1

OneQueue == a :> q1 @@ b :> q1 @@ c :> q1
LastDelayed == a :> 0 @@ b :> 0 @@ c :> 1
=============================================================================
