----------------------- MODULE MCSingleThreadManager -----------------------
(* Instances of SingleThreadManager for TLC. *)
EXTENDS SingleThreadManager, TLC
CONSTANTS a, b, c, w1, w2

\* a and b share a worker, c has its own.
SharedAndDedicated == a :> w1 @@ b :> w1 @@ c :> w2
OneOfEach == b :> w1 @@ c :> w2
=============================================================================
