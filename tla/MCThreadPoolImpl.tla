-------------------------- MODULE MCThreadPoolImpl --------------------------
(* A background worker and two foreground workers; a Sequence that starts  *)
(* out at BEST_EFFORT and a Job that starts out at USER_VISIBLE.           *)
EXTENDS ThreadPoolImpl

CONSTANTS b1, f1, f2

OneAndTwo == [w \in Workers |-> IF w = b1 THEN "background"
                                               ELSE "foreground"]
OneInEachGroup == [s \in Sources |-> IF s \in JobIds THEN 1 ELSE 0]
=============================================================================
