--------------------------- MODULE MCTaskTracker ---------------------------
(* Small instances of TaskTracker for TLC. *)
EXTENDS TaskTracker, TLC

CONSTANTS w1, w2, c1, service, sBlock, sSkip, sContinue, f1, null

Symmetry == Permutations({w1, w2})

BehaviorOf == [s \in Sources |-> CASE s = sBlock -> "BLOCK"
                                   [] s = sSkip -> "SKIP"
                                   [] OTHER -> "CONTINUE"]
=============================================================================
