------------------------- MODULE MCThreadGroupImpl -------------------------
(* Small instances of ThreadGroupImpl for TLC. *)
EXTENDS ThreadGroupImpl, TLC

CONSTANTS w1, w2, w3, w4, poster, main, service, null

OnePolicy == <<"kAll">>
NoneThenAll == <<"kNone", "kAll">>

Posts(be, fg) == [p \in Priorities |-> IF p = "BE" THEN be ELSE fg]
Posts12 == Posts(1, 2)
Posts21 == Posts(2, 1)
=============================================================================
