-------------------------- MODULE MCWaitableEvent --------------------------
(* Instances of WaitableEvent for TLC. *)
EXTENDS WaitableEvent, TLC
CONSTANTS auto, manual

\* WaitMany() on two different events, in either order.
Pairs == {<<auto, manual>>, <<manual, auto>>}
TwoAddresses == auto :> 1 @@ manual :> 2

\* Threads, watchers and addresses are interchangeable.
Symmetry ==
  UNION {Permutations(S) : S \in {Threads, Watchers, Pointers, Flags}}
=============================================================================
