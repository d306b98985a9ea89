------------------------- MODULE DelayedForwarding -------------------------
(***************************************************************************)
(* What delayed_task_manager.h promises: "The DelayedTaskManager forwards  *)
(* tasks to post task callbacks when they become ripe for execution. Tasks *)
(* are not forwarded before Start() is called."                            *)
(***************************************************************************)
EXTENDS Integers

CONSTANTS
  Tasks,    \* delayed tasks
  RunTime,  \* delayed_run_time of each
  MaxTime   \* bound on the clock

VARIABLES started, now, pending, forwarded

vars == <<started, now, pending, forwarded>>

Init == started = FALSE /\ now = 0 /\ pending = {} /\ forwarded = {}

Start ==
  /\ ~started /\ started' = TRUE
  /\ UNCHANGED <<now, pending, forwarded>>

Add(t) ==
  /\ t \notin pending \cup forwarded
  /\ pending' = pending \cup {t}
  /\ UNCHANGED <<started, now, forwarded>>

Forward(t) ==
  /\ started /\ t \in pending /\ RunTime[t] <= now
  /\ pending' = pending \ {t} /\ forwarded' = forwarded \cup {t}
  /\ UNCHANGED <<started, now>>

Tick ==
  /\ now < MaxTime /\ now' = now + 1
  /\ UNCHANGED <<started, pending, forwarded>>

Next == Start \/ Tick \/ \E t \in Tasks : Add(t) \/ Forward(t)

\* Tasks are forwarded once, not before Start() and not early...
SafeSpec == Init /\ [][Next]_vars

\* ...and every ripe task is, in the end.
Spec == SafeSpec /\ \A t \in Tasks : WF_vars(Forward(t))
=============================================================================
