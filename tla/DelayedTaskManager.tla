------------------------ MODULE DelayedTaskManager -------------------------
(***************************************************************************)
(* base/task/thread_pool/delayed_task_manager.cc: threads add delayed      *)
(* tasks, before or after Start(), and the service thread is sent a        *)
(* ProcessRipeTasks() closure for the ripest task only, once (scheduled_). *)
(*                                                                         *)
(* What a thread does under queue_lock_ is one step; the delayed post to   *)
(* the service thread that follows is another.  Each task is added by a    *)
(* thread of its own.                                                      *)
(*                                                                         *)
(* A definition named D_Suffix is a faulty variant of the definition D     *)
(* that follows it; no specification uses it.                              *)
(***************************************************************************)
EXTENDS Integers, FiniteSets, FiniteSetsExt

CONSTANTS
  Tasks,       \* delayed tasks
  RunTime,     \* Task::delayed_run_time
  SequenceNum, \* Task::sequence_num
  Starter,     \* the thread that calls Start()
  Service,     \* the service thread
  MaxTime      \* bound on the clock

Never == MaxTime + 1   \* TimeTicks::Max()
Threads == Tasks \cup {Starter, Service}

ASSUME TasksAssumption ==
  /\ IsFiniteSet(Tasks) /\ MaxTime \in Nat
  /\ RunTime \in [Tasks -> 0..MaxTime]
  /\ SequenceNum \in [Tasks -> Nat]
  /\ \A s, t \in Tasks : SequenceNum[s] = SequenceNum[t] => s = t
  /\ Starter \notin Tasks /\ Service \notin Tasks /\ Starter # Service

VARIABLES
  started,   \* service_thread_task_runner_ is not null
  queue,     \* delayed_task_queue_
  scheduled, \* the tasks with scheduled_
  pc,        \* per thread, its place in the code
  time,      \* per thread, its local process_ripe_tasks_time
  wakeups,   \* per due time, ProcessRipeTasks() closures of the service thread
  ripe,      \* ripe_delayed_tasks of the service thread
  forwarded, \* tasks whose callback ran
  now,       \* tick_clock_
  posted     \* history: how many closures were ever posted

vars ==
  <<started, queue, scheduled, pc, time, wakeups, ripe, forwarded, now, posted>>

TypeOK ==
  /\ started \in BOOLEAN
  /\ queue \subseteq Tasks /\ scheduled \subseteq Tasks
  /\ ripe \subseteq Tasks /\ forwarded \subseteq Tasks
  /\ pc \in [Threads -> {"new", "schedule", "done", "serve", "run"}]
  /\ time \in [Threads -> 0..Never]
  /\ wakeups \in [0..MaxTime -> Nat]
  /\ now \in 0..MaxTime /\ posted \in Nat

Init ==
  /\ started = FALSE /\ queue = {} /\ scheduled = {}
  /\ pc = [a \in Threads |-> IF a = Service THEN "serve" ELSE "new"]
  /\ time = [a \in Threads |-> Never]
  /\ wakeups = [d \in 0..MaxTime |-> 0]
  /\ ripe = {} /\ forwarded = {} /\ now = 0 /\ posted = 0

-----------------------------------------------------------------------------

\* DelayedTask::operator<=
Before(s, t) ==
  \/ RunTime[s] < RunTime[t]
  \/ RunTime[s] = RunTime[t] /\ SequenceNum[s] <= SequenceNum[t]

\* delayed_task_queue_.Min()
Ripest(S) == CHOOSE s \in S : \A t \in S : Before(s, t)

NeedsScheduling_Always(S) == S # {}

NeedsScheduling(S) == S # {} /\ Ripest(S) \notin scheduled

\* GetTimeToScheduleProcessRipeTasksLockRequired() on the queue S, by thread a.
GetTimeToSchedule(a, S) ==
  /\ time' = [time EXCEPT ![a] = IF NeedsScheduling(S) THEN RunTime[Ripest(S)]
                                                       ELSE Never]
  /\ scheduled' = IF NeedsScheduling(S) THEN scheduled \cup {Ripest(S)}
                                        ELSE scheduled

Start_Empty ==
  /\ pc[Starter] = "new"
  /\ started' = TRUE
  /\ pc' = [pc EXCEPT ![Starter] = "schedule"]
  /\ UNCHANGED <<queue, scheduled, time, wakeups, ripe, forwarded, now, posted>>

Start ==
  /\ pc[Starter] = "new"
  /\ started' = TRUE
  /\ GetTimeToSchedule(Starter, queue)
  /\ pc' = [pc EXCEPT ![Starter] = "schedule"]
  /\ UNCHANGED <<queue, wakeups, ripe, forwarded, now, posted>>

AddDelayedTask(t) ==
  /\ pc[t] = "new"
  /\ queue' = queue \cup {t}
  /\ IF started THEN /\ GetTimeToSchedule(t, queue \cup {t})
                     /\ pc' = [pc EXCEPT ![t] = "schedule"]
                ELSE /\ pc' = [pc EXCEPT ![t] = "done"]
                     /\ UNCHANGED <<time, scheduled>>
  /\ UNCHANGED <<started, wakeups, ripe, forwarded, now, posted>>

\* ScheduleProcessRipeTasksOnServiceThread(): the delay is never negative.
Schedule(a) ==
  /\ pc[a] = "schedule"
  /\ IF time[a] = Never THEN UNCHANGED <<wakeups, posted>>
     ELSE /\ wakeups' = [wakeups EXCEPT ![Max({time[a], now})] = @ + 1]
          /\ posted' = posted + 1
  /\ pc' = [pc EXCEPT ![a] = IF a = Service THEN "run" ELSE "done"]
  /\ UNCHANGED <<started, queue, scheduled, time, ripe, forwarded, now>>

Ripe_Early == {t \in queue : RunTime[t] <= now + 1}

Ripe == {t \in queue : RunTime[t] <= now}

\* external: the service thread has a closure to run whose delay is over.
ClosureDue(d) == d <= now /\ wakeups[d] > 0

ProcessRipeTasks ==
  /\ pc[Service] = "serve"
  /\ \E d \in 0..MaxTime :
       ClosureDue(d) /\ wakeups' = [wakeups EXCEPT ![d] = @ - 1]
  /\ ripe' = Ripe
  /\ queue' = queue \ Ripe
  /\ GetTimeToSchedule(Service, queue \ Ripe)
  /\ pc' = [pc EXCEPT ![Service] = "schedule"]
  /\ UNCHANGED <<started, forwarded, now, posted>>

\* The callback of the next ripe task, in the order in which they were popped, or
\* the end of ProcessRipeTasks().
RunCallback ==
  /\ pc[Service] = "run"
  /\ IF ripe = {}
     THEN pc' = [pc EXCEPT ![Service] = "serve"] /\ UNCHANGED <<ripe, forwarded>>
     ELSE /\ forwarded' = forwarded \cup {Ripest(ripe)}
          /\ ripe' = ripe \ {Ripest(ripe)}
          /\ UNCHANGED pc
  /\ UNCHANGED <<started, queue, scheduled, time, wakeups, now, posted>>

Tick ==
  /\ now < MaxTime /\ now' = now + 1
  /\ UNCHANGED <<started, queue, scheduled, pc, time, wakeups, ripe, forwarded,
                 posted>>

Next ==
  \/ Start \/ \E t \in Tasks : AddDelayedTask(t)
  \/ \E a \in Threads : Schedule(a)
  \/ ProcessRipeTasks \/ RunCallback \/ Tick

Spec == Init /\ [][Next]_vars

\* Threads inside the manager go on and the service thread runs what is due.
FairSpec ==
  /\ Spec
  /\ \A a \in Threads : WF_vars(Schedule(a))
  /\ WF_vars(ProcessRipeTasks) /\ WF_vars(RunCallback)

-----------------------------------------------------------------------------
(* Properties.                                                             *)

\* Once started, the ripest task is always covered: a ProcessRipeTasks()
\* closure is pending, or about to be posted, that is due when the task is.
\* Only the ripest task is ever scheduled, so a task added before Start(), one
\* that becomes ripest when others are popped, and one that overtakes a
\* scheduled task must each get their own closure.
RipestIsCovered ==
  started /\ queue # {} =>
    LET due == RunTime[Ripest(queue)]
    IN  \/ \E d \in 0..MaxTime : wakeups[d] > 0 /\ (d <= due \/ d <= now)
        \/ \E a \in Threads : pc[a] = "schedule" /\ time[a] <= due

\* Exactly one closure is posted per task marked scheduled_, however adding
\* threads, Start() and ProcessRipeTasks() interleave between the mark and the
\* post: the closures posted so far and those about to be are as many as the
\* marks.
OneWakeUpPerTask ==
  /\ TypeOK
  /\ posted + Cardinality({a \in Threads : pc[a] = "schedule" /\ time[a] # Never})
       = Cardinality(scheduled)

\* The manager implements the forwarding its header promises, including that
\* every ripe task is forwarded.
Promise == INSTANCE DelayedForwarding WITH pending <- queue \cup ripe
Forwards == Promise!Spec
=============================================================================
