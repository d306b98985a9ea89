-------------------------- MODULE ThreadGroupImpl --------------------------
(***************************************************************************)
(* base/task/thread_pool/thread_group_impl.cc with the parts of            *)
(* thread_group.cc, worker_thread.cc and worker_thread_stack.cc it drives: *)
(* how many WorkerThreads exist, which of them are idle, who is woken up   *)
(* when a task source is queued, how many tasks may run at once, and how   *)
(* ScopedBlockingCalls raise and lower that number.                        *)
(*                                                                         *)
(* The task sources are Sequences, so only their number per priority       *)
(* matters here: "FG" stands for USER_VISIBLE and USER_BLOCKING.  What a   *)
(* thread does under ThreadGroup::lock_ is one step; what it leaves to its *)
(* ScopedWorkersExecutor (waking up and starting workers, scheduling       *)
(* AdjustMaxTasks()) happens later, one call at a time, without the lock.  *)
(* Time is abstracted: a sleep may time out, an unused worker may have     *)
(* been unused long enough, at any moment.  DCHECKs are not guards.        *)
(*                                                                         *)
(* A definition named D_Suffix is a faulty variant of the definition D     *)
(* that follows it; no specification uses it.                              *)
(***************************************************************************)
EXTENDS Integers, FiniteSets, FiniteSetsExt, Sequences

CONSTANTS
  Pool,         \* the WorkerThreads that can ever be created (a bound)
  Poster,       \* a thread that posts tasks
  Main,         \* the thread that starts the group and changes the policy
  Service,      \* the service thread, which runs AdjustMaxTasks()
  InitialMax,   \* max_tasks of Start()
  InitialMaxBE, \* max_best_effort_tasks of Start()
  KMaxNumberOfWorkers,
  MaxPosts,     \* bound on the tasks posted or re-enqueued, per priority
  MaxBlocking,  \* bound on the ScopedBlockingCalls made
  Policies,     \* CanRunPolicies the tracker is given, in this order
  MaxCleanups,  \* bound on the workers that clean themselves up
  None

Actors == Pool \cup {Poster, Main, Service}
Priorities == {"BE", "FG"}

ASSUME ActorsAssumption ==
  /\ IsFiniteSet(Pool) /\ {Poster, Main, Service, None} \cap Pool = {}
  /\ Poster # Main /\ Poster # Service /\ Main # Service
  /\ None \notin {Poster, Main, Service} \cup Priorities

ASSUME LimitsAssumption ==
  /\ InitialMax \in Nat \ {0} /\ InitialMaxBE \in Nat \ {0}
  /\ KMaxNumberOfWorkers \in Nat /\ InitialMax <= KMaxNumberOfWorkers
  /\ MaxPosts \in [Priorities -> Nat] /\ MaxBlocking \in Nat
  /\ Policies \in Seq({"kAll", "kForegroundOnly", "kNone"}) /\ Len(Policies) > 0
  /\ MaxCleanups \in Nat
  /\ KMaxNumberOfWorkers + MaxCleanups <= Cardinality(Pool)

VARIABLES
  g,       \* the members of the group guarded by lock_ (see Group)
  policy,  \* TaskTracker::can_run_policy_, an index into Policies
  exec,    \* per actor, its ScopedWorkersExecutor
  pc,      \* per actor, its place in the code
  task,    \* per worker, current_task_priority while it runs a task
  scope,   \* per worker, the ScopedBlockingCall its task is in
  may_block, \* workers with a non-null may_block_start_time
  aged,    \* those of may_block that reached may_block_threshold
  incremented, \* workers with incremented_max_tasks_since_blocked_
  event,   \* workers whose wake_up_event_ is signaled
  adjust_tasks, \* AdjustMaxTasks() tasks posted to the service thread
  posts, blockings \* what the bounds count

taskVars == <<task, scope, may_block, aged, incremented>>
vars == <<g, policy, exec, pc, taskVars, event, adjust_tasks, posts, blockings>>

EmptyExecutor == [wake |-> <<>>, start |-> <<>>, adjust |-> FALSE]

Group ==
  [workers : SUBSET Pool,        \* workers_
   created : SUBSET Pool,        \* every WorkerThread ever created
   idle : Seq(Pool),             \* idle_workers_stack_, top last
   unused : SUBSET Pool,         \* workers with a non-null last_used_time_
   queue : [Priorities -> Nat],  \* priority_queue_
   max : Nat, max_be : Nat,      \* max_tasks_, max_best_effort_tasks_
   running : Nat, running_be : Nat,  \* num_running_[best_effort_]tasks_
   unresolved : Nat, unresolved_be : Nat, \* num_unresolved_[..]may_block_
   adjust_posted : BOOLEAN,      \* adjust_max_tasks_posted_
   min_allowed : Priorities]     \* min_allowed_priority_

TypeOK ==
  /\ g \in Group
  /\ policy \in 1..Len(Policies)
  /\ exec \in [Actors -> [wake : Seq(Pool), start : Seq(Pool),
                          adjust : BOOLEAN]]
  /\ \A w \in Pool : pc[w] \in {"none", "sleep", "get", "get2", "running",
                                "upgrade", "reset", "exited"}
  /\ pc[Poster] = "post" /\ pc[Service] = "serve"
  /\ pc[Main] \in {"start", "up", "updating"}
  /\ task \in [Pool -> Priorities \cup {None}]
  /\ scope \in [Pool -> {"none", "MAY_BLOCK", "WILL_BLOCK"}]
  /\ may_block \subseteq Pool /\ aged \subseteq may_block
  /\ incremented \subseteq Pool /\ event \subseteq Pool
  /\ adjust_tasks \in Nat
  /\ posts \in [Priorities -> Nat] /\ blockings \in 0..MaxBlocking

Init ==
  /\ g = [workers |-> {}, created |-> {}, idle |-> <<>>, unused |-> {},
          queue |-> [p \in Priorities |-> 0], max |-> 0, max_be |-> 0,
          running |-> 0, running_be |-> 0, unresolved |-> 0,
          unresolved_be |-> 0, adjust_posted |-> FALSE, min_allowed |-> "BE"]
  /\ policy = 1
  /\ exec = [a \in Actors |-> EmptyExecutor]
  /\ pc = [a \in Actors |-> CASE a = Poster -> "post" [] a = Service -> "serve"
                              [] a = Main -> "start" [] OTHER -> "none"]
  /\ task = [w \in Pool |-> None] /\ scope = [w \in Pool |-> "none"]
  /\ may_block = {} /\ aged = {} /\ incremented = {} /\ event = {}
  /\ adjust_tasks = 0
  /\ posts = [p \in Priorities |-> 0] /\ blockings = 0

-----------------------------------------------------------------------------
(* WorkerThreadStack: every worker but the top one is unused.              *)

Top(stack) == stack[Len(stack)]

PushIdle(h, w) ==
  [h EXCEPT !.idle = Append(@, w),
            !.unused = IF h.idle = <<>> THEN @ ELSE @ \cup {Top(h.idle)}]

PopIdle(h) ==
  LET rest == SubSeq(h.idle, 1, Len(h.idle) - 1)
  IN  [h EXCEPT !.idle = rest,
                !.unused = IF rest = <<>> THEN @ ELSE @ \ {Top(rest)}]

RemoveIdle(h, w) ==
  LET i == CHOOSE j \in 1..Len(h.idle) : h.idle[j] = w
  IN  [h EXCEPT !.idle = SubSeq(@, 1, i - 1) \o SubSeq(@, i + 1, Len(@))]

OnStack(h, w) == \E i \in 1..Len(h.idle) : h.idle[i] = w

-----------------------------------------------------------------------------
(* The arithmetic of the group, on a copy h of its members.                *)

CanRunPriority(p) ==
  Policies[policy] = "kAll" \/ (Policies[policy] = "kForegroundOnly" /\ p = "FG")

TopPriority(h) == IF h.queue["FG"] > 0 THEN "FG" ELSE "BE"
QueueEmpty(h) == \A p \in Priorities : h.queue[p] = 0

\* GetNumAdditionalWorkersFor...: one worker for each queued Sequence.
Additional(h, p) == IF CanRunPriority(p) THEN h.queue[p] ELSE 0

NumAwakeWorkers(h) == Cardinality(h.workers) - Len(h.idle)

DesiredNumAwakeWorkers(h) ==
  LET best_effort == Max({Min({h.running_be + Additional(h, "BE"), h.max_be}),
                           h.running_be})
      foreground == h.running - h.running_be + Additional(h, "FG")
  IN  Min({best_effort + foreground, h.max, KMaxNumberOfWorkers})

UpdateMinAllowedPriority(h) ==
  [h EXCEPT !.min_allowed = IF QueueEmpty(h) \/ h.running < h.max
                            THEN "BE" ELSE TopPriority(h)]

BE(p) == IF p = "BE" THEN 1 ELSE 0

IncrementTasksRunning(h, p) ==
  UpdateMinAllowedPriority(
    [h EXCEPT !.running = @ + 1, !.running_be = @ + BE(p)])

DecrementTasksRunning(h, p) ==
  UpdateMinAllowedPriority(
    [h EXCEPT !.running = @ - 1, !.running_be = @ - BE(p)])

IncrementMaxTasks(h, p) ==
  UpdateMinAllowedPriority([h EXCEPT !.max = @ + 1, !.max_be = @ + BE(p)])

DecrementMaxTasks_Stale(h, p) == [h EXCEPT !.max = @ - 1, !.max_be = @ - BE(p)]

DecrementMaxTasks(h, p) ==
  UpdateMinAllowedPriority([h EXCEPT !.max = @ - 1, !.max_be = @ - BE(p)])

AddUnresolved(h, p, n) ==
  [h EXCEPT !.unresolved = @ + n, !.unresolved_be = @ + n * BE(p)]

ShouldPeriodicallyAdjustMaxTasks(h) ==
  \/ h.running_be + Additional(h, "BE") > h.max_be /\ h.unresolved_be > 0
  \/ /\ h.running + Additional(h, "BE") + Additional(h, "FG") + 1 > h.max
     /\ h.unresolved > 0

-----------------------------------------------------------------------------
(* Operations under lock_ that use the caller's executor: they map         *)
(* x = [g |-> members, e |-> executor] to its successor.                   *)

MaybeScheduleAdjustMaxTasks(x) ==
  IF ~x.g.adjust_posted /\ ShouldPeriodicallyAdjustMaxTasks(x.g)
  THEN [g |-> [x.g EXCEPT !.adjust_posted = TRUE],
        e |-> [x.e EXCEPT !.adjust = TRUE]]
  ELSE x

\* With CreateAndRegisterWorkerLockRequired().
MaintainAtLeastOneIdleWorker(x) ==
  IF \/ Cardinality(x.g.workers) = KMaxNumberOfWorkers
     \/ x.g.idle # <<>>
     \/ Cardinality(x.g.workers) >= x.g.max
  THEN x
  ELSE LET w == CHOOSE v \in Pool : v \notin x.g.created
       IN  [g |-> PushIdle([x.g EXCEPT !.workers = @ \cup {w},
                                       !.created = @ \cup {w}], w),
            e |-> [x.e EXCEPT !.start = Append(@, w)]]

WakeUpOneWorker_NoMaintain(x) ==
  IF x.g.idle = <<>> THEN x
  ELSE [g |-> PopIdle(x.g), e |-> [x.e EXCEPT !.wake = Append(@, Top(x.g.idle))]]

WakeUpOneWorker(x) ==
  LET y == MaintainAtLeastOneIdleWorker(x)
  IN  IF y.g.idle = <<>> THEN y
      ELSE [g |-> PopIdle(y.g),
            e |-> [y.e EXCEPT !.wake = Append(@, Top(y.g.idle))]]

\* The possible outcomes (one) of EnsureEnoughWorkersLockRequired().
EnsureEnoughWorkers(x) ==
  IF x.g.max = 0 THEN {x} ELSE
  LET desired == DesiredNumAwakeWorkers(x.g)
      awake == NumAwakeWorkers(x.g)
      once == {WakeUpOneWorker(x)}
      woken == CASE desired = awake -> {MaintainAtLeastOneIdleWorker(x)}
                 [] desired < awake -> {x}
                 [] desired = awake + 1 -> once
                 [] OTHER -> {WakeUpOneWorker(y) : y \in once}
      fresh == {[y EXCEPT !.g = UpdateMinAllowedPriority(@)] : y \in woken}
  IN  {MaybeScheduleAdjustMaxTasks(y) : y \in fresh}

\* Actor a leaves a critical section in which it got to one of outcomes.
Leave(a, outcomes) ==
  \E x \in outcomes : g' = x.g /\ exec' = [exec EXCEPT ![a] = x.e]

\* Actor a holds no unflushed executor: it can go on with its code.
Flushed(a) == exec[a] = EmptyExecutor

Fresh == [g |-> g, e |-> EmptyExecutor]

-----------------------------------------------------------------------------
(* ScopedWorkersExecutor::FlushImpl(): wake up, then start, then schedule. *)

FlushWakeUp(a) ==
  /\ exec[a].wake # <<>>
  /\ event' = event \cup {Head(exec[a].wake)}
  /\ exec' = [exec EXCEPT ![a].wake = Tail(@)]
  /\ UNCHANGED <<g, policy, pc, taskVars, adjust_tasks, posts, blockings>>

\* WorkerThread::Start(); a new worker starts out waiting for work.
FlushStart(a) ==
  /\ exec[a].wake = <<>> /\ exec[a].start # <<>>
  /\ pc' = [pc EXCEPT ![Head(exec[a].start)] = "sleep"]
  /\ exec' = [exec EXCEPT ![a].start = Tail(@)]
  /\ UNCHANGED <<g, policy, taskVars, event, adjust_tasks, posts, blockings>>

ScheduleAdjustMaxTasks(a) ==
  /\ exec[a].wake = <<>> /\ exec[a].start = <<>> /\ exec[a].adjust
  /\ adjust_tasks' = adjust_tasks + 1
  /\ exec' = [exec EXCEPT ![a].adjust = FALSE]
  /\ UNCHANGED <<g, policy, pc, taskVars, event, posts, blockings>>

-----------------------------------------------------------------------------
(* The other threads.                                                      *)

Start ==
  /\ pc[Main] = "start"
  /\ Leave(Main, EnsureEnoughWorkers(
                   [Fresh EXCEPT !.g = [@ EXCEPT !.max = InitialMax,
                                                 !.max_be = InitialMaxBE]]))
  /\ pc' = [pc EXCEPT ![Main] = "up"]
  /\ UNCHANGED <<policy, taskVars, event, adjust_tasks, posts, blockings>>

Push(x, p) == [x EXCEPT !.g.queue[p] = @ + 1]

PushTaskSourceAndWakeUpWorkers(p) ==
  /\ Flushed(Poster) /\ posts[p] < MaxPosts[p]
  /\ posts' = [posts EXCEPT ![p] = @ + 1]
  /\ Leave(Poster, EnsureEnoughWorkers(Push(Fresh, p)))
  /\ UNCHANGED <<policy, pc, taskVars, event, adjust_tasks, blockings>>

\* The thread that changes a source's priority, which stays in this group.
UpdateSortKey(p) ==
  LET other == CHOOSE q \in Priorities : q # p
      moved == [g EXCEPT !.queue[p] = @ - 1, !.queue[other] = @ + 1]
  IN  /\ Flushed(Poster) /\ g.queue[p] > 0 /\ posts[other] < MaxPosts[other]
      /\ posts' = [posts EXCEPT ![other] = @ + 1]
      /\ Leave(Poster, EnsureEnoughWorkers([Fresh EXCEPT !.g = moved]))
      /\ UNCHANGED <<policy, pc, taskVars, event, adjust_tasks, blockings>>

\* A source that changes group, or a job that is joined, leaves the queue: no
\* worker is woken up for what is left and min_allowed_priority_ is not updated.
RemoveTaskSource(p) ==
  /\ g.queue[p] > 0
  /\ g' = [g EXCEPT !.queue[p] = @ - 1]
  /\ UNCHANGED <<policy, exec, pc, taskVars, event, adjust_tasks, posts,
                 blockings>>

SetCanRunPolicy ==
  /\ pc[Main] = "up" /\ Flushed(Main) /\ policy < Len(Policies)
  /\ policy' = policy + 1
  /\ pc' = [pc EXCEPT ![Main] = "updating"]
  /\ UNCHANGED <<g, exec, taskVars, event, adjust_tasks, posts, blockings>>

DidUpdateCanRunPolicy ==
  /\ pc[Main] = "updating"
  /\ Leave(Main, EnsureEnoughWorkers(Fresh))
  /\ pc' = [pc EXCEPT ![Main] = "up"]
  /\ UNCHANGED <<policy, taskVars, event, adjust_tasks, posts, blockings>>

\* The members after IncrementMaxTasks for each worker of S, which leaves its
\* unresolved MAY_BLOCK.
Resolved(h, S) ==
  LET be == Cardinality({w \in S : task[w] = "BE"})
      n == Cardinality(S)
  IN  UpdateMinAllowedPriority(
        [h EXCEPT !.max = @ + n, !.max_be = @ + be,
                  !.unresolved = @ - n, !.unresolved_be = @ - be])

\* Workers for which MustIncrementMaxTasksLockRequired() is true.
MustIncrement == aged \ incremented

AdjustMaxTasks ==
  /\ Flushed(Service) /\ adjust_tasks > 0
  /\ adjust_tasks' = adjust_tasks - 1
  /\ incremented' = incremented \cup MustIncrement
  /\ Leave(Service,
           EnsureEnoughWorkers(
             [Fresh EXCEPT !.g = Resolved([@ EXCEPT !.adjust_posted = FALSE],
                                          MustIncrement)]))
  /\ UNCHANGED <<policy, pc, task, scope, may_block, aged, event, posts,
                 blockings>>

-----------------------------------------------------------------------------
(* WorkerThread::RunWorker() and GetWork().                                *)

WakeUp(w) ==
  /\ pc[w] = "sleep" /\ w \in event
  /\ event' = event \ {w}
  /\ pc' = [pc EXCEPT ![w] = "get"]
  /\ UNCHANGED <<g, policy, exec, taskVars, adjust_tasks, posts, blockings>>

\* TimedWait(GetSleepTimeout()) times out.
SleepTimeout(w) ==
  /\ pc[w] = "sleep" /\ w \notin event
  /\ pc' = [pc EXCEPT ![w] = "get"]
  /\ UNCHANGED <<g, policy, exec, taskVars, event, adjust_tasks, posts,
                 blockings>>

\* CanGetWorkLockRequired() of a worker on the idle stack; by
\* GetLastUsedTime() or being on top.
Cleanup(w, x) ==
  /\ w \in x.g.unused
  /\ Cardinality(x.g.created \ x.g.workers) < MaxCleanups
  /\ Leave(w, {[x EXCEPT !.g = [RemoveIdle(@, w) EXCEPT !.workers = x.g.workers \ {w}]]})
  /\ event' = event \cup {w}
  /\ pc' = [pc EXCEPT ![w] = "exited"]
  /\ UNCHANGED task

StayIdle(w, x) ==
  /\ Leave(w, {x})
  /\ pc' = [pc EXCEPT ![w] = "sleep"]
  /\ UNCHANGED <<event, task>>

LooksIdle(w, h) == (h.idle # <<>> /\ Top(h.idle) = w) \/ w \in h.unused

OnWorkerBecomesIdle(w, x) ==
  /\ Leave(w, {[x EXCEPT !.g = PushIdle(@, w)]})
  /\ pc' = [pc EXCEPT ![w] = "sleep"]
  /\ UNCHANGED <<event, task>>

\* The loop of GetWork() takes the top of the queue: no Sequence is refused.
MayTake(h) ==
  LET p == TopPriority(h)
  IN  /\ ~QueueEmpty(h) /\ CanRunPriority(p)
      /\ p = "BE" => h.running_be < h.max_be

TakeTaskSource(w, x) ==
  LET p == TopPriority(x.g)
  IN  /\ Leave(w, {[x EXCEPT !.g = IncrementTasksRunning(
                                     [@ EXCEPT !.queue[p] = x.g.queue[p] - 1], p)]})
      /\ task' = [task EXCEPT ![w] = p]
      /\ pc' = [pc EXCEPT ![w] = "running"]
      /\ UNCHANGED event

Excess_Ignored(h) == FALSE

Excess_NotStrict(h) == NumAwakeWorkers(h) >= DesiredNumAwakeWorkers(h)

Excess(h) == NumAwakeWorkers(h) > DesiredNumAwakeWorkers(h)

\* GetWork() after FlushWorkerCreation().
AssignWork(w, x) ==
  \/ LooksIdle(w, x.g) /\ (Cleanup(w, x) \/ StayIdle(w, x))
  \/ /\ ~LooksIdle(w, x.g)
     /\ IF Excess(x.g) \/ ~MayTake(x.g) THEN OnWorkerBecomesIdle(w, x)
                                        ELSE TakeTaskSource(w, x)

\* FlushWorkerCreation() releases lock_ if there is a worker to wake or start.
GetWork(w) ==
  /\ pc[w] = "get" /\ Flushed(w)
  /\ \E x \in EnsureEnoughWorkers(Fresh) :
         IF x.e.wake = <<>> /\ x.e.start = <<>>
         THEN AssignWork(w, x)
         ELSE /\ Leave(w, {x})
              /\ pc' = [pc EXCEPT ![w] = "get2"]
              /\ UNCHANGED <<event, task>>
  /\ UNCHANGED <<policy, scope, may_block, aged, incremented, adjust_tasks,
                 posts, blockings>>

GetWorkAfterFlush(w) ==
  /\ pc[w] = "get2" /\ Flushed(w)
  /\ AssignWork(w, Fresh)
  /\ UNCHANGED <<policy, scope, may_block, aged, incremented, adjust_tasks,
                 posts, blockings>>

\* The task returned; `again` is the priority its Sequence is re-enqueued with.
DidProcessTask(w, again) ==
  /\ pc[w] = "running" /\ Flushed(w) /\ scope[w] = "none"
  /\ again # None => posts[again] < MaxPosts[again]
  /\ LET x == [Fresh EXCEPT !.g = DecrementTasksRunning(@, task[w])]
     IN  IF again = None THEN Leave(w, {x}) /\ UNCHANGED posts
         ELSE /\ Leave(w, EnsureEnoughWorkers(Push(x, again)))
              /\ posts' = [posts EXCEPT ![again] = @ + 1]
  /\ task' = [task EXCEPT ![w] = None]
  /\ pc' = [pc EXCEPT ![w] = "reset"]
  /\ UNCHANGED <<policy, scope, may_block, aged, incremented, event,
                 adjust_tasks, blockings>>

\* wake_up_event_.Reset()
ResetEvent(w) ==
  /\ pc[w] = "reset" /\ Flushed(w)
  /\ event' = event \ {w}
  /\ pc' = [pc EXCEPT ![w] = "get"]
  /\ UNCHANGED <<g, policy, exec, taskVars, adjust_tasks, posts, blockings>>

-----------------------------------------------------------------------------
(* ScopedBlockingCall: the BlockingObserver of the worker.                 *)

MayBlockEntered(w) ==
  /\ pc[w] = "running" /\ Flushed(w) /\ scope[w] = "none"
  /\ blockings < MaxBlocking /\ blockings' = blockings + 1
  /\ scope' = [scope EXCEPT ![w] = "MAY_BLOCK"]
  /\ may_block' = may_block \cup {w}
  /\ Leave(w, {MaybeScheduleAdjustMaxTasks(
                 [Fresh EXCEPT !.g = AddUnresolved(@, task[w], 1)])})
  /\ UNCHANGED <<policy, pc, task, aged, incremented, event, adjust_tasks,
                 posts>>

WillBlock(w) ==
  /\ incremented' = incremented \cup {w}
  /\ Leave(w, EnsureEnoughWorkers(
                [Fresh EXCEPT !.g = IncrementMaxTasks(@, task[w])]))
  /\ scope' = [scope EXCEPT ![w] = "WILL_BLOCK"]
  /\ pc' = [pc EXCEPT ![w] = "running"]

WillBlockEntered(w) ==
  /\ pc[w] = "running" /\ Flushed(w) /\ scope[w] = "none"
  /\ blockings < MaxBlocking /\ blockings' = blockings + 1
  /\ WillBlock(w)
  /\ UNCHANGED <<policy, task, may_block, aged, event, adjust_tasks, posts>>

\* The worker has been in its MAY_BLOCK scope for may_block_threshold.
MayBlockThreshold(w) ==
  /\ w \in may_block \ aged
  /\ aged' = aged \cup {w}
  /\ UNCHANGED <<g, policy, exec, pc, task, scope, may_block, incremented,
                 event, adjust_tasks, posts, blockings>>

BlockingTypeUpgraded_KeepsStart(w) ==
  /\ pc[w] = "running" /\ Flushed(w) /\ scope[w] = "MAY_BLOCK"
  /\ IF w \in incremented
     THEN /\ scope' = [scope EXCEPT ![w] = "WILL_BLOCK"]
          /\ UNCHANGED <<g, pc>>
     ELSE /\ g' = AddUnresolved(g, task[w], -1)
          /\ pc' = [pc EXCEPT ![w] = "upgrade"]
          /\ UNCHANGED scope
  /\ UNCHANGED <<policy, exec, task, may_block, aged, incremented, event,
                 adjust_tasks, posts, blockings>>

\* BlockingTypeUpgraded(): a nested WILL_BLOCK cancels the MAY_BLOCK, unless
\* AdjustMaxTasks() has counted it already; lock_ is released in between.
BlockingTypeUpgraded(w) ==
  /\ pc[w] = "running" /\ Flushed(w) /\ scope[w] = "MAY_BLOCK"
  /\ IF w \in incremented
     THEN /\ scope' = [scope EXCEPT ![w] = "WILL_BLOCK"]
          /\ UNCHANGED <<g, pc, may_block, aged>>
     ELSE /\ may_block' = may_block \ {w} /\ aged' = aged \ {w}
          /\ g' = AddUnresolved(g, task[w], -1)
          /\ pc' = [pc EXCEPT ![w] = "upgrade"]
          /\ UNCHANGED scope
  /\ UNCHANGED <<policy, exec, task, incremented, event, adjust_tasks, posts,
                 blockings>>

WillBlockAfterUpgrade(w) ==
  /\ pc[w] = "upgrade"
  /\ WillBlock(w)
  /\ UNCHANGED <<policy, task, may_block, aged, event, adjust_tasks, posts,
                 blockings>>

BlockingEnded(w) ==
  /\ pc[w] = "running" /\ Flushed(w) /\ scope[w] # "none"
  /\ g' = IF w \in incremented THEN DecrementMaxTasks(g, task[w])
                               ELSE AddUnresolved(g, task[w], -1)
  /\ scope' = [scope EXCEPT ![w] = "none"]
  /\ incremented' = incremented \ {w}
  /\ may_block' = may_block \ {w} /\ aged' = aged \ {w}
  /\ UNCHANGED <<policy, exec, pc, task, event, adjust_tasks, posts, blockings>>

-----------------------------------------------------------------------------

Flush(a) == FlushWakeUp(a) \/ FlushStart(a) \/ ScheduleAdjustMaxTasks(a)

\* What a worker's thread does by itself; its task ends unless it blocks.
WorkerStep(w) ==
  \/ WakeUp(w) \/ GetWork(w) \/ GetWorkAfterFlush(w) \/ ResetEvent(w)
  \/ \E again \in Priorities \cup {None} : DidProcessTask(w, again)
  \/ WillBlockAfterUpgrade(w)

Next ==
  \/ \E a \in Actors : Flush(a)
  \/ Start \/ SetCanRunPolicy \/ DidUpdateCanRunPolicy \/ AdjustMaxTasks
  \/ \E p \in Priorities : \/ PushTaskSourceAndWakeUpWorkers(p)
                           \/ UpdateSortKey(p) \/ RemoveTaskSource(p)
  \/ \E w \in Pool :
       \/ WorkerStep(w) \/ SleepTimeout(w)
       \/ MayBlockEntered(w) \/ WillBlockEntered(w) \/ MayBlockThreshold(w)
       \/ BlockingTypeUpgraded(w) \/ BlockingEnded(w)

Spec == Init /\ [][Next]_vars

\* A thread that can go on does, time passes, the service thread runs its tasks
\* and a task that is not blocked ends; a ScopedBlockingCall may last forever,
\* and no sleep is assumed to time out.
FairSpec ==
  /\ Spec
  /\ WF_vars(Flush(Poster))
  /\ WF_vars(Flush(Main) \/ Start \/ DidUpdateCanRunPolicy)
  /\ WF_vars(Flush(Service) \/ AdjustMaxTasks)
  /\ \A w \in Pool :
       WF_vars(Flush(w) \/ WorkerStep(w)) /\ WF_vars(MayBlockThreshold(w))

-----------------------------------------------------------------------------
(* Properties.                                                             *)

Running == {w \in Pool : task[w] # None}
Unresolved == may_block \ incremented
OfBE(S) == {w \in S : task[w] = "BE"}

\* The counters of the group agree with what each worker is doing, whatever the
\* order of MAY_BLOCK, its upgrade, AdjustMaxTasks() and the end of the
\* blocking call: no capacity is leaked or given back twice.
CountersAgree ==
  /\ g.running = Cardinality(Running) /\ g.running_be = Cardinality(OfBE(Running))
  /\ g.max > 0 =>
       /\ g.max = InitialMax + Cardinality(incremented)
       /\ g.max_be = InitialMaxBE + Cardinality(OfBE(incremented))
  /\ g.unresolved = Cardinality(Unresolved)
  /\ g.unresolved_be = Cardinality(OfBE(Unresolved))

\* IncrementTasksRunningLockRequired()'s DCHECKs: a task starts only within
\* max_tasks_ and max_best_effort_tasks_, also when other workers changed both
\* while GetWork() had released lock_.
StartsWithinLimits ==
  [][g'.running > g.running =>
       /\ g'.running <= g'.max
       /\ g'.running_be > g.running_be => g'.running_be <= g'.max_be]_vars

WakeUpOnItsWay(w) ==
  w \in event \/ \E a \in Actors :
                   \E i \in 1..Len(exec[a].wake) : exec[a].wake[i] = w

\* CanGetWorkLockRequired()'s DCHECK_EQ: being on top of the idle stack or
\* having a last used time is the same as being on the stack; a worker that
\* sleeps is on the stack or about to be woken up.
IdleStackAgrees ==
  /\ \A w \in g.workers : LooksIdle(w, g) <=> OnStack(g, w)
  /\ \A w \in g.workers : pc[w] = "sleep" => OnStack(g, w) \/ WakeUpOnItsWay(w)

\* Wake-ups are not lost: when more workers should be awake than are, not all of
\* them are asleep on the idle stack; one is off it and running a task, looking
\* for work or about to be woken up, and it comes by
\* EnsureEnoughWorkersLockRequired() again, which wakes up at most two.  (Until
\* DidUpdateCanRunPolicy() has been told of a new policy that is its task.)
WakeUpNotLost ==
  g.max > 0 /\ DesiredNumAwakeWorkers(g) > NumAwakeWorkers(g) =>
    \/ pc[Main] = "updating"
    \/ \E w \in g.workers :
         ~OnStack(g, w) /\ (pc[w] \in {"none", "sleep"} => WakeUpOnItsWay(w))

\* ShouldYield() reads min_allowed_priority_ without the lock: while a foreground
\* source waits and every task allowed to run does, best-effort jobs are told to
\* yield, whoever filled the queue or lowered the limit.  The converse does not
\* hold: RemoveTaskSource() leaves the value too high until the next update.
YieldsToForeground ==
  g.max > 0 /\ g.queue["FG"] > 0 /\ g.running >= g.max => g.min_allowed = "FG"

\* adjust_max_tasks_posted_: exactly one AdjustMaxTasks() is on its way when it
\* is set and none when it is not, also across FlushWorkerCreation().
OneAdjustOnItsWay ==
  adjust_tasks + Cardinality({a \in Actors : exec[a].adjust})
    = IF g.adjust_posted THEN 1 ELSE 0

\* What the group believes of its workers is so after every step: the counters,
\* the idle stack and the AdjustMaxTasks() it has scheduled.
BookkeepingAgrees ==
  TypeOK /\ CountersAgree /\ IdleStackAgrees /\ OneAdjustOnItsWay

\* Every queued task source that the policy lets run gets a worker, even if
\* every task that runs stays in its ScopedBlockingCall forever: the periodic
\* AdjustMaxTasks() makes room for it.
QueueDrains ==
  \A p \in Priorities : g.queue[p] > 0 ~> (g.queue[p] = 0 \/ ~CanRunPriority(p))
=============================================================================
