------------------------ MODULE SingleThreadManager ------------------------
(***************************************************************************)
(* PooledSingleThreadTaskRunnerManager: its task runners, the delegates of *)
(* their WorkerThreads, and the part of ThreadPoolImpl that starts it and  *)
(* changes the CanRunPolicy (src/base/task/thread_pool/                    *)
(* pooled_single_thread_task_runner_manager.cc, worker_thread.cc,          *)
(* thread_pool_impl.cc). Until shutdown, which TaskTracker models.         *)
(*                                                                         *)
(* A step is one critical section of the manager's lock_, of a delegate's  *)
(* lock_ or of a sequence's lock, or one access of an event, a flag or the *)
(* policy.                                                                 *)
(*                                                                         *)
(* A definition named D_Suffix is a faulty variant of the definition D     *)
(* that follows it; no specification uses it.                              *)
(***************************************************************************)
EXTENDS Integers, FiniteSets

CONSTANTS
  Runners,            \* the PooledSingleThreadTaskRunners, each with its Sequence
  WorkerOf,           \* [Runners -> workers]
  Shared,             \* the workers of SHARED runners; the others are DEDICATED to one runner
  BestEffort,         \* the runners with TaskPriority::BEST_EFFORT
  Clients, Main,      \* threads that use task runners; the thread that owns the pool
  NoWorker,
  has_disable_best_effort_switch_,
  FencesBeforeStart,  \* whether fences begin before Start()
  MaxTasks,           \* bound on the tasks posted
  MaxFences           \* bound on the fences begun

Workers == {WorkerOf[r] : r \in Runners}

ASSUME Parameters ==
  /\ BestEffort \subseteq Runners /\ Main \notin Clients /\ NoWorker \notin Workers
  /\ \A r, s \in Runners : WorkerOf[r] = WorkerOf[s] => r = s \/ WorkerOf[r] \in Shared
  /\ has_disable_best_effort_switch_ \in BOOLEAN /\ FencesBeforeStart \in BOOLEAN
  /\ MaxTasks \in Nat /\ MaxFences \in Nat

Actors == Clients \cup {Main}
RunnersOf(w) == {r \in Runners : WorkerOf[r] = w}
Dedicated(w) == w \notin Shared

VARIABLES
  policy,     \* TaskTracker::can_run_policy_
  num_fences_, num_best_effort_fences_,
  started_,   \* the manager's
  workers_,   \* the workers the manager has registered
  worker,     \* each WorkerThread and its delegate
  queue,      \* each delegate's priority_queue_, as the set of runners queued
  runner,     \* each task runner and its Sequence
  actor,      \* what each actor is in the middle of
  begun, posted  \* how many fences have begun, how many tasks were posted

vars == <<policy, num_fences_, num_best_effort_fences_, started_, workers_, worker, queue,
          runner, actor, begun, posted>>
fences == <<policy, num_fences_, num_best_effort_fences_, begun>>

(***************************************************************************)
(* The delegate.                                                           *)
(***************************************************************************)
CanRunPriority(r) == policy = "all" \/ (policy = "foreground" /\ r \notin BestEffort)

\* What PeekSortKey() and PopTaskSource() return; the order among sources of one priority,
\* their queue times, is left open.
Tops_LowestFirst(q) == IF q \cap BestEffort = {} THEN q ELSE q \cap BestEffort
Tops(q) == IF q \subseteq BestEffort THEN q ELSE q \ BestEffort
CanRunNext(q) == \E r \in Tops(q) : CanRunPriority(r)

\* EnqueueTaskSource(): whether the worker must be woken up.
MustWakeUp(w, q) == ~worker[w].awake /\ CanRunNext(q)

(***************************************************************************)
(* Task runners and posting.                                               *)
(***************************************************************************)
Idle == [pc |-> "idle", worker |-> NoWorker, todo |-> {}]
Busy(pc, w) == [pc |-> pc, worker |-> w, todo |-> {}]

\* holders: the clients with a reference. A Sequence that has tasks or a worker holds one too.
SelfReference(r) == runner[r].tasks > 0 \/ runner[r].has_worker

\* CreateTaskRunnerImpl(): a new worker is registered, and started if the manager was.
CreateTaskRunner(c, r) ==
  LET w == WorkerOf[r]
      new == \A s \in RunnersOf(w) : ~runner[s].created
  IN
  /\ actor[c].pc = "idle" /\ ~runner[r].created
  /\ runner' = [runner EXCEPT ![r].created = TRUE, ![r].holders = Clients]
  /\ workers_' = IF new THEN workers_ \cup {w} ELSE workers_
  /\ actor' = IF new /\ started_ THEN [actor EXCEPT ![c] = Busy("start", w)] ELSE actor
  /\ UNCHANGED <<fences, posted, started_, worker, queue>>

\* PostTaskNow(): the sequence's lock is held around the delegate's; WakeUp() comes later.
PostTaskNow(c, r) ==
  LET w == WorkerOf[r]
      queued == queue[w] \cup {r}
      should_be_queued == ~SelfReference(r)
      wake == should_be_queued /\ MustWakeUp(w, queued)
  IN
  /\ actor[c].pc = "idle" /\ c \in runner[r].holders /\ posted < MaxTasks /\ posted' = posted + 1
  /\ runner' = [runner EXCEPT ![r].tasks = @ + 1]
  /\ queue' = IF should_be_queued THEN [queue EXCEPT ![w] = queued] ELSE queue
  /\ worker' = IF wake THEN [worker EXCEPT ![w].awake = TRUE] ELSE worker
  /\ actor' = IF wake THEN [actor EXCEPT ![c] = Busy("wake", w)] ELSE actor
  /\ UNCHANGED <<fences, started_, workers_>>

\* WorkerThread::WakeUp(); the main thread then goes on with its other workers.
WakeUp(a) ==
  /\ actor[a].pc = "wake"
  /\ worker' = [worker EXCEPT ![actor[a].worker].event = TRUE]
  /\ actor' = [actor EXCEPT ![a] = IF a = Main THEN [@ EXCEPT !.pc = "update"] ELSE Idle]
  /\ UNCHANGED <<fences, posted, started_, workers_, queue, runner>>

\* A client drops its reference. The last one destroys the runner, and its worker is
\* unregistered, then cleaned up. Nothing happens for a SHARED runner, which is left out.
DropReference(c, r) ==
  LET w == WorkerOf[r] IN
  /\ Dedicated(w) /\ actor[c].pc = "idle" /\ c \in runner[r].holders
  /\ runner' = [runner EXCEPT ![r].holders = @ \ {c}]
  /\ actor' = IF runner[r].holders = {c} /\ ~SelfReference(r)
              THEN [actor EXCEPT ![c] = Busy("unregister", w)] ELSE actor
  /\ UNCHANGED <<fences, posted, started_, workers_, worker, queue>>

UnregisterWorkerThread(c) ==
  /\ actor[c].pc = "unregister"
  /\ workers_' = workers_ \ {actor[c].worker}
  /\ actor' = [actor EXCEPT ![c].pc = "cleanup"]
  /\ UNCHANGED <<fences, posted, started_, worker, queue, runner>>

Cleanup(c) ==
  /\ actor[c].pc = "cleanup"
  /\ worker' = [worker EXCEPT ![actor[c].worker].should_exit = TRUE, ![actor[c].worker].event = TRUE]
  /\ actor' = [actor EXCEPT ![c] = Idle]
  /\ UNCHANGED <<fences, posted, started_, workers_, queue, runner>>

(***************************************************************************)
(* WorkerThread.                                                           *)
(***************************************************************************)
\* WorkerThread::Start(): no thread for a worker that was cleaned up before.
StartThread(w) ==
  worker' = IF worker[w].should_exit THEN worker ELSE [worker EXCEPT ![w].pc = "wait"]

StartWorker(c) ==
  /\ actor[c].pc = "start"
  /\ StartThread(actor[c].worker)
  /\ actor' = [actor EXCEPT ![c] = Idle]
  /\ UNCHANGED <<fences, posted, started_, workers_, queue, runner>>

WorkerAt(w, pc) == worker[w].pc = pc
WorkerGoes(w, pc) == worker' = [worker EXCEPT ![w].pc = pc]

WaitForWork(w) ==
  /\ WorkerAt(w, "wait") /\ worker[w].event
  /\ worker' = [worker EXCEPT ![w].event = FALSE, ![w].pc = "loop"]
  /\ UNCHANGED <<fences, posted, started_, workers_, queue, runner, actor>>

\* ShouldExit() is read at the head of the loop, and again when there was no work.
ShouldExit(w) ==
  /\ WorkerAt(w, "loop") \/ WorkerAt(w, "no_work")
  /\ WorkerGoes(w, IF worker[w].should_exit THEN "exited"
                   ELSE IF WorkerAt(w, "loop") THEN "get_work" ELSE "wait")
  /\ UNCHANGED <<fences, posted, started_, workers_, queue, runner, actor>>

GetWork_StaysAwake(w) ==
  /\ WorkerAt(w, "get_work")
  /\ IF CanRunNext(queue[w])
     THEN \E r \in Tops(queue[w]) :
            /\ queue' = [queue EXCEPT ![w] = @ \ {r}]
            /\ runner' = [runner EXCEPT ![r].has_worker = TRUE]
            /\ worker' = [worker EXCEPT ![w].pc = "run", ![w].source = {r}]
     ELSE /\ worker' = [worker EXCEPT ![w].pc = "no_work"]
          /\ UNCHANGED <<queue, runner>>
  /\ UNCHANGED <<fences, posted, started_, workers_, actor>>
GetWork(w) ==
  /\ WorkerAt(w, "get_work")
  /\ IF CanRunNext(queue[w])
     THEN \E r \in Tops(queue[w]) :
            /\ queue' = [queue EXCEPT ![w] = @ \ {r}]
            /\ runner' = [runner EXCEPT ![r].has_worker = TRUE]
            /\ worker' = [worker EXCEPT ![w].pc = "run", ![w].source = {r}]
     ELSE /\ worker' = [worker EXCEPT ![w].pc = "no_work", ![w].awake = FALSE]
          /\ UNCHANGED <<queue, runner>>
  /\ UNCHANGED <<fences, posted, started_, workers_, actor>>

\* RunAndPopNextTask(): TakeTask(), and the task runs.
TakeTask(w) ==
  /\ WorkerAt(w, "run")
  /\ runner' = [r \in Runners |-> IF r \in worker[w].source
                                  THEN [runner[r] EXCEPT !.tasks = @ - 1] ELSE runner[r]]
  /\ WorkerGoes(w, "did_process")
  /\ UNCHANGED <<fences, posted, started_, workers_, queue, actor>>

\* Sequence::DidProcessTask(): an empty sequence gives up its reference, which may destroy the
\* runner on the worker's own thread.
ReleasesRunner_Never(r) == FALSE
ReleasesRunner(r) == runner[r].tasks = 0 /\ runner[r].holders = {} /\ Dedicated(WorkerOf[r])
DidProcessTask(w) ==
  /\ WorkerAt(w, "did_process")
  /\ \E r \in worker[w].source :
       /\ runner' = [runner EXCEPT ![r].has_worker = FALSE]
       /\ WorkerGoes(w, IF runner[r].tasks > 0 THEN "enqueue"
                        ELSE IF ReleasesRunner(r) THEN "unregister" ELSE "reset")
  /\ UNCHANGED <<fences, posted, started_, workers_, queue, actor>>

UnregisterItself(w) ==
  /\ WorkerAt(w, "unregister")
  /\ workers_' = workers_ \ {w}
  /\ WorkerGoes(w, "cleanup")
  /\ UNCHANGED <<fences, posted, started_, queue, runner, actor>>

CleanupItself(w) ==
  /\ WorkerAt(w, "cleanup")
  /\ worker' = [worker EXCEPT ![w].should_exit = TRUE, ![w].event = TRUE, ![w].pc = "reset"]
  /\ UNCHANGED <<fences, posted, started_, workers_, queue, runner, actor>>

\* DidProcessTask() of the delegate; it ignores what EnqueueTaskSource() returns.
Reenqueue(w) ==
  LET queued == queue[w] \cup worker[w].source IN
  /\ WorkerAt(w, "enqueue")
  /\ queue' = [queue EXCEPT ![w] = queued]
  /\ worker' = [worker EXCEPT ![w].awake = @ \/ MustWakeUp(w, queued), ![w].pc = "reset"]
  /\ UNCHANGED <<fences, posted, started_, workers_, runner, actor>>

ResetEvent_AfterWait(w) ==
  /\ WorkerAt(w, "reset") \/ WorkerAt(w, "no_work")
  /\ worker' = [worker EXCEPT ![w].event = FALSE, ![w].source = {},
                              ![w].pc = IF WorkerAt(w, "reset") THEN "loop" ELSE "wait"]
  /\ UNCHANGED <<fences, posted, started_, workers_, queue, runner, actor>>
ResetEvent(w) ==
  /\ WorkerAt(w, "reset")
  /\ worker' = [worker EXCEPT ![w].event = FALSE, ![w].source = {}, ![w].pc = "loop"]
  /\ UNCHANGED <<fences, posted, started_, workers_, queue, runner, actor>>

(***************************************************************************)
(* The main thread: ThreadPoolImpl's fences and Start().                   *)
(***************************************************************************)
UpdatedPolicy(n, be) ==
  IF n = 0 /\ be = 0 /\ ~has_disable_best_effort_switch_ THEN "all"
  ELSE IF n # 0 THEN "none" ELSE "foreground"

\* UpdateCanRunPolicy() up to the call of the manager, with n and be fences.
SetCanRunPolicy(n, be, pc) ==
  /\ actor[Main].pc = "idle"
  /\ num_fences_' = n /\ num_best_effort_fences_' = be
  /\ policy' = UpdatedPolicy(n, be)
  /\ actor' = [actor EXCEPT ![Main].pc = pc]
  /\ UNCHANGED <<posted, started_, workers_, worker, queue, runner>>

MayBegin == begun < MaxFences /\ (started_ \/ FencesBeforeStart)
BeginFence ==
  /\ MayBegin /\ begun' = begun + 1
  /\ SetCanRunPolicy(num_fences_ + 1, num_best_effort_fences_, "did_update")
BeginBestEffortFence ==
  /\ MayBegin /\ begun' = begun + 1
  /\ SetCanRunPolicy(num_fences_, num_best_effort_fences_ + 1, "did_update")
EndFence ==
  /\ num_fences_ > 0 /\ UNCHANGED begun
  /\ SetCanRunPolicy(num_fences_ - 1, num_best_effort_fences_, "did_update")
EndBestEffortFence ==
  /\ num_best_effort_fences_ > 0 /\ UNCHANGED begun
  /\ SetCanRunPolicy(num_fences_, num_best_effort_fences_ - 1, "did_update")

\* ThreadPoolImpl::Start() updates the policy, then starts the manager.
Start ==
  /\ ~started_ /\ UNCHANGED begun
  /\ SetCanRunPolicy(num_fences_, num_best_effort_fences_, "start")

\* The manager's DidUpdateCanRunPolicy() copies workers_, unless it is not started.
DidUpdateCanRunPolicy ==
  /\ actor[Main].pc = "did_update"
  /\ actor' = [actor EXCEPT ![Main] = IF started_ THEN [Idle EXCEPT !.pc = "update", !.todo = workers_]
                                      ELSE Idle]
  /\ UNCHANGED <<fences, posted, started_, workers_, worker, queue, runner>>

\* The delegate's DidUpdateCanRunPolicy(), for each worker of the copy.
UpdateWorker(w) ==
  LET wake == MustWakeUp(w, queue[w]) IN
  /\ actor[Main].pc = "update" /\ w \in actor[Main].todo
  /\ worker' = IF wake THEN [worker EXCEPT ![w].awake = TRUE] ELSE worker
  /\ actor' = [actor EXCEPT ![Main] = [pc |-> IF wake THEN "wake" ELSE "update", worker |-> w,
                                       todo |-> @.todo \ {w}]]
  /\ UNCHANGED <<fences, posted, started_, workers_, queue, runner>>

\* The manager's Start(), under its lock: during the update just before it was not started.
StartManager ==
  /\ actor[Main].pc = "start"
  /\ started_' = TRUE
  /\ actor' = [actor EXCEPT ![Main] = [Idle EXCEPT !.pc = "start_workers", !.todo = workers_]]
  /\ UNCHANGED <<fences, posted, workers_, worker, queue, runner>>

StartWorkers(w) ==
  /\ actor[Main].pc = "start_workers" /\ w \in actor[Main].todo
  /\ StartThread(w)
  /\ actor' = [actor EXCEPT ![Main].todo = @ \ {w}]
  /\ UNCHANGED <<fences, posted, started_, workers_, queue, runner>>

MainIsDone ==
  /\ actor[Main].pc \in {"update", "start_workers"} /\ actor[Main].todo = {}
  /\ actor' = [actor EXCEPT ![Main] = Idle]
  /\ UNCHANGED <<fences, posted, started_, workers_, worker, queue, runner>>

(***************************************************************************)
(* The specification.                                                      *)
(***************************************************************************)
Init ==
  /\ policy = "all" /\ num_fences_ = 0 /\ num_best_effort_fences_ = 0 /\ begun = 0
  /\ started_ = FALSE /\ workers_ = {}
  /\ worker = [w \in Workers |-> [pc |-> "none", awake |-> FALSE, event |-> FALSE,
                                  should_exit |-> FALSE, source |-> {}]]
  /\ queue = [w \in Workers |-> {}]
  /\ runner = [r \in Runners |-> [created |-> FALSE, holders |-> {}, tasks |-> 0,
                                  has_worker |-> FALSE]]
  /\ posted = 0
  /\ actor = [a \in Actors |-> Idle]

WorkerSteps(w) ==
  \/ WaitForWork(w) \/ ShouldExit(w) \/ GetWork(w) \/ TakeTask(w) \/ DidProcessTask(w)
  \/ UnregisterItself(w) \/ CleanupItself(w) \/ Reenqueue(w) \/ ResetEvent(w)

\* What an actor does after the first critical section of a call.
ActorSteps(a) == WakeUp(a) \/ StartWorker(a) \/ UnregisterWorkerThread(a) \/ Cleanup(a)
MainSteps ==
  \/ WakeUp(Main) \/ DidUpdateCanRunPolicy \/ StartManager \/ MainIsDone
  \/ \E w \in Workers : UpdateWorker(w) \/ StartWorkers(w)

Next ==
  \/ \E w \in Workers : WorkerSteps(w)
  \/ \E c \in Clients : \/ ActorSteps(c)
                        \/ \E r \in Runners : \/ CreateTaskRunner(c, r) \/ PostTaskNow(c, r)
                                              \/ DropReference(c, r)
  \/ MainSteps \/ BeginFence \/ EndFence \/ BeginBestEffortFence \/ EndBestEffortFence \/ Start

Spec == Init /\ [][Next]_vars

\* Threads go on running, a task ends, and the pool gets started.
FairSpec ==
  /\ Spec
  /\ \A w \in Workers : WF_vars(WorkerSteps(w))
  /\ \A c \in Clients : WF_vars(ActorSteps(c))
  /\ WF_vars(MainSteps \/ Start)

(***************************************************************************)
(* Properties.                                                             *)
(***************************************************************************)
\* Every piece of the state has its type.
TypeOK ==
  /\ policy \in {"all", "foreground", "none"} /\ started_ \in BOOLEAN
  /\ workers_ \subseteq Workers /\ \A w \in Workers : queue[w] \subseteq RunnersOf(w)
  /\ \A w \in Workers :
       /\ worker[w].pc \in {"none", "wait", "loop", "get_work", "no_work", "run", "did_process",
                            "enqueue", "unregister", "cleanup", "reset", "exited"}
       /\ worker[w].source \subseteq RunnersOf(w)
  /\ \A r \in Runners : runner[r].tasks \in 0..MaxTasks
  /\ \A a \in Actors : actor[a].worker \in Workers \cup {NoWorker}

WakingUp(w) == {a \in Actors : actor[a].pc = "wake" /\ actor[a].worker = w}

\* A worker sleeps, or its thread does not run yet.
Asleep(w) == worker[w].pc \in {"none", "wait"}

\* worker_awake_ is what it says: a worker that is awake sleeps only if its one WakeUp() is in
\* the event or about to be called, one that is not awake has none (the DCHECK at
\* pooled_single_thread_task_runner_manager.cc:115 and crbug.com/862582).
AwakeIsExact ==
  /\ TypeOK
  /\ \A w \in Workers :
       /\ WorkerAt(w, "get_work") => worker[w].awake
       /\ Asleep(w) /\ ~worker[w].should_exit =>
            Cardinality(WakingUp(w)) + (IF worker[w].event THEN 1 ELSE 0)
              = (IF worker[w].awake THEN 1 ELSE 0)

\* The main thread will still look at w with the current policy.
PolicyUpdateOnItsWay(w) ==
  \/ actor[Main].pc = "did_update" /\ started_ /\ w \in workers_
  \/ actor[Main].pc \in {"update", "wake"} /\ w \in actor[Main].todo

\* No source that the policy allows is left in the queue of a worker that sleeps, or of one
\* that saw the previous policy and is about to sleep.
NoForgottenWork ==
  \A w \in Workers :
    (\E r \in queue[w] : CanRunPriority(r)) => worker[w].awake \/ PolicyUpdateOnItsWay(w)

\* A dedicated worker whose runner is gone; its destruction may still be under way.
Orphaned(w) ==
  Dedicated(w) /\ \A r \in RunnersOf(w) : runner[r].created /\ runner[r].holders = {} /\ ~SelfReference(r)
Releasing(w) ==
  \/ \E c \in Clients : actor[c].worker = w /\ actor[c].pc \in {"unregister", "cleanup"}
  \/ worker[w].pc \in {"unregister", "cleanup"}

\* A worker is cleaned up exactly when nobody can want it any more: no WakeUp() follows (the
\* DCHECK at worker_thread.cc:88), nothing is left in its queue, a sleeping one is signaled, and
\* none is started twice.
CleanupIsExact ==
  \A w \in Workers :
    /\ Orphaned(w) => worker[w].should_exit \/ Releasing(w)
    /\ worker[w].should_exit =>
         /\ WakingUp(w) = {} /\ queue[w] = {} /\ w \notin workers_
         /\ WorkerAt(w, "wait") => worker[w].event
    /\ (\/ \E c \in Clients : actor[c].pc = "start" /\ actor[c].worker = w
        \/ actor[Main].pc = "start_workers" /\ w \in actor[Main].todo) => WorkerAt(w, "none")

Held(r) == ~CanRunPriority(r)

\* A posted task runs once the pool is started and unless the policy holds it back: "upon
\* destruction of all fences, tasks that were preempted are released"
\* (thread_pool_instance.h:104).
PostedTasksRun == \A r \in Runners : runner[r].tasks > 0 ~> (runner[r].tasks = 0 \/ Held(r))
=============================================================================
