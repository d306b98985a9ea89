# Verification of Chromium's task scheduling

TLA+ specifications of the concurrent core of `base/task`: the thread pool that
runs every task and job a program posts, the sequence manager that runs the tasks
of one thread, and the waitable event under both. Each module is translated from the C++
source it names in its header, TLC checks it on small instances, and TLAPS proves
the safety properties of all of them for instances of any size. Paths below are relative to
`src/src/base/task/thread_pool/` unless they say otherwise.

Contents: [inventory](#inventory) - [how the models read](#how-the-models-read) -
[modules](#modules) - [runs](#runs) - [fairness](#fairness) -
[disagreements between code and comments](#disagreements-between-code-and-comments) -
[observations](#observations) -
[proofs](#proofs) - [limits](#limits) -
[not modelled](#not-modelled) - [plan](#plan)

## Inventory

The repository is a snapshot of Chromium's `base` with `build`, `crypto`, `ipc`,
`mojo`, `net`, `url` and vendored libraries. The parts with concurrent state of
their own are in `base/task`, `base/synchronization`, `base/message_loop` and
`mojo/core`; the rest is sequential data structures, parsing and system wrappers.

| component | state it keeps | operations | interacts with | what is hard | correct when |
|---|---|---|---|---|---|
| task tracker (`task_tracker.cc`) | `state_` (started bit and item count in one atomic word), `shutdown_event_`, `num_incomplete_task_sources_`, `can_run_policy_`, flush condition variable and callback | `WillPostTask`, `RegisterTaskSource`, `RunAndPopNextTask`, `UnregisterTaskSource`, `Start/CompleteShutdown`, `FlushForTesting`, `FlushAsyncForTesting` | called by every posting thread and worker; policy read by the groups | lock-free counter against shutdown; undo of a refused task; signals sent after the counter changed | shutdown completes exactly when nothing blocks it; flushes neither return early nor hang |
| sequence (`sequence.cc`, `task_source.cc`) | task queue, worker bit, reference on its task runner | `PushTask`, `WillRunTask`, `TakeTask`, `DidProcessTask`, `Clear` | owned by one queue or one worker | pushes while a worker drains it | one owner, never stranded, references paired |
| jobs (`job_task_source.cc`, `../post_job.cc`) | worker count and canceled bit in one atomic, `join_flag_`, condition variable | `WillRunTask`, `DidProcessTask`, `NotifyConcurrencyIncrease`, `Join`, `Cancel`, `Detach`, `Clear` | queued in a group, many workers at once, a joining thread contributes | max concurrency read before a CAS; one signal for several reasons to wake up | concurrency bounded, join and cancel wait and return, no work forgotten |
| thread group (`thread_group_impl.cc`, `worker_thread.cc`, `worker_thread_stack.cc`) | workers, idle stack, queue, counts of running, blocked and allowed tasks | `PushTaskSourceAndWakeUpWorkers`, `GetWork`, `DidProcessTask`, `BlockingStarted/TypeUpgraded/Ended`, `AdjustMaxTasks`, clean-up | called by posters, workers and the service thread | calls that drop the lock half-way; wake-ups sent after the unlock; capacity that moves while tasks block | a runnable source gets a worker, limits hold, counters never drift |
| delayed task manager (`delayed_task_manager.cc`) | heap of delayed tasks with `scheduled_` marks | `Start`, `AddDelayedTask`, `ProcessRipeTasks` | service thread | only the ripest task has a wake-up | each task is forwarded, once, not early |
| pool front end (`thread_pool_impl.cc`) | two groups, fences | post, `Shutdown`, `UpdatePriority`, fences | all of the above | moving a source between groups | a source is in one queue, the right one |
| pooled single-thread runners (`pooled_single_thread_task_runner_manager.cc`) | `workers_`, `started_`; per worker a queue, `worker_awake_`, its event and `should_exit_` | create, post, release, `GetWork`, `Start`, `DidUpdateCanRunPolicy`, `Cleanup` | task tracker, pool front end | a worker going to sleep against posts and policy changes; the last reference dropped on any thread | no task left behind, one clean-up and no wake-up after it |
| sequence manager (`../sequence_manager/`) | task queues with incoming, work and delayed queues, fences, selector, `WorkDeduplicator` | post from any thread, reload, select, run, nest, `DidCheckForMoreWork` | message pump, run loop | requests for work that are swallowed, copies read by other threads, nested loops | order per queue, no lost wake-up, nested loops return |
| operations controller, cancelable task tracker | counter of operations in flight; ids of tracked tasks | start, try, shut down; post, cancel | any thread | shutdown against late operations | none runs after cancellation |
| waitable event and watcher (`../../synchronization/`) | waiter list, signaled flag | `Signal`, `TimedWait`, `WaitMany`, watch | any thread | timeout against signal, lock order | an auto-reset signal wakes exactly one waiter |
| message loop, run loop, timers | pump state, nested loops | run, quit, schedule | sequence manager | nested quit | quits are honoured in order |
| mojo ports (`src/src/mojo/core/ports`) | ports, proxies, message queues per node | send, merge, proxy removal | other nodes | reordering across nodes | messages in order, proxies removed |

`PROJECT.json` lists the components with their status, and the hazards of the
code, each at its line with the properties that would catch it.

## How the models read

* A step is what a thread does without another thread being able to interfere:
  a critical section, or one access to an atomic or to an event. Everything
  between two such points is folded into one of them. A function that drops and
  retakes a lock is therefore several actions, and `pc`, `run`, `post`, `sub`,
  `main` hold the place a thread is at.
* Actions are whole handlers up to such a point: what a call changes after its last
  unlock belongs to it.
* `DCHECK`s are not guards. A release build goes on past them, so they are stated
  as properties.
* Tasks have no contents. A running task may post, block, yield or return.
* A definition `D_Suffix` is a faulty variant of the definition `D` after it, a
  bug one could plausibly write there; replacing `D` by it makes the property named
  under `mutants` in `PROJECT.json` fail. No specification uses one.
* Names follow the source; `map` in `PROJECT.json` gives the lines of each.

## Modules

| module | models | role |
|---|---|---|
| `TaskSequence` | `sequence.cc` | operators on one Sequence |
| `TaskTracker` | `task_tracker.cc`, the posting and shutdown half of `thread_pool_impl.cc` | specification |
| `TaskTrackerProofs` | | theorems about `TaskTracker` |
| `JobTaskSource` | `job_task_source.cc`, `../post_job.cc`, enqueueing in `thread_group.cc` | specification |
| `JobTaskSourceProofs` | | theorems about `JobTaskSource` |
| `ThreadGroupImpl` | `thread_group_impl.cc`, `worker_thread.cc`, `worker_thread_stack.cc`, parts of `thread_group.cc` | specification |
| `ThreadGroupImplProofs` | | theorems about `ThreadGroupImpl` |
| `DelayedForwarding` | the promise in `delayed_task_manager.h` | abstract specification |
| `DelayedTaskManager` | `delayed_task_manager.cc` | specification, implements `DelayedForwarding` |
| `DelayedTaskManagerProofs` | | theorems about `DelayedTaskManager`, the refinement among them |
| `ThreadPoolImpl` | `thread_pool_impl.cc` with `thread_group.cc`, `priority_queue.cc`, `task_source.cc`: both groups, Sequences and jobs | composition |
| `ThreadPoolImplProofs` | | theorems about `ThreadPoolImpl` |
| `SingleThreadManager` | `pooled_single_thread_task_runner_manager.cc`, `worker_thread.cc`, `ThreadPoolImpl::Start()` and fences | specification |
| `SingleThreadManagerProofs` | | theorems about `SingleThreadManager` |
| `SequenceManager` | `../sequence_manager/`, `../../message_loop/message_pump_default.cc`, `../../run_loop.cc` | specification |
| `SequenceManagerProofs` | | theorems about `SequenceManager` |
| `WaitableEvent` | `../../synchronization/waitable_event_posix.cc`, `waitable_event_watcher_posix.cc` | specification |
| `WaitableEventProofs` | | theorems about `WaitableEvent` |
| `MC...` | | constants for TLC |

How they divide the pool: `TaskTracker` knows what a task source does to shutdown and
flushes, and takes the queue for a set. `ThreadGroupImpl` knows how many workers are
awake, and takes sources for numbers. `JobTaskSource` knows one job, step by step.
`ThreadPoolImpl` puts Sequences and jobs into the queues of two groups and moves them
between them; it takes from the others that a worker of a group with work to do looks for
it and that a job admits workers up to its maximum.

### TaskTracker

Threads are workers, clients and the service thread. A thread has up to three
nested activities, each with its own program counter: `run` (its place in
`RunAndPopNextTask()`), `post` (a post, made by a client or from inside a task) and
`sub` (the tail of `UnregisterTaskSource()` and of the `Decrement...()` helpers,
which both activities call). `main` is the sequence that raises fences and calls
`Shutdown()`. The thread group is reduced to the set `queued` of sources: an idle
worker takes any that the policy allows, so results hold for every order in which
the real queue serves them.

`State::bits_` is the pair `started`, `items`, always read and written in one step.
The steps that matter are apart from each other: `BeforeRunTask()` adds an item and
learns whether shutdown had started in one atomic operation, takes it back in
another, and signals in a third under `shutdown_lock_`. `late` is a history
variable: BLOCK_SHUTDOWN sources registered after nothing blocked a started
shutdown any more, which the comment at `StartShutdown()` says "isn't allowed".
Posting them is not prevented by a release build, and the model keeps them, so the
safety properties say what holds in their presence.

### JobTaskSource

One job, the workers, and the owner of the `JobHandle`. `WillRunTask()` reads the
max concurrency (`seen`) before its compare-and-swap, with the group lock held from
one to the other; `RunJoinTask()` reads `state_` and then the max concurrency with no
lock; `WaitForParticipationOpportunity()` does so under `lock_`. `JoinFlag` is a
variable with its three values. The user's code is external: the loop of
`post_job.h` (take an item, process it, ask `ShouldYield()`) and a callback that
returns the number of incomplete items, at most `Cap`. An increase of that number
is followed by `NotifyConcurrencyIncrease()`, as `post_job.h` demands.

### ThreadGroupImpl

The members that `lock_` guards are one record `g`, transformed by operators named
after the `...LockRequired()` methods. The second variable of importance is `exec`:
for each thread its `ScopedWorkersExecutor`, the wake-ups, thread starts and the
`AdjustMaxTasks()` post that it carries out after the unlock, one at a time, while
others proceed. Sleep timeouts and the reclaim time are nondeterministic. Task
sources are Sequences counted per priority. `UpdateSortKey()` changes the priority of a
queued one and wakes up workers; `RemoveTaskSource()` (another thread's
`UpdatePriority()` or `Join()`) takes one out of the queue and nothing else: it
does not refresh `min_allowed_priority_`.

### DelayedTaskManager and DelayedForwarding

Each delayed task is added by a thread of its own. `wakeups` are the delayed
`ProcessRipeTasks()` closures of the service thread, by due time, and `posted` is a
history variable that counts them. `ripe` is the set of tasks the service thread has
popped and is about to forward, which it does one by one. The refinement mapping says
a task is pending while it is in the heap or in `ripe`. `DelayedForwarding` states the
promise in two parts: `SafeSpec` (forwarded at most once, not early) and `Spec`, which
adds that a pending task whose time has come is forwarded.

### ThreadPoolImpl

A Transaction is the lock of a task source and is held across steps; what happens
under `ThreadGroup::lock_` is one step. `queue` says, per group and source, under which
sort keys the source is in the heap, so that a source queued twice, queued in
both groups or left with an old key is a state of the model; `handle` is the
`heap_handle_` the two heaps share. `UpdatePriority()` is its three paths: no change of
group (`UpdateSortKey`), removal from the old group and, if it was queued there, a
push to the new one. A worker that re-enqueues a source of the other group
pushes it after the lock of its own group is released, as `ScopedReenqueueExecutor` does.

### SingleThreadManager

Workers are shared or dedicated to one runner. `runner[r].holders` are the clients with a
reference; the Sequence's own reference is derived from its tasks and worker bit. The
destructor of a runner unregisters and cleans up its dedicated worker, on a client or,
when the last task is done, on the worker itself. Creating a runner, `Start()` and
`DidUpdateCanRunPolicy()` each copy something under `lock_` and act on the copy later;
`actor` holds the copy. The constant `FencesBeforeStart` says whether fences may begin
before `Start()`; it is FALSE in `st` and TRUE in `st_fence`, see below.

### SequenceManager

`state_` is the set of flags of `WorkDeduplicator::state_`, `event_` the pump's
auto-reset event, `queue[q]` the record of a `TaskQueueImpl` with its
incoming queue (any thread), its immediate and delayed work queues (main thread), the
copies other threads read, its fence and its delayed wake-up; `reload` is
`empty_queues_to_reload_`. `stack` has the active run loops, each with the place in
`DoWork()` it is at: a nested loop starts from a running task and has the same loop
below it. A task that runs may nest a loop, by `Run()` or `RunUntilIdle()` and of either
type, call `Quit()` or `QuitWhenIdle()` of any active loop, allow or forbid
tasks, enable or disable a queue, set or remove a fence; these calls are bounded
by `MaxOps`. The two sequence numbers that the code gives a task (`sequence_num` and
`enqueue_order`) are drawn from one counter. `deferred[q]` is what `non_nestable_task_queue`
has of the queue `q`; only the order within a queue matters, since
`OnExitNestedRunLoop()` gives each task back to its own queue.

A nested `Run()` of `Type::kDefault` runs no task: `DoWorkImpl()` returns at once
(`thread_controller_with_message_pump_impl.cc:336`) and the pump sleeps with tasks queued,
swallowing the requests made for them, until something outside the scheduler quits it.
`NoLostWork` therefore promises that tasks are not forgotten where
`task_execution_allowed`, and everywhere that a pending flag stands for a signal;
`PostedTasksStart` excepts a task that such a loop, or the deferral of a non-nestable task
under a nested `Run()`, keeps from starting while the nested loop sleeps; and
`RunLoopsReturn` is about loops told to quit whose inner loops are told so too.

### WaitableEvent

`Signal()` goes through the wait-list one waiter at a time while it holds the kernel's
lock, taking each waiter's lock; releasing the kernel is a step after the last `Fire()`, for
an auto-reset event too, so a waiter can see `fired_` while its `Signal()` is still at work; `EnqueueMany()` takes the locks of all its events
in the order of their addresses, the next one being that of the lowest address not
taken yet; so `lock` says who holds a kernel between steps. The constant `Arrays` is the
set of arrays that `WaitMany()` may be called with.
`owed` is a history variable, the signals of an auto-reset event not yet consumed.
AsyncWaiters are allocated at `Pointers` and freed when they fire, so an address is
used again while a watcher still has the old one in `waiter_`.

## Runs

| run | instance | result | shows |
|---|---|---|---|
| `tt_shutdown` | 2 workers (symmetric), 1 client, service thread, a BLOCK and a SKIP source, 3 posts, both kinds of fence | pass | counters exact, shutdown safe, its DCHECKs, ownership of Sequences |
| `tt_live` | 1 worker, 1 client, a BLOCK and a SKIP source, 2 posts, a fence, best effort disabled, one flusher and one asynchronous flush | pass | `Shutdown()` returns whatever fences are up; no flush misses its wake-up |
| `job` | 2 workers, `Cap` 2, 2 items and 1 added later, 1 requested yield, 1 spurious wake-up, every way to end, shutdown | pass | concurrency bounded, count exact, registrations balanced, `Cancel()` waits, `Join()` and `Cancel()` return, work completes |
| `job_join` | 2 workers, 2 items | violation | see below |
| `tg_safety` | up to 3 workers at once and 4 ever, 3 tasks at first, 1 best-effort and 2 foreground posts, 2 blocking calls, a policy that allows no task and then all, 1 clean-up | pass | counters, idle stack and pending adjustment agree; workers are not all asleep when more should be awake |
| `tg_live` | 3 workers, 1 task at first, 2 best-effort and 1 foreground posts, 2 blocking calls that may never end | pass | tasks start within limits, a best-effort job is told to yield to a foreground source, every runnable source gets a worker |
| `dtm` | 3 tasks, two of them due together and one earlier, clock to 3 | pass | wake-ups cover the ripest task, one per task; implements `DelayedForwarding` |
| `pool` | 1 background and 2 foreground workers, a poster, an owner, a Sequence and a job with `Cap` 2, 2 posts, 3 priority updates, cancel, join, shutdown | pass | a source is queued once and where its traits say, every registration has one owner, pending work runs |
| `st` | a shared worker with two runners (one best effort) and a dedicated one, 2 clients, 2 tasks, 1 fence | pass | `worker_awake_` exact, nothing forgotten, clean-up exact, posted tasks run |
| `st_fence` | one runner of each kind, 1 client, a fence before `Start()` | violation | see below |
| `sm` | 1 queue, 3 tasks (one non-nestable, one delayed), 1 other thread, nesting depth 2, 2 calls by tasks, clock to 2 | pass | queues consistent and no task lost or duplicated, no lost work, posting order, posted tasks start, run loops return |
| `we` | an auto-reset and a manual event, 2 threads, 2 watchers, 2 addresses, 3 flags (symmetric) | pass | wait-lists exact, signals conserved, a wait ends after its `Signal()`, watches exact, no circular wait |

Why these bounds. In the tracker the race is between one decrement, one increment
and the bit: two workers and a client give all three at once, a third post lets a
source be drained, refilled and refused in one behaviour, and the proofs remove the
bound. A job needs a worker that has read a stale maximum, a worker that ends and
the joining thread; a third item makes a notification overlap with a re-enqueue. In
the group, `InitialMax` 1 with two blocking calls (`tg_live`) makes the limit go up by
`WILL_BLOCK`, by an upgrade and by `AdjustMaxTasks()` until `KMaxNumberOfWorkers` 3 is
reached. In `tg_safety` three tasks may run at first, the new policy makes three sources
runnable at once, one more than a call wakes up, and the fourth worker exists to be
created after a clean-up. Three delayed
tasks cover overtaking (a riper task is added later), equal run times and a pop
that uncovers the next. In the pool two foreground workers run the job at once and
re-enqueue it one after the other while three updates send it to the background and
back. A single-thread worker sleeps, is posted to and sees a fence end; two
clients make a post and a last release meet. In the sequence manager three tasks are an
immediate one from another thread, a non-nestable one a nested loop must defer and a
delayed one posted from either side; two calls suffice to nest and quit, to disable and
enable, to set and remove a fence; the proofs are for any number of queues. The
waitable event needs a waiter on both events, a signaller, and a third flag so that an
address is used again while an old task is still posted; with two threads the
instance is complete, no bound cuts it. All bounds are named constants, used in guards only:
`MaxPosts`, `MaxFences`, `MaxBEFences`, `MaxItems`, `MaxYields`, `MaxSpurious`,
`MaxBlocking`, `MaxCleanups`, `MaxTime`, `MaxUpdates`, `MaxTasks`, `MaxDepth`, `MaxOps`, `Pool`.

The runs set `CHECK_DEADLOCK FALSE` because the systems do stop: a pool whose bounded
posts have run, a job that has been joined. Getting stuck half-way is what the
liveness properties exclude. `we` keeps the deadlock check: its threads always have
a next call.

## Fairness

* `TaskTracker`: weak fairness of every step of a post, of a run and of an
  unregistration that has begun, of `Shutdown()` once its service thread is stopped,
  and of a flusher that has been woken. A thread that can run is scheduled by the
  operating system, and tasks are assumed to return. Nothing obliges anybody to
  post, raise a fence, call `Shutdown()` or flush.
* `JobTaskSource`: weak fairness of each thread's code. Ending the handle and adding
  work are free choices, so is starting the shutdown. Spurious wake-ups are finitely
  many: with infinitely many the joining thread could retake `lock_` forever
  before a worker gets it.
* `ThreadGroupImpl`: weak fairness of each thread: flushing its executor, the loop of a
  worker that is awake, `AdjustMaxTasks()` on the service thread once posted; a
  worker in a MAY_BLOCK call does age. Tasks inside a blocking call need not
  return, a sleep need not time out and no worker need clean up: `QueueDrains` is not
  owed to any of these.
  It is a result about its instance, see [observations](#observations).
* `DelayedTaskManager`: weak fairness of posts that were decided on and of the service
  thread running closures that are due. The clock need not advance.
* `ThreadPoolImpl`: weak fairness of a client inside a call and of each worker's
  loop: an idle worker with work in its group's queue takes it, which is what
  `QueueDrains` shows of the group. Nobody need post, update, cancel or join.
* `SingleThreadManager`: weak fairness of each worker's loop, of a client inside a call, and
  of the main thread, which does call `Start()`. Fences need not end: a task held
  back by the policy is not owed a run.
* `SequenceManager`: weak fairness of the main thread's loop, of a poster inside a post,
  and of the clock. The main thread calls `Run()` again when its outermost loop
  returns, and a task returns; no task need nest, quit, enable or remove a fence.
* `WaitableEvent` has no fairness: its locks and condition variables are not fair,
  and its properties are about safety.

Weak fairness is enough everywhere: in these models a lock is held across
steps only by a thread that is itself obliged to move on.

## Disagreements between code and comments

Two runs state what a comment or a header says and find a behaviour of the
code that contradicts it. Both are listed under `findings` with the quoted line.

* `st_fence`: a fence begins before `Start()`, a task is posted to a single-thread
  runner, the fence ends, the pool starts. The post queued the task without a
  `WakeUp()` because the policy forbade it; the end of the fence returned early from
  `DidUpdateCanRunPolicy()` because the manager was not started; `Start()` starts the
  worker and wakes nobody. The task waits until something else wakes the worker,
  although "Workers that already need to wake up are already signaled"
  (`pooled_single_thread_task_runner_manager.cc:519`) and the end of all fences
  releases the tasks they held (`thread_pool_instance.h:104`). Without fences before
  `Start()` (`st`) every posted task runs.
* `job_join`: a worker reads max concurrency 1 in `WillRunTask()`, the last item
  completes, and the joining thread loads a worker count of 1 (itself) and max concurrency
  0. After that load, before or after the joining thread's decrement, the worker's
  compare-and-swap succeeds. The joining thread takes the group lock that the worker held
  during `WillRunTask()`, removes the job and returns from `Join()`; `worker_task` runs
  after that, although `Join()` "Doesn't return until all tasks have completed"
  (`../post_job.h:95`). It finds no item, but runs.

## Observations

Orderings that contradict a comment or an assertion, each met as a counterexample to
the quoted statement in an instance of the module named. They are recorded here and not
kept as runs.

* `TaskTracker`, two flushers: `flush_cv_->Signal()` (`task_tracker.cc:754`) wakes one
  thread. Of two threads in `FlushForTesting()` when the last source completes, one stays
  blocked with nothing incomplete, although "Waits until there are no incomplete task
  sources" (`task_tracker.h:76`). `tt_live` therefore has one flusher at a time.
* `JobTaskSource`, callback after join: a worker whose `DidProcessTask()` asked for a
  re-enqueue pushes the job after `Join()` removed it (`thread_group.cc:165`), and the
  next `GetWork()` calls the callback that `post_job.cc:143` means to protect.
* `JobTaskSource`, spurious wake-up: the joining thread calls `SetWaiting()` again with its
  flag set, against the DCHECK at `job_task_source.cc:121`, while `condition_variable.h:18`
  says spurious signals are possible. `job` contains the wake-up; `JoinReturns` holds.
* `ThreadGroupImpl`, late wake-up: a worker popped for a wake-up may time out by
  itself, work, go idle and clean up before the thread that popped it calls `WakeUp()`
  (`thread_group_impl.cc:174`), which `worker_thread.cc:85` calls wrong. With the real
  reclaim time that thread must be suspended for that long (30 s by default).
* `ThreadGroupImpl`, threshold: `min_allowed_priority_` is "expected to be always kept
  up-to-date by derived classes when |lock_| is released" (`thread_group.h:230-232`).
  `RemoveTaskSource()` (`thread_group.cc:141`) takes a source out of the queue without
  refreshing it, so it may stay too high until the next refresh, and a best-effort job
  yields in vain. It is never too low, which is `YieldsToForeground`.
* `ThreadGroupImpl`, wake-ups by two: `EnsureEnoughWorkersLockRequired()` wakes up at most
  two workers and counts on each to call it again from `GetWork()`. A worker that timed out
  by itself and has passed that call (it stands after `FlushWorkerCreation()`) takes a task
  without calling it again. With three idle workers, three sources made runnable at once by a
  policy change, and room for more tasks, two such workers may be the ones popped; the
  third source then waits behind an idle worker until a task ends, blocks or something is
  posted, also if the two tasks never end. This needs larger limits than those of
  `tg_live`. `WakeUpNotLost` counts a running worker as awake for that reason.

## Proofs

Eight modules prove `Spec => []P` for the invariants below, for any number of threads,
sources, events and tasks and any value of the bounds (`StartsWithinLimits`
is an action property, and `Refinement` is what its name says). The passing runs check the same
definitions on small instances. In each module `Invariance` is `Spec => []IndInv`, where
`IndInv` is an inductive invariant that TLC has checked as well, and each theorem below is
a consequence of it.

| module | theorem | property |
|---|---|---|
| `TaskTrackerProofs` | `TypeCorrect` | `TypeOK`: in particular neither counter goes below zero |
| | `ItemsExact` | `ItemsCountBlockers` |
| | `IncompleteExact` | `IncompleteCountsSources` |
| | `ShutdownSafety` | `ShutdownIsSafe` |
| | `DChecksHold` | `ShutdownDChecks` |
| | `OwnershipHolds` | `SequenceOwnership` |
| `JobTaskSourceProofs` | `CountHolds` | `CountIsExact` (with the types) |
| | `CapHolds` | `RunningWithinCap` |
| | `RegistrationsHold` | `RegistrationsBalanced` |
| | `CancelHolds` | `CancelWaits` |
| `ThreadGroupImplProofs` | `BookkeepingHolds` | `BookkeepingAgrees`: types, counters, idle stack, pending adjustment |
| | `WakeUpHolds` | `WakeUpNotLost` |
| | `ThresholdHolds` | `YieldsToForeground` |
| | `StartsHold` | `StartsWithinLimits` |
| `DelayedTaskManagerProofs` | `OneWakeUpHolds` | `OneWakeUpPerTask` |
| | `RipestCovered` | `RipestIsCovered` |
| | `Refinement` | `Promise!SafeSpec`, the safety part of `DelayedForwarding` |
| `ThreadPoolImplProofs` | `QueuedHolds` | `QueuedWhereItBelongs` |
| | `OwnedHolds` | `OwnedExactly` |
| `SingleThreadManagerProofs` | `AwakeHolds` | `AwakeIsExact` |
| | `CleanupHolds` | `CleanupIsExact` |
| | `NoWorkForgotten` | `NoForgottenWork`, if no fence begins before `Start()` |
| | `TypeCorrect` | `TypeOK` |
| `WaitableEventProofs` | `WaitListsHold` | `WaitListsExact` |
| | `ConservedHolds` | `SignalsConserved` |
| | `ReturnsHold` | `ReturnsAfterSignal` |
| | `WatchesHold` | `WatchesExact` |
| | `NoCircle` | `NoCircularWait` |
| `SequenceManagerProofs` | `QueuesStayConsistent` | `QueuesConsistent` (with the types and the conservation of tasks) |
| | `NoWorkIsLost` | `NoLostWork` |
| | `TasksStartInPostingOrder` | `StartsInPostingOrder` |
| | `Conservation` | (the second inductive invariant, see below) |

The assumptions are the named `ASSUME`s of the modules: the sets that are counted are
finite, identities of different kinds are distinct, bounds are natural numbers. Where more
is assumed it is said below. The proof that a step keeps `IndInv` is by cases on the
actions; what an action does to one thread, source or event and what it leaves alone is
stated in lemmas of its own, and so is what a counted set gains or loses when a
single element comes or goes.

### TaskTracker

    IndInv == Types /\ Control /\ Unique /\ Contents /\ Phase /\ Accounting
              /\ ShutdownIsSafe

* `Control` ties the program counters of a thread to each other and to the lock it
  holds: a thread in the middle of a post holds `TaskSource::lock_` of its destination.
* `Unique` says a source is queued, run or being registered at most once. It is
  what makes counting a set of owners the same as counting registrations.
* `Contents` links a Sequence's queue, worker bit and reference to its owner. It is
  needed because `WillPushTask()` decides to register from the Sequence alone.
* `Phase` orders `main`, the started bit and the event.
* `Accounting` is the two counter properties. A step that moves an item from
  one blocker to another (a source to the thread that unregisters it) exchanges one
  element of a set for another, which `SwapCardinality` proves neutral.

`ShutdownIsSafe` is not inductive alone: that a decrement to zero means no blocker is
left is exactly `ItemsCountBlockers`, and that none appears later rests on the
started bit being set when it was decided. `NextInd` has one lemma per conjunct and,
in each, one step per action.

### JobTaskSource

    IndInv == TypeOK /\ Control /\ Accounting /\ Admission /\ Cancellation

* `Control`: the group lock is held by the one worker between its read of the max
  concurrency and its compare-and-swap, and a worker's notification returns to its task.
* `Accounting`: the count, the registrations and the incomplete items are the sizes of
  sets of threads. That the work items balance keeps `work` from going below zero.
* `Admission`: a worker about to be admitted has read at most `Cap`. The count itself may
  be `Cap + 1`, because `WillJoin()` increments it unconditionally; then the joining
  thread is at a place from which it does not get into `worker_task_` before it has read
  a lower count. This is why `RunningWithinCap` holds although `count <= Cap` does not.
* `Cancellation`: once canceled the count only goes down, so what the joining thread read
  under `lock_` still bounds it when it tests for being the last.

That the two locks exclude anybody is not used: the atomic updates suffice for these four
properties. (The locks matter for `JoinReturns`, which is model-checked.)

### ThreadGroupImpl

    IndInv == Typed /\ Control /\ Tasks
              /\ Counters(g, task, may_block, incremented)
              /\ Shape(g, exec, pc, event, adjust_tasks)
    Shape  == StackOK /\ Life /\ Starts /\ Adjusts /\ Threshold (and types)

A critical section calls several `...LockRequired()` methods before it unlocks, so the
parts are stated of any members `h`, executors, places and events: each method has a lemma
that says which members it changes, and an action is a chain of such lemmas.

* `Tasks` ties the place of a worker to its task, its blocking scope, its start time and
  whether it has incremented the limits. In the gap of `BlockingTypeUpgraded()`
  the worker is in neither set, so `AdjustMaxTasks()` cannot count it.
* `Counters`: the six counters are the sizes of sets of workers. A counter of type `Nat`
  is a consequence, hence `Members` allows any integer.
* `StackOK`: the idle stack has no duplicates, and a worker of the group is `unused` exactly
  if it is on it and not on top. This is what `CanGetWorkLockRequired()` relies on, and
  with it the DCHECKs of `WorkerThreadStack::Remove()` (the worker is found and is not
  on top).
* `Life`: a worker without a thread yet, or asleep, is on the stack, signaled, or in
  the wake-ups of some executor; a worker on the stack is not running a task.
* `Starts`: each worker is started by one executor, once. `Adjusts`: the adjustments posted
  and about to be posted are 1 or 0 as `adjust_max_tasks_posted_` says.
* `Threshold`: `min_allowed_priority_` is no lower than what
  `UpdateMinAllowedPriorityLockRequired()` would compute, once the group has started. It is
  one-sided because `RemoveTaskSource()` may lower that value and not the stored one.

What `EnsureEnoughWorkersLockRequired()` does is one lemma (`EnsureOutcome`): it leaves the
counters alone, lets the group grow by fresh workers that it hands to the executor to
start, and pops only workers it hands to the executor to wake up. `StartsHold` follows
from it: the workers with a task and the one about to take another are off the stack,
so they are at most as many as are awake, which is at most `DesiredNumAwakeWorkers`, which
is at most `max_tasks_`. It assumes `InitialMax <= kMaxNumberOfWorkers` (a DCHECK of
`Start()`) and that `Pool` has a fresh identity for every worker the bounds let be created.

`WakeUpHolds` needs one more invariant on top of `IndInv`, `Attends`: if more workers should
be awake than are, some worker is off the stack, unless the main thread is between setting a
new policy and `DidUpdateCanRunPolicy()`. Whatever raises the number desired (a post, a new
sort key, a higher limit) ends in `EnsureEnoughWorkersLockRequired()`, which pops or creates
a worker if none is awake. What lowers the number awake is a worker that goes to the stack in
`GetWork()` or cleans up: it does so only if those awake exceed the number desired or the
queue has nothing for it. `Life` turns off the stack into awake or about to be woken up.

### DelayedTaskManager

    IndInv == TypeOK /\ Control /\ Places /\ Marks /\ Coverage

* `Places` orders the life of a task: heap, ripe, forwarded. The refinement follows from it.
* `Marks` counts: closures posted and about to be posted equal the tasks marked
  `scheduled_`.
* `Coverage` is stronger than `RipestIsCovered`, which is not inductive: popping the ripest
  task makes another the ripest, which may have been marked when it was on top before. So
  every marked task in the heap is covered by a closure of its own due time, not by a riper
  one's; a closure that is due later than now cannot be the one that is being consumed.

`Refinement` is step by step: an added task is a step of the promise, a forwarded
task is one, everything else stutters.

### ThreadPoolImpl

    IndInv == Types /\ Control /\ Shape /\ Place /\ Accounting /\ SequenceStates

* `Control`: a Transaction is open exactly while its thread is at a place that holds it,
  which is what keeps two threads from moving a source at once.
* `Shape`: one node in the two heaps if the shared heap handle is valid, none otherwise.
* `Place`: which group and sort key the node has, also in the middle of
  `UpdatePriority()`, when the traits are new and the node is not.
* `Accounting`: registrations and worker count as sizes of sets of threads.
* `SequenceStates`: a Sequence without an owner has no tasks, an owned one is owned once.

### SingleThreadManager

    IndInv == Types /\ Control /\ Sequences /\ Lifetime /\ Starts /\ WakeUps /\ Policy

* `WakeUps` refines `AwakeIsExact` with who is about to call `WakeUp()`: at most one actor
  for a worker whose event is not signaled, and nobody for a worker that exits.
* `Lifetime` and `Starts` say that a worker is orphaned exactly from the release of its
  runner to its clean-up and that one actor starts it, `Start()` or the creator.
* `Policy` needs the hypothesis `~FencesBeforeStart`: before `Start()` the policy then changes
  at most once, to the stricter one. `st_fence` shows that without it the theorem
  is false, so the hypothesis is part of what is known about the code.

### WaitableEvent

    IndInv == Types /\ Control /\ Locks /\ Lists /\ Firing /\ Conserved /\ Watches

* `Locks`: a `Signal()` at work holds its kernel; an `EnqueueMany()` holds locks of lower
  addresses than all it has still to take.
* `Lists`: a wait-list has no duplicates, is empty while the event is signaled, and names
  the SyncWaiters of threads that sleep on it or have not dequeued it yet.
* `Firing`: the `Signal()` that fired a waiter, of either kind of event, still holds the lock
  that the waiter has to take before it returns, hence `ReturnsAfterSignal`.
* `Conserved`: a signal of an auto-reset event is in the event, with a `Signal()` that
  looks for a waiter, or handed to a waiter that has not returned.
* `Watches`: a Flag has one watcher; its AsyncWaiter is listed or its task is posted, not
  both; so a reused address does not bring a stale watch back.

It assumes that addresses of events are distinct, that the arrays passed to `WaitMany()` are
not empty and name no event twice (a DCHECK of `WaitMany()`), and that
threads are neither `Pointers` nor `Flags`. `NoCircle` takes from a circle the thread that
waits for the highest address: whoever holds that lock waits for a higher one, since
`EnqueueMany()` holds only locks below those it waits for.

### SequenceManager

    IndInv == Scalars /\ AllQueues /\ StackOK /\ Control /\ Reloads /\ Sleep /\ StartOrder

* `AllQueues` is one predicate, `QueueOK(q, r, d, n)`, of every queue, stated of any record
  `r`, deferred tasks `d` and last sequence number `n`, so that each operation on a queue
  (push, reload, move what is due, take, defer, requeue, fence, enable) has a lemma and an
  action combines them. It says what entries the queues have; that enqueue orders increase
  along the deferred tasks, then the work queue, then the incoming queue; that the two
  flags posting threads read are what they copy; and that the delayed wake-up of an
  enabled queue is no later than its earliest delayed task.
* `Reloads`: a queue has its reload flag set, or is among the callbacks `RunActiveCallbacks()`
  has still to make, exactly if its work queue is empty and its incoming queue is not; never
  both. From left to right this is the DCHECK that only an empty work queue is
  reloaded; from right to left, that no queue is stranded. A requeued non-nestable task
  must therefore clear the flag.
* `Sleep` follows the check for more work from `WillCheckForMoreWork()`, which clears the
  request flag, to the wait. A queue whose flag is set after the flags were read has been
  asked for since (`Asked`: the flag in `state_` is set, or a poster is about to set it); at
  `did_check` the same holds of every runnable task, unless the loop is going to
  continue anyway. `DidCheckForMoreWork()` goes to sleep only if the flag is not set, so
  whoever has still to ask finds `kIdle` and signals the pump. `NoLostWork` alone is not
  inductive: it says nothing before the wait. In a loop that may not run tasks only the
  part about the flags remains.
* `StartOrder`: a started task precedes every waiting one of its queue, except that it was
  started by a nested loop and the waiting one is non-nestable. This needs the order of
  the deferred tasks in `AllQueues`, that they are non-nestable, and from `Control`
  that the outermost loop defers none and starts with none deferred.
* `StackOK` and `Control`: all loops but the innermost are inside a task, and the outermost
  one is allowed to run tasks whenever it is not in one, so what it saw of the queues counts.

That no task is lost or duplicated (`TasksConserved`, a part of `QueuesConsistent`) needs a
second invariant, proved on top of the first:

    Conserved == AllDistinct /\ Hops /\ StartedOnce /\ \A t \in Tasks : OneHome(t)

* `OneHome`: a task is in exactly one of four homes: not posted, in its queue, carried by the
  hop of the innermost run loop (a delayed task another thread posted, on its way to the
  delayed queue), or started.
* `AllDistinct`: inside a queue, no two entries are of one task, whether they wait in the
  lines of immediate tasks, among the delayed tasks that are due, or in the delayed queue.
  It depends on three sets only, so each operation on a queue has a lemma saying that it
  keeps them, adds one task or removes one.
* `Hops` and `StartedOnce`: a run loop carries at most one task, and only where it hops;
  a task occurs once among the started ones.

It needs `IndInv`: `Reloads`, because a reload replaces the work queue and would lose what it
holds; the increasing enqueue orders, because they make an entry's position in a line
unique; and `StackOK`, because loops below the innermost carry nothing. `HomesArePlaces` then
turns one home into one place, the cardinality that TLC checks.

The only assumption is `Parameters`: queues, tasks, posters, batch size, depth and the number
of calls by tasks are arbitrary. The heap of delayed tasks gives the tasks that are due in an
order `HeapOrders` allows; the theorems hold for each, and `PostedTasksStart` (model-checked)
would fail if there were none.

## Limits

* Only model-checked: all liveness, the liveness part of `DelayedForwarding` included (the
  prover does not handle fairness). Every safety property that a passing run checks is
  a theorem as well.
* Atomics are sequentially consistent in the models, also where the code uses relaxed
  or acquire-release order on a single variable. The accesses that pair two variables are
  ordered by a lock or by the atomic itself.
* Counters have no width: reaching 2^30 items is out of any instance.
* The thread group abstracts sort keys to two priorities and has no jobs in its
  queue; `JobTaskSource` has the job and abstracts the group. `ThreadPoolImpl` composes
  them with `WillRunTask()` of a job as one step and without the number of awake workers.
  Among sources of equal priority any may come first, in place of the order by queue time.
* `WorkerThread::Start()` never fails in the model (the code ignores a failure).
* Testing hooks (`JoinForTesting`, `WaitFor...ForTesting`), metrics and tracing are left out.

## Not modelled

* `SequenceManager`: queue priorities and their anti-starvation, delayed fences, canceled
  tasks, unregistering and graceful shutdown of queues, observers, native work and
  `YieldToNative`, run-loop timeouts, a `Quit()` or `QuitWhenIdle()` from another thread (the
  code posts it as a task), high-resolution timers, and the
  separate `DoDelayedWork()` of the older pump interface.
* `SingleThreadManager`: shutdown (the refusal of tasks is `TaskTracker`'s),
  `JoinForTesting()`, `ReleaseSharedWorkerThreads()`, the end of shared runners, the COM
  delegate, delayed tasks.
* `WaitableEvent`: the Windows and Mac implementations, a watcher deleted on another
  sequence.
* `ThreadPoolImpl`: the can-run policy (in `ThreadGroupImpl`), the hand-off of all
  sources to another group on Windows, a notification made by a worker of the job itself
  (in `JobTaskSource`).
* Whole parts, listed with the reason under `components`: the service thread's loop and
  heartbeat, `OperationsController`, `CancelableTaskTracker`, timers, Mojo, IPC, `net`, `url`,
  `crypto` and the sequential utilities of `base`. The repository is far larger than
  the scheduler; these models cover the scheduler and little else of it.

## Plan

Done: the modules above, and the proofs of `TaskTracker`, `JobTaskSource`,
`ThreadGroupImpl`, `DelayedTaskManager`, `ThreadPoolImpl`, `SingleThreadManager`,
`WaitableEvent` and `SequenceManager`.

1. An abstract sequenced executor (tasks of a sequence run one at a time, in order) that
   `ThreadPoolImpl` implements.
2. Queue priorities and delayed fences of the sequence manager; unregistering queues.
3. `OperationsController`, `CancelableTaskTracker`, `OneShotTimer`.
4. Mojo ports: order of messages through proxies.
