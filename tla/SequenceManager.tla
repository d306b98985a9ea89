-------------------------- MODULE SequenceManager --------------------------
(***************************************************************************)
(* One thread's task scheduler: TaskQueueImpl and its work queues,         *)
(* SequenceManagerImpl, WorkDeduplicator, ThreadControllerWithMessagePump- *)
(* Impl, MessagePumpDefault and RunLoop (src/base/task/sequence_manager,   *)
(* src/base/message_loop, src/base/run_loop.cc).                           *)
(*                                                                         *)
(* Posters post from other threads; the main thread runs nested run loops. *)
(* A step is one critical section of any_thread_lock_, one atomic access   *)
(* of WorkDeduplicator::state_ or of the reload flags, or one access of    *)
(* the pump's event; what the main thread does between two of them is not  *)
(* visible to another thread and belongs to the step before.               *)
(*                                                                         *)
(* A definition named D_Suffix is a faulty variant of the definition D     *)
(* that follows it; no specification uses it.                              *)
(***************************************************************************)
EXTENDS Integers, Sequences, FiniteSets, FiniteSetsExt, Functions

CONSTANTS
  Queues,       \* the task queues; all have the same priority
  Tasks,        \* each task is posted at most once
  Posters,      \* threads other than the main thread
  FromMain, FromOthers, \* the tasks posted on the main thread, by posters
  QueueOf,      \* [Tasks -> Queues]
  NonNestable,  \* the tasks posted with Nestable::kNonNestable
  Delay,        \* [Tasks -> Nat], 0 for an immediate task
  WorkBatchSize,
  OutermostUntilIdle, \* whether the outermost run loop may be a RunUntilIdle(), a Run()
  MaxDepth,     \* bound on nested run loops
  MaxOps,       \* bound on the calls that running tasks make
  MaxTime       \* bound on the clock

ASSUME Parameters ==
  /\ FromMain \cup FromOthers = Tasks
  /\ QueueOf \in [Tasks -> Queues] /\ NonNestable \subseteq Tasks
  /\ Delay \in [Tasks -> Nat] /\ WorkBatchSize \in Nat \ {0}
  /\ OutermostUntilIdle \subseteq BOOLEAN
  /\ MaxDepth \in Nat \ {0} /\ MaxOps \in Nat /\ MaxTime \in Nat

VARIABLES
  state_,    \* WorkDeduplicator::state_, as the set of its flags
  event_,    \* MessagePumpDefault::event_, an auto-reset event
  queue,     \* the TaskQueueImpls
  reload,    \* empty_queues_to_reload_: the queues whose atomic flag is set
  seq,       \* EnqueueOrderGenerator: the last sequence number given out
  deferred,  \* non_nestable_task_queue, by queue and kind of work queue
  stack,     \* the active run loops, innermost last
  keep_running, quit_pending, task_execution_allowed,
  starvation,  \* immediate_starvation_count_
  poster,    \* what each poster has left to do in PostImmediateTaskImpl()
  unposted, started, ops, now

duplicator == <<state_, event_>>
main_only == <<deferred, stack, keep_running, quit_pending, task_execution_allowed, starvation>>
vars == <<state_, event_, queue, reload, seq, deferred, stack, keep_running, quit_pending,
          task_execution_allowed, starvation, poster, unposted, started, ops, now>>

kIdle == {"Bound"}
kDoWorkPending == {"Bound", "PendingDoWork"}
kInDoWork == {"Bound", "InDoWork"}

kNone == 0
kBlockingFence == 1
Never == 0    \* an absent wake-up; the clock starts at 1

(***************************************************************************)
(* WorkDeduplicator: the threads other than main only call ScheduleWork(). *)
(***************************************************************************)
OnWorkRequested == state_' = state_ \cup {"PendingDoWork"}

\* ThreadController::ScheduleWork() by the main thread, if `needed': the pump is signalled
\* only if nobody has requested work and no DoWork is in progress.
ScheduleWork(needed) ==
  IF needed
  THEN /\ OnWorkRequested
       /\ event_' = (event_ \/ state_ = kIdle)
  ELSE UNCHANGED duplicator

\* DidCheckForMoreWork(): whether to continue at once, and the new flags.
MustContinue_IgnoresRequests(immediate) == immediate
MustContinue(immediate) == immediate \/ "PendingDoWork" \in state_
DidCheckForMoreWork(immediate) ==
  state_' = IF immediate THEN kDoWorkPending ELSE state_ \ {"InDoWork"}

(***************************************************************************)
(* TaskQueueImpl and WorkQueue, on the record of one queue.                *)
(***************************************************************************)
NewQueue ==
  [incoming |-> <<>>,           \* any_thread_.immediate_incoming_queue
   work |-> <<>>,               \* main_thread_only().immediate_work_queue
   delayed_work |-> <<>>, delayed_incoming |-> {}, wake_up |-> Never,
   enabled |-> TRUE, fence |-> kNone,
   work_empty |-> TRUE,         \* any_thread_.immediate_work_queue_empty
   should_schedule |-> TRUE]    \* any_thread_.post_immediate_task_should_schedule_work

UpdateCrossThreadQueueStateLocked(r) ==
  [r EXCEPT !.work_empty = (r.work = <<>>), !.should_schedule = r.enabled /\ r.fence = kNone]

TakeImmediateIncomingQueueTasks(r) ==
  UpdateCrossThreadQueueStateLocked([r EXCEPT !.work = r.incoming, !.incoming = <<>>])

BlockedByFence(w, fence) == fence # kNone /\ (w = <<>> \/ w[1].order >= fence)

\* Whether a work queue is in the selector's WorkQueueSets.
Selectable(r, w) == r.enabled /\ w # <<>> /\ ~BlockedByFence(w, r.fence)

HasTaskToRunImmediately(r) ==
  \/ r.delayed_work # <<>> \/ r.work # <<>> \/ r.incoming # <<>>
  \/ \E e \in r.delayed_incoming : e.time <= now

\* TaskQueueImpl::BlockedByFence(): both work queues and the incoming queue.
QueueBlocked(r) ==
  /\ r.fence # kNone
  /\ BlockedByFence(r.work, r.fence) /\ BlockedByFence(r.delayed_work, r.fence)
  /\ r.incoming = <<>> \/ r.incoming[1].order > r.fence

UpdateDelayedWakeUp(r) ==
  [r EXCEPT !.wake_up = IF r.enabled /\ r.delayed_incoming # {}
                        THEN Min({e.time : e \in r.delayed_incoming}) ELSE Never]

\* TimeDomain::NextScheduledRunTime() over the queues qs.
NextRunTime(qs) ==
  LET times == {qs[q].wake_up : q \in Queues} \ {Never}
  IN IF times = {} THEN Never ELSE Min(times)

\* SetNextWakeUpForQueue() requests a DoWork when the earliest wake-up changed and is due.
\* For a later one it only tells the pump, and MessagePumpDefault ignores that.
RequestsDoWork(qs) ==
  LET time == NextRunTime(qs)
  IN time # NextRunTime(queue) /\ time # Never /\ time <= now

\* The tasks that are due, and the order in which delayed_incoming_queue, a heap, gives them:
\* one, since sequence numbers differ.
Due(r) == {e \in r.delayed_incoming : e.time <= now}
RunsBefore(d, e) == d.time < e.time \/ (d.time = e.time /\ d.order < e.order)
HeapOrders(S) ==
  {s \in [1..Cardinality(S) -> S] :
     \A i, j \in 1..Cardinality(S) : i < j => RunsBefore(s[i], s[j])}

\* MoveReadyDelayedTasksToWorkQueue() of the tasks ripe, which take the enqueue orders after n.
MoveReady(r, ripe, n) ==
  LET moved == [i \in 1..Len(ripe) |-> [ripe[i] EXCEPT !.order = n + i]]
  IN UpdateDelayedWakeUp(
       [r EXCEPT !.delayed_work = r.delayed_work \o moved,
                 !.delayed_incoming = r.delayed_incoming \ Due(r)])

\* TakeTaskFromWorkQueue(); an immediate work queue that gets empty reloads itself.
TakeTask(r, immediate) ==
  IF ~immediate THEN [r EXCEPT !.delayed_work = Tail(@)]
  ELSE LET rest == [r EXCEPT !.work = Tail(@)]
       IN IF rest.work = <<>> THEN TakeImmediateIncomingQueueTasks(rest) ELSE rest

\* An entry of a queue. hop: the immediate task that carries a delayed task posted by another
\* thread to the main thread (ScheduleDelayedWorkTask()).
Entry(t, hop, order, time) == [task |-> t, hop |-> hop, order |-> order, time |-> time]
Nestable(e) == ~e.hop /\ e.task \notin NonNestable

\* A delayed task falls due before the clock reaches its bound.
MayPost(t) == t \in unposted /\ now + Delay[t] <= MaxTime
DelayedRunTime(t) == IF Delay[t] = 0 THEN Never ELSE now + Delay[t]

\* The critical section of PostImmediateTaskImpl(), by any thread.
WasEmpty(r) == r.incoming = <<>> /\ r.work_empty
ImmediateShouldSchedule(q) == WasEmpty(queue[q]) /\ queue[q].should_schedule
PostImmediateTaskImpl_PushesFront(q, e) ==
  /\ queue' = [queue EXCEPT ![q].incoming = <<e>> \o @]
  /\ reload' = IF WasEmpty(queue[q]) THEN reload \cup {q} ELSE reload
  /\ seq' = seq + 1
PostImmediateTaskImpl(q, e) ==
  /\ queue' = [queue EXCEPT ![q].incoming = Append(@, e)]
  /\ reload' = IF WasEmpty(queue[q]) THEN reload \cup {q} ELSE reload
  /\ seq' = seq + 1

(***************************************************************************)
(* Posting from other threads.                                             *)
(***************************************************************************)
\* A delayed task's run time is fixed here; it travels in a non-nestable immediate task. The
\* two sequence numbers the pair takes, one before the other, are one in the model.
PostTask(p, t) ==
  LET q == QueueOf[t] IN
  /\ poster[p] = "idle" /\ MayPost(t)
  /\ PostImmediateTaskImpl(q, Entry(t, Delay[t] > 0, seq + 1, DelayedRunTime(t)))
  /\ poster' = [poster EXCEPT ![p] = IF ImmediateShouldSchedule(q) THEN "request" ELSE "idle"]
  /\ unposted' = unposted \ {t}
  /\ UNCHANGED <<duplicator, main_only, started, ops, now>>

RequestWork(p) ==
  /\ poster[p] = "request"
  /\ OnWorkRequested
  /\ poster' = [poster EXCEPT ![p] = IF state_ = kIdle THEN "signal" ELSE "idle"]
  /\ UNCHANGED <<event_, queue, reload, seq, main_only, unposted, started, ops, now>>

SignalPump(p) ==
  /\ poster[p] = "signal"
  /\ event_' = TRUE
  /\ poster' = [poster EXCEPT ![p] = "idle"]
  /\ UNCHANGED <<state_, queue, reload, seq, main_only, unposted, started, ops, now>>

(***************************************************************************)
(* The main thread: binding and run loops.                                 *)
(***************************************************************************)
Loop(until_idle, restore) ==
  [pc |-> "start", i |-> 0, callbacks |-> {}, immediate |-> FALSE, timed |-> FALSE,
   hop |-> {},                  \* the delayed task that a running hop carries
   until_idle |-> until_idle,   \* RunLoop::quit_when_idle_received_
   quit_called |-> FALSE,       \* RunLoop::quit_called_
   keep |-> keep_running,       \* what AutoReset restores in MessagePumpDefault::Run()
   restore |-> restore]         \* task_execution_allowed is reset after the run

Top == stack[Len(stack)]
At(pc) == stack # <<>> /\ Top.pc = pc
SetTop(loop) == stack' = [stack EXCEPT ![Len(stack)] = loop]
GoTo(pc) == SetTop([Top EXCEPT !.pc = pc])
Bound == "Bound" \in state_

\* The code that calls the API on the main thread: a running task, or no run loop at all.
InTask == At("run")
MainFree == Bound /\ (stack = <<>> \/ InTask)
NestingDepth == Len(stack) - 1

BindToCurrentThread ==
  /\ ~Bound
  /\ state_' = state_ \cup {"Bound"}
  /\ event_' = (event_ \/ "PendingDoWork" \in state_)
  /\ UNCHANGED <<queue, reload, seq, main_only, poster, unposted, started, ops, now>>

\* RunLoop::Run() or RunUntilIdle() outside any task.
Run(until_idle) ==
  /\ Bound /\ stack = <<>>
  /\ stack' = <<Loop(until_idle, FALSE)>>
  /\ keep_running' = TRUE /\ quit_pending' = FALSE
  /\ UNCHANGED <<duplicator, queue, reload, seq, deferred, task_execution_allowed, starvation,
                 poster, unposted, started, ops, now>>

Op == InTask /\ ops < MaxOps /\ ops' = ops + 1

\* RunLoop(type).Run() or RunUntilIdle() in a task. With kNestableTasksAllowed BeforeRun()
\* calls EnsureWorkScheduled() and the controller allows tasks for the time of the run.
RunNested(nestable_tasks_allowed, until_idle) ==
  /\ Op /\ Len(stack) < MaxDepth
  /\ ScheduleWork(nestable_tasks_allowed)
  /\ LET allow == nestable_tasks_allowed /\ ~task_execution_allowed IN
     /\ stack' = Append(stack, Loop(until_idle, allow))
     /\ task_execution_allowed' = (task_execution_allowed \/ allow)
  /\ keep_running' = TRUE /\ quit_pending' = FALSE
  /\ UNCHANGED <<queue, reload, seq, deferred, starvation, poster, unposted, started, now>>

\* RunLoop::Quit() of the k-th active run loop: at once only if it is the innermost one.
Quit(k) ==
  /\ Op
  /\ stack' = [stack EXCEPT ![k].quit_called = TRUE]
  /\ IF k = Len(stack) THEN quit_pending' = TRUE /\ keep_running' = FALSE
     ELSE UNCHANGED <<quit_pending, keep_running>>
  /\ UNCHANGED <<duplicator, queue, reload, seq, deferred, task_execution_allowed, starvation,
                 poster, unposted, started, now>>

\* RunLoop::QuitWhenIdle() of the k-th active run loop.
QuitWhenIdle(k) ==
  /\ Op /\ ~stack[k].until_idle
  /\ stack' = [stack EXCEPT ![k].until_idle = TRUE]
  /\ UNCHANGED <<duplicator, queue, reload, seq, deferred, keep_running, quit_pending,
                 task_execution_allowed, starvation, poster, unposted, started, now>>

\* MessageLoopCurrent::ScopedNestableTaskAllower: schedule unconditionally, or look as if in
\* a DoWork again.
SetTaskExecutionAllowed(allowed) ==
  /\ Op /\ task_execution_allowed # allowed
  /\ IF allowed THEN OnWorkRequested /\ event_' = TRUE
     ELSE state_' = kInDoWork /\ UNCHANGED event_
  /\ task_execution_allowed' = allowed
  /\ UNCHANGED <<queue, reload, seq, deferred, stack, keep_running, quit_pending, starvation,
                 poster, unposted, started, now>>

NoneDeferred == [q \in Queues |-> [immediate |-> <<>>, delayed |-> <<>>]]

\* The deferred non-nestable tasks go back to the front of their work queues, last one first.
\* An empty immediate work queue is filled without a reload, so its flag is cleared.
RequeueDeferredNonNestableTasks(q) ==
  LET r == queue[q]
      front == deferred[q].immediate
  IN [r EXCEPT !.work = front \o r.work, !.delayed_work = deferred[q].delayed \o r.delayed_work,
               !.work_empty = r.work_empty /\ (front = <<>> \/ r.work # <<>>)]
FilledByRequeue_KeepsFlag == {}
FilledByRequeue == {q \in Queues : queue[q].work = <<>> /\ deferred[q].immediate # <<>>}

\* MessagePumpDefault::Run() and ThreadController::Run() return, then RunLoop::AfterRun():
\* the outermost task loop takes back the deferred tasks, a deferred Quit() is executed.
ExitRun ==
  LET outer == SubSeq(stack, 1, Len(stack) - 1)
      quit == outer # <<>> /\ outer[Len(outer)].quit_called
      requeue == Len(outer) = 1
  IN
  /\ At("exit")
  /\ stack' = outer
  /\ quit_pending' = quit
  /\ keep_running' = (Top.keep /\ ~quit)
  /\ task_execution_allowed' = (task_execution_allowed /\ ~Top.restore)
  /\ queue' = IF requeue THEN [q \in Queues |-> RequeueDeferredNonNestableTasks(q)] ELSE queue
  /\ reload' = IF requeue THEN reload \ FilledByRequeue ELSE reload
  /\ deferred' = IF requeue THEN NoneDeferred ELSE deferred
  /\ UNCHANGED <<duplicator, seq, starvation, poster, unposted, started, ops, now>>

(***************************************************************************)
(* The main thread: one DoSomeWork() of the innermost run loop.            *)
(***************************************************************************)
\* OnWorkStarted(); nothing is run, and no wake-up asked for, if tasks are not allowed.
DoSomeWork_StartsWorkOnlyIfAllowed ==
  /\ At("start")
  /\ state_' = IF task_execution_allowed THEN kInDoWork ELSE state_
  /\ SetTop([Top EXCEPT !.pc = IF task_execution_allowed THEN "select" ELSE "did_check",
                         !.i = 0, !.immediate = FALSE, !.timed = FALSE])
  /\ UNCHANGED <<event_, queue, reload, seq, deferred, keep_running, quit_pending,
                 task_execution_allowed, starvation, poster, unposted, started, ops, now>>
DoSomeWork ==
  /\ At("start")
  /\ state_' = kInDoWork
  /\ SetTop([Top EXCEPT !.pc = IF task_execution_allowed THEN "select" ELSE "did_check",
                         !.i = 0, !.immediate = FALSE, !.timed = FALSE])
  /\ UNCHANGED <<event_, queue, reload, seq, deferred, keep_running, quit_pending,
                 task_execution_allowed, starvation, poster, unposted, started, ops, now>>

\* AtomicFlagSet::RunActiveCallbacks(): all flags are exchanged for none at once, then each
\* callback takes the lock of its queue.
RunActiveCallbacks(pc) ==
  /\ reload' = {}
  /\ SetTop([Top EXCEPT !.pc = pc, !.callbacks = reload])

SelectNextTask ==
  /\ At("select")
  /\ RunActiveCallbacks("select_reload")
  /\ UNCHANGED <<duplicator, queue, seq, deferred, keep_running, quit_pending,
                 task_execution_allowed, starvation, poster, unposted, started, ops, now>>

Reloading == At("select_reload") \/ At("check_reload")
ReloadEmptyImmediateWorkQueue(q) ==
  /\ Reloading /\ q \in Top.callbacks
  /\ queue' = [queue EXCEPT ![q] = TakeImmediateIncomingQueueTasks(queue[q])]
  /\ SetTop([Top EXCEPT !.callbacks = @ \ {q}])
  /\ UNCHANGED <<duplicator, reload, seq, deferred, keep_running, quit_pending,
                 task_execution_allowed, starvation, poster, unposted, started, ops, now>>

\* TimeDomain::MoveReadyDelayedTasksToWorkQueues(), earliest queue first; another due queue
\* that becomes the earliest requests a DoWork.
MoveReadyDelayedTasksToWorkQueues ==
  LET due == {q \in Queues : queue[q].wake_up # Never /\ queue[q].wake_up <= now}
  IN
  /\ At("select_reload") /\ Top.callbacks = {}
  /\ IF due = {}
     THEN GoTo("pick") /\ UNCHANGED <<duplicator, queue, seq>>
     ELSE \E q \in {x \in due : \A y \in due : queue[x].wake_up <= queue[y].wake_up} :
            \E ripe \in HeapOrders(Due(queue[q])) :
              LET qs == [queue EXCEPT ![q] = MoveReady(queue[q], ripe, seq)] IN
              /\ queue' = qs
              /\ ScheduleWork(RequestsDoWork(qs))
              /\ seq' = seq + Len(ripe)
              /\ UNCHANGED stack
  /\ UNCHANGED <<reload, deferred, keep_running, quit_pending,
                 task_execution_allowed, starvation, poster, unposted, started, ops, now>>

\* TaskQueueSelector::SelectWorkQueueToService(): the oldest front task, an immediate one
\* once kMaxDelayedStarvationTasks delayed ones were preferred in a row.
kMaxDelayedStarvationTasks == 3
Fronts(immediate) ==
  {[queue |-> q, immediate |-> immediate,
    entry |-> IF immediate THEN queue[q].work[1] ELSE queue[q].delayed_work[1]] :
     q \in {x \in Queues : Selectable(queue[x], IF immediate THEN queue[x].work
                                                ELSE queue[x].delayed_work)}}
Candidates ==
  IF starvation >= kMaxDelayedStarvationTasks /\ Fronts(TRUE) # {}
  THEN Fronts(TRUE) ELSE Fronts(TRUE) \cup Fronts(FALSE)
SelectWorkQueueToService(c) ==
  c \in Candidates /\ \A d \in Candidates : c.entry.order <= d.entry.order
ChoseDelayed(c) == ~c.immediate /\ Fronts(TRUE) # {} /\ starvation < kMaxDelayedStarvationTasks
SelectorEmpty == Fronts(TRUE) \cup Fronts(FALSE) = {}

\* The rest of SelectNextTaskImpl(): defer a non-nestable task while nested, or start one.
Defer(c) ==
  /\ deferred' = IF c.immediate
                 THEN [deferred EXCEPT ![c.queue].immediate = Append(@, c.entry)]
                 ELSE [deferred EXCEPT ![c.queue].delayed = Append(@, c.entry)]
  /\ UNCHANGED <<stack, task_execution_allowed, started>>
StartTask(c) ==
  /\ task_execution_allowed' = FALSE
  /\ SetTop([Top EXCEPT !.pc = IF c.entry.hop THEN "hop" ELSE "run",
                         !.hop = IF c.entry.hop THEN {[c.entry EXCEPT !.hop = FALSE]} ELSE {}])
  /\ started' = IF c.entry.hop THEN started
                ELSE Append(started, [task |-> c.entry.task, order |-> c.entry.order,
                                      nested |-> NestingDepth > 0])
  /\ UNCHANGED deferred

PickTask ==
  /\ At("pick")
  /\ \E c \in Candidates :
       /\ SelectWorkQueueToService(c)
       /\ starvation' = IF ChoseDelayed(c) THEN starvation + 1 ELSE 0
       /\ queue' = [queue EXCEPT ![c.queue] = TakeTask(queue[c.queue], c.immediate)]
       /\ IF ~Nestable(c.entry) /\ NestingDepth > 0 THEN Defer(c) ELSE StartTask(c)
  /\ UNCHANGED <<duplicator, reload, seq, keep_running, quit_pending, poster, unposted, ops, now>>

\* After a task: DidRunTask(), then the next of the batch unless Quit() was called.
AfterTask ==
  /\ task_execution_allowed' = TRUE
  /\ SetTop([Top EXCEPT !.hop = {}, !.i = @ + 1,
                         !.pc = IF quit_pending \/ Top.i + 1 = WorkBatchSize
                                THEN "will_check" ELSE "select"])

EndTask ==
  /\ InTask
  /\ AfterTask
  /\ UNCHANGED <<duplicator, queue, reload, seq, deferred, keep_running, quit_pending,
                 starvation, poster, unposted, started, ops, now>>

\* The batch is over, or no task was selected: WillCheckForMoreWork(), skipped with the rest
\* of the check when the run loop quits.
WillCheckForMoreWork ==
  /\ At("will_check") \/ (At("pick") /\ SelectorEmpty)
  /\ IF quit_pending THEN GoTo("did_check") /\ UNCHANGED state_
     ELSE GoTo("check") /\ state_' = kInDoWork
  /\ UNCHANGED <<event_, queue, reload, seq, deferred, keep_running, quit_pending,
                 task_execution_allowed, starvation, poster, unposted, started, ops, now>>

\* DelayTillNextTask(): immediate work without or with a reload, else the next wake-up.
DelayTillNextTask ==
  /\ At("check")
  /\ IF SelectorEmpty THEN RunActiveCallbacks("check_reload")
     ELSE SetTop([Top EXCEPT !.pc = "did_check", !.immediate = TRUE]) /\ UNCHANGED reload
  /\ UNCHANGED <<duplicator, queue, seq, deferred, keep_running, quit_pending,
                 task_execution_allowed, starvation, poster, unposted, started, ops, now>>

DelayTillNextTaskReloaded ==
  LET time == NextRunTime(queue) IN
  /\ At("check_reload") /\ Top.callbacks = {}
  /\ SetTop([Top EXCEPT !.pc = "did_check",
                         !.immediate = ~SelectorEmpty \/ (time # Never /\ time <= now),
                         !.timed = time # Never])
  /\ UNCHANGED <<duplicator, queue, reload, seq, deferred, keep_running, quit_pending,
                 task_execution_allowed, starvation, poster, unposted, started, ops, now>>

\* DidCheckForMoreWork(), then the pump: it leaves its loop, goes on, or finds itself idle;
\* DoIdleWork() quits a RunUntilIdle().
DidCheck ==
  /\ At("did_check")
  /\ DidCheckForMoreWork(Top.immediate)
  /\ LET continue == MustContinue(Top.immediate) IN
     /\ GoTo(IF ~keep_running \/ (~continue /\ Top.until_idle) THEN "exit"
             ELSE IF continue THEN "start" ELSE "wait")
     /\ IF keep_running /\ ~continue /\ Top.until_idle
        THEN quit_pending' = TRUE /\ keep_running' = FALSE
        ELSE UNCHANGED <<quit_pending, keep_running>>
  /\ UNCHANGED <<event_, queue, reload, seq, deferred, task_execution_allowed, starvation,
                 poster, unposted, started, ops, now>>

\* event_.Wait() or TimedWait() until the next wake-up.
PumpWakesUp ==
  /\ At("wait")
  /\ event_ \/ (Top.timed /\ NextRunTime(queue) <= now)
  /\ event_' = FALSE
  /\ GoTo("start")
  /\ UNCHANGED <<state_, queue, reload, seq, deferred, keep_running, quit_pending,
                 task_execution_allowed, starvation, poster, unposted, started, ops, now>>

(***************************************************************************)
(* Calls made on the main thread, in a task or outside any run loop.       *)
(***************************************************************************)
PushDelayed(r, e) == [r EXCEPT !.delayed_incoming = @ \cup {e}]
PushOntoDelayedIncomingQueueFromMainThread(q, e) ==
  LET qs == [queue EXCEPT ![q] = UpdateDelayedWakeUp(PushDelayed(queue[q], e))]
  IN queue' = qs /\ ScheduleWork(RequestsDoWork(qs))

MainPostTask(t) ==
  LET q == QueueOf[t]
      e == Entry(t, FALSE, seq + 1, DelayedRunTime(t))
  IN
  /\ MainFree /\ MayPost(t)
  /\ IF Delay[t] = 0
     THEN /\ PostImmediateTaskImpl(q, e)
          /\ ScheduleWork(ImmediateShouldSchedule(q))
     ELSE /\ PushOntoDelayedIncomingQueueFromMainThread(q, e)
          /\ seq' = seq + 1 /\ UNCHANGED reload
  /\ unposted' = unposted \ {t}
  /\ UNCHANGED <<main_only, poster, started, ops, now>>

\* ScheduleDelayedWorkTask(), the whole of a hop: a task that is due goes to the work queue
\* with all others that are.
ScheduleDelayedWorkTask ==
  \E e \in Top.hop :
    LET q == QueueOf[e.task]
        pushed == PushDelayed(queue[q], [e EXCEPT !.time = Max({e.time, now})])
    IN
    \E ripe \in IF e.time <= now THEN HeapOrders(Due(pushed)) ELSE {<<>>} :
      LET qs == [queue EXCEPT ![q] = IF e.time <= now THEN MoveReady(pushed, ripe, seq)
                                     ELSE UpdateDelayedWakeUp(pushed)]
      IN
      /\ queue' = qs
      /\ seq' = seq + Len(ripe)
      /\ ScheduleWork(RequestsDoWork(qs))

HopTask ==
  /\ At("hop")
  /\ ScheduleDelayedWorkTask
  /\ AfterTask
  /\ UNCHANGED <<reload, deferred, keep_running, quit_pending, starvation, poster, unposted,
                 started, ops, now>>

\* The selector's observer schedules a DoWork for a queue that is enabled with work to do.
SetQueueEnabled_KeepsWakeUp(q, enabled) ==
  LET r == UpdateCrossThreadQueueStateLocked([queue[q] EXCEPT !.enabled = enabled])
      qs == [queue EXCEPT ![q] = IF enabled THEN r ELSE UpdateDelayedWakeUp(r)]
  IN
  /\ Op /\ queue[q].enabled # enabled
  /\ queue' = qs
  /\ ScheduleWork(RequestsDoWork(qs) \/ (enabled /\ HasTaskToRunImmediately(r) /\ ~QueueBlocked(r)))
  /\ UNCHANGED <<reload, seq, main_only, poster, unposted, started, now>>
SetQueueEnabled(q, enabled) ==
  LET r == UpdateCrossThreadQueueStateLocked(UpdateDelayedWakeUp([queue[q] EXCEPT !.enabled = enabled]))
      qs == [queue EXCEPT ![q] = r]
  IN
  /\ Op /\ queue[q].enabled # enabled
  /\ queue' = qs
  /\ ScheduleWork(RequestsDoWork(qs) \/ (enabled /\ HasTaskToRunImmediately(r) /\ ~QueueBlocked(r)))
  /\ UNCHANGED <<reload, seq, main_only, poster, unposted, started, now>>

\* WorkQueue::InsertFence() and RemoveFence(): whether the front task of w gets unblocked.
FrontUnblocked(r, w, fence) ==
  r.enabled /\ w # <<>> /\ BlockedByFence(w, r.fence) /\ ~BlockedByFence(w, fence)

SetFence(q, fence, incoming_unblocked) ==
  LET r == queue[q]
      unblocked == \/ FrontUnblocked(r, r.work, fence) \/ FrontUnblocked(r, r.delayed_work, fence)
                   \/ incoming_unblocked
  IN
  /\ queue' = [queue EXCEPT ![q] = UpdateCrossThreadQueueStateLocked([r EXCEPT !.fence = fence])]
  /\ ScheduleWork(r.enabled /\ unblocked)

InsertFence(q, blocking) ==
  LET r == queue[q]
      fence == IF blocking THEN kBlockingFence ELSE seq + 1
  IN
  /\ Op
  /\ SetFence(q, fence, /\ r.fence # kNone /\ r.fence < fence /\ r.incoming # <<>>
                        /\ r.incoming[1].order > r.fence /\ r.incoming[1].order < fence)
  /\ seq' = IF blocking THEN seq ELSE seq + 1
  /\ UNCHANGED <<reload, main_only, poster, unposted, started, now>>

RemoveFence(q) ==
  LET r == queue[q] IN
  /\ Op /\ r.fence # kNone
  /\ SetFence(q, kNone, r.incoming # <<>> /\ r.incoming[1].order > r.fence)
  /\ UNCHANGED <<reload, seq, main_only, poster, unposted, started, now>>

Tick ==
  /\ now < MaxTime
  /\ now' = now + 1
  /\ UNCHANGED <<duplicator, queue, reload, seq, main_only, poster, unposted, started, ops>>

(***************************************************************************)
(* The specification.                                                      *)
(***************************************************************************)
Init ==
  /\ state_ = {} /\ event_ = FALSE
  /\ queue = [q \in Queues |-> NewQueue] /\ reload = {} /\ seq = kBlockingFence
  /\ deferred = NoneDeferred /\ stack = <<>>
  /\ keep_running = TRUE /\ quit_pending = FALSE /\ task_execution_allowed = TRUE
  /\ starvation = 0
  /\ poster = [p \in Posters |-> "idle"]
  /\ unposted = Tasks /\ started = <<>> /\ ops = 0 /\ now = 1

PosterSteps(p) == RequestWork(p) \/ SignalPump(p)

\* The steps the main thread takes on its own, the calls that tasks may make left aside.
LoopSteps ==
  \/ DoSomeWork \/ SelectNextTask \/ \E q \in Queues : ReloadEmptyImmediateWorkQueue(q)
  \/ MoveReadyDelayedTasksToWorkQueues \/ PickTask \/ EndTask \/ HopTask
  \/ WillCheckForMoreWork \/ DelayTillNextTask \/ DelayTillNextTaskReloaded \/ DidCheck
  \/ PumpWakesUp \/ ExitRun

MainSteps == BindToCurrentThread \/ LoopSteps \/ \E b \in OutermostUntilIdle : Run(b)

Calls ==
  \/ \E allowed, until_idle \in BOOLEAN : RunNested(allowed, until_idle)
  \/ \E allowed \in BOOLEAN : SetTaskExecutionAllowed(allowed)
  \/ \E k \in 1..Len(stack) : Quit(k) \/ QuitWhenIdle(k)
  \/ \E q \in Queues, b \in BOOLEAN : SetQueueEnabled(q, b) \/ InsertFence(q, b)
  \/ \E q \in Queues : RemoveFence(q)

Next ==
  \/ \E p \in Posters : PosterSteps(p) \/ \E t \in FromOthers : PostTask(p, t)
  \/ MainSteps \/ Calls \/ \E t \in FromMain : MainPostTask(t)
  \/ Tick

Spec == Init /\ [][Next]_vars

\* The threads go on running, a task ends, the owner of the thread binds it and calls Run()
\* again after it returned, time passes.
FairSpec ==
  /\ Spec
  /\ \A p \in Posters : WF_vars(PosterSteps(p))
  /\ WF_vars(MainSteps)
  /\ WF_vars(Tick)

(***************************************************************************)
(* Properties.                                                             *)
(***************************************************************************)
PCs == {"start", "select", "select_reload", "pick", "run", "hop", "will_check", "check",
        "check_reload", "did_check", "wait", "exit"}
EntryOK(e) == e.task \in Tasks /\ e.hop \in BOOLEAN /\ e.order \in 2..seq /\ e.time \in Nat

\* Every piece of the scheduler's state has its type.
TypeOK ==
  /\ state_ \subseteq {"InDoWork", "PendingDoWork", "Bound"} /\ event_ \in BOOLEAN
  /\ \A q \in Queues :
       /\ \A e \in UNION {Range(queue[q].incoming), Range(queue[q].work),
                          Range(queue[q].delayed_work), queue[q].delayed_incoming} : EntryOK(e)
       /\ queue[q].fence \in {kNone} \cup kBlockingFence..seq
  /\ reload \subseteq Queues
  /\ \A k \in 1..Len(stack) : stack[k].pc \in PCs /\ (k < Len(stack) => stack[k].pc = "run")
  /\ \A p \in Posters : poster[p] \in {"idle", "request", "signal"}

CouldTaskRun(r, e) == r.enabled /\ (r.fence = kNone \/ e.order < r.fence)
Runnable(q) ==
  \E e \in UNION {Range(queue[q].incoming), Range(queue[q].work), Range(queue[q].delayed_work)} :
    CouldTaskRun(queue[q], e)

\* A request that will still reach the pump.
WakeUpOnItsWay ==
  \/ event_
  \/ \E p \in Posters : poster[p] = "signal" \/ (poster[p] = "request" /\ state_ = kIdle)

\* While the pump sleeps (MessagePumpDefault::Run()), a pending flag in state_ stands for a
\* signal that is there or on its way. Where the sleeping run loop may run tasks, no task is
\* forgotten although WorkDeduplicator swallows most requests: a signal is there or on its way
\* if one could run, and a delayed task has its wake-up. A nested Run() of Type::kDefault may
\* run none: it sleeps with tasks queued until it is told to quit, and swallows the requests
\* made for them (DoWorkImpl() returns TimeDelta::Max() at once).
NoLostWork ==
  At("wait") =>
    /\ "PendingDoWork" \in state_ => event_ \/ \E p \in Posters : poster[p] = "signal"
    /\ task_execution_allowed =>
         /\ (\E q \in Queues : Runnable(q)) => WakeUpOnItsWay
         /\ \A q \in Queues : \A e \in queue[q].delayed_incoming :
              queue[q].enabled => Top.timed /\ NextRunTime(queue) <= e.time

\* The DCHECKs that only an empty immediate work queue is reloaded (task_queue_impl.cc:462,
\* work_queue.cc:155), and what they rest on: immediate_work_queue_empty, read by other
\* threads, is what the main thread's queue is.
ReloadsOnlyEmptyQueues ==
  /\ \A q \in Queues : queue[q].work_empty = (queue[q].work = <<>>)
  /\ Reloading => \A q \in Top.callbacks : queue[q].work = <<>>
  /\ \A q \in reload : queue[q].work = <<>>

\* DCHECKs of work_queue.cc:71,100,131 and the selector's assumption: enqueue orders increase
\* along the delayed work queue, and from the front of the immediate one to the back of the
\* incoming queue, deferring included.
Increasing(s) == \A i, j \in 1..Len(s) : i < j => s[i].order < s[j].order
EnqueueOrdersIncrease ==
  \A q \in Queues :
    Increasing(queue[q].work \o queue[q].incoming) /\ Increasing(queue[q].delayed_work)

\* The places that have the task t: it was not posted yet, is in a line of its queue, is
\* delayed, is carried by a hop, or was started.
Lines(q) ==
  <<queue[q].incoming, queue[q].work, queue[q].delayed_work,
    deferred[q].immediate, deferred[q].delayed>>
PlacesOf(t, s) == {k \in 1..Len(s) : s[k].task = t}
EntriesOf(t, S) == {e \in S : e.task = t}
InUnposted(t) == {<<"unposted">> : x \in unposted \cap {t}}
InLines(t) ==
  UNION {UNION {{<<"line", q, i, k>> : k \in PlacesOf(t, Lines(q)[i])} : i \in 1..5} : q \in Queues}
InDelayed(t) ==
  UNION {{<<"delayed", q, e>> : e \in EntriesOf(t, queue[q].delayed_incoming)} : q \in Queues}
InHops(t) == UNION {{<<"hop", k, e>> : e \in EntriesOf(t, stack[k].hop)} : k \in 1..Len(stack)}
InStarted(t) == {<<"started", k>> : k \in PlacesOf(t, started)}
Where(t) == InUnposted(t) \cup InLines(t) \cup InDelayed(t) \cup InHops(t) \cup InStarted(t)

\* No task is lost or duplicated on its way, which reloads that replace a work queue, hops of
\* delayed tasks, deferrals and requeues could do: each is in one place, and starts once.
TasksConserved == \A t \in Tasks : Cardinality(Where(t)) = 1

\* The work queues and what other threads read of them stay consistent through reloads,
\* deferrals and requeues, and lose no task.
QueuesConsistent ==
  TypeOK /\ ReloadsOnlyEmptyQueues /\ EnqueueOrdersIncrease /\ TasksConserved

\* Tasks of a queue that were posted without delay start in the order they were posted. Only
\* a task that a nested run loop starts may overtake one, and only a non-nestable one.
StartsInPostingOrder ==
  \A i, j \in 1..Len(started) :
    LET first == started[i]
        second == started[j]
    IN (/\ i < j /\ QueueOf[first.task] = QueueOf[second.task]
        /\ Delay[first.task] = 0 /\ Delay[second.task] = 0)
         => first.order < second.order \/ (first.nested /\ second.task \in NonNestable)

Started(t) == \E i \in 1..Len(started) : started[i].task = t
HeldBack(t) == LET r == queue[QueueOf[t]] IN ~r.enabled \/ r.fence # kNone

\* A nested Run() that is not told to quit keeps a task from starting while it sleeps: it may
\* run no task, or the task is non-nestable and was deferred.
Deferred(t) ==
  LET d == deferred[QueueOf[t]] IN
  \E e \in Range(d.immediate) \cup Range(d.delayed) : e.task = t
KeptByNestedRun(t) ==
  NestingDepth > 0 /\ At("wait") /\ (~task_execution_allowed \/ Deferred(t))

\* A posted task is started unless its queue is disabled or has a fence, or a nested Run()
\* sleeps for good on top of the run loop that would start it.
PostedTasksStart ==
  \A t \in Tasks : t \notin unposted ~> (Started(t) \/ HeldBack(t) \/ KeptByNestedRun(t))

ToldToQuit(k) == stack[k].until_idle \/ stack[k].quit_called

\* A run loop returns from RunUntilIdle(), or after Quit() or QuitWhenIdle(), as soon as those
\* nested in it do: if all of them are told to quit as well, it returns or a task nests
\* another Run().
RunLoopsReturn ==
  \A k \in 1..MaxDepth :
    (Len(stack) >= k /\ \A j \in k..Len(stack) : ToldToQuit(j))
      ~> (Len(stack) < k \/ \E j \in (k + 1)..Len(stack) : ~ToldToQuit(j))
=============================================================================
