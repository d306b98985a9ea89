--------------------------- MODULE JobTaskSource ---------------------------
(***************************************************************************)
(* base/task/thread_pool/job_task_source.cc and base/task/post_job.cc: one *)
(* Job, the workers of the pool that run it, and the thread that owns its  *)
(* JobHandle, joins it and contributes to it.                              *)
(*                                                                         *)
(* The thread group is abstracted to its lock and the job's entries in its *)
(* priority queue; an idle worker may always take a queued job.  Each      *)
(* access to state_, join_flag_ or the callbacks of the user is a step of  *)
(* its own: WillRunTask() reads the max concurrency before its CAS, and    *)
(* the joining thread reads state_ before the max concurrency.             *)
(*                                                                         *)
(* external: the worker task is the canonical loop of post_job.h (take an  *)
(* item, process it, until ShouldYield() or none is left) and the max      *)
(* concurrency callback returns the number of incomplete items, at most    *)
(* Cap.                                                                    *)
(*                                                                         *)
(* A definition named D_Suffix is a faulty variant of the definition D     *)
(* that follows it; no specification uses it.                              *)
(***************************************************************************)
EXTENDS Integers, FiniteSets

CONSTANTS
  Workers,     \* the threads of the pool
  Joiner,      \* the thread that owns the JobHandle
  Items,       \* work items when the job is posted
  Cap,         \* the largest value of the max concurrency callback
  MaxItems,    \* bound on the items ever added to the job
  MaxYields,   \* bound on the yields the thread group asks for
  MaxSpurious, \* bound on the spurious wake-ups of a condition variable
  Ops,         \* the operations of JobHandle the owner may end with
  CanShutdown, \* the pool may start its shutdown
  None

Threads == Workers \cup {Joiner}

ASSUME ThreadsAssumption ==
  IsFiniteSet(Workers) /\ Joiner \notin Workers /\ None \notin Threads

ASSUME BoundsAssumption ==
  /\ Items \in Nat /\ Cap \in Nat /\ MaxItems \in Nat
  /\ MaxYields \in Nat /\ MaxSpurious \in Nat
  /\ Items <= MaxItems
  /\ Ops \subseteq {"join", "cancel", "cancel_detach", "detach"}
  /\ CanShutdown \in BOOLEAN

VARIABLES
  count, canceled, \* state_: worker count and kCanceledMask
  join_flag,       \* join_flag_
  lock,            \* TaskSource::lock_: the thread that holds it
  group_lock,      \* ThreadGroup::lock_: the thread that holds it
  entries,         \* nodes of the priority queue that hold this job
  registered,      \* RegisteredTaskSources of this job
  shutdown,        \* the TaskTracker's HasShutdownStarted()
  pc,              \* per thread, its place in the code
  ret,             \* per thread, where NotifyConcurrencyIncrease() returns to
  seen,            \* per thread, the number it read last: the max concurrency
                   \* in WillRunTask(), else a worker count
  seen_canceled,   \* the joining thread's copy of the canceled bit
  how,             \* the operation the owner ended with
  todo, work,      \* external: items not taken yet, items not completed yet
  added,           \* items added so far
  yields, spurious \* yields asked for and spurious wake-ups so far

jobVars == <<count, canceled, join_flag>>
poolVars == <<entries, registered>>
userVars == <<todo, work, added>>
envVars == <<yields, spurious>>
vars == <<jobVars, lock, group_lock, poolVars, shutdown, pc, ret, seen,
          seen_canceled, how, userVars, envVars>>

\* The places in worker_task_, common to workers and to the joining thread.
TaskPcs == {"task", "yield", "take", "process"}
NotifyPcs == {"notify", "register", "push"}
WorkerPcs == {"idle", "admit", "before", "clear", "did", "did_max",
              "reenqueue"} \cup TaskPcs \cup NotifyPcs
JoinPcs == {"open", "will_join", "load", "load_max", "wait_lock", "wait_max",
            "waiting", "remove", "joined", "gone"} \cup TaskPcs \cup NotifyPcs

TypeOK ==
  /\ count \in Nat /\ canceled \in BOOLEAN
  /\ join_flag \in {"kNotWaiting", "kWaitingForWorkerToYield",
                    "kWaitingForWorkerToSignal"}
  /\ lock \in Threads \cup {None} /\ group_lock \in Workers \cup {None}
  /\ entries \in Nat /\ registered \in Nat
  /\ shutdown \in BOOLEAN
  /\ pc \in [Threads -> WorkerPcs \cup JoinPcs]
  /\ \A w \in Workers : pc[w] \in WorkerPcs
  /\ pc[Joiner] \in JoinPcs
  /\ ret \in [Threads -> {"open", "process"}]
  /\ seen \in [Threads -> Nat]
  /\ seen_canceled \in BOOLEAN
  /\ how \in {"none", "join", "cancel", "cancel_detach", "detach"}
  /\ todo \in 0..MaxItems /\ work \in 0..MaxItems
  /\ added \in 0..MaxItems
  /\ yields \in 0..MaxYields /\ spurious \in 0..MaxSpurious

\* PostJob() builds the source and is about to enqueue it.
Init ==
  /\ count = 0 /\ canceled = FALSE /\ join_flag = "kNotWaiting"
  /\ lock = None /\ group_lock = None
  /\ entries = 0 /\ registered = 0
  /\ shutdown = FALSE
  /\ pc = [t \in Threads |-> IF t = Joiner THEN "register" ELSE "idle"]
  /\ ret = [t \in Threads |-> IF t = Joiner THEN "open" ELSE "process"]
  /\ seen = [t \in Threads |-> 0] /\ seen_canceled = FALSE
  /\ how = "none"
  /\ todo = Items /\ work = Items /\ added = Items
  /\ yields = 0 /\ spurious = 0

Go(t, place) == pc' = [pc EXCEPT ![t] = place]

\* external: max_concurrency_callback_.
GetMaxConcurrency == IF work < Cap THEN work ELSE Cap

-----------------------------------------------------------------------------
(* Taking the job from the priority queue: ThreadGroup::GetWork() and      *)
(* TakeRegisteredTaskSource(), with group_lock held from the first step to *)
(* the second.                                                             *)

\* WillRunTask() reads the max concurrency.
GetWork(w) ==
  /\ pc[w] = "idle" /\ entries > 0 /\ group_lock = None
  /\ seen' = [seen EXCEPT ![w] = GetMaxConcurrency]
  /\ group_lock' = w
  /\ Go(w, "admit")
  /\ UNCHANGED <<jobVars, lock, poolVars, shutdown, ret, seen_canceled, how,
                 userVars, envVars>>

RunStatus_OffByOne(w) ==
  IF canceled \/ count > seen[w] THEN "kDisallowed"
  ELSE IF seen[w] <= count + 1 THEN "kAllowedSaturated"
                               ELSE "kAllowedNotSaturated"

\* The outcome of TryIncrementWorkerCountFromWorkerRelease(max_concurrency).
RunStatus(w) ==
  IF canceled \/ count >= seen[w] THEN "kDisallowed"
  ELSE IF seen[w] = count + 1 THEN "kAllowedSaturated"
                              ELSE "kAllowedNotSaturated"

Disallowed_Counted(w) ==
  /\ RunStatus(w) = "kDisallowed"
  /\ entries' = entries - 1 /\ registered' = registered - 1
  /\ Go(w, "idle")
  /\ count' = count + 1

Disallowed(w) ==
  /\ RunStatus(w) = "kDisallowed"
  /\ entries' = entries - 1 /\ registered' = registered - 1
  /\ Go(w, "idle")
  /\ UNCHANGED count

\* The popped registration goes with the worker.
AllowedSaturated(w) ==
  /\ RunStatus(w) = "kAllowedSaturated"
  /\ count' = count + 1
  /\ entries' = entries - 1
  /\ Go(w, "before")
  /\ UNCHANGED registered

\* The job stays queued with a registration of its own, unless shutdown has
\* started and RegisterTaskSource() refuses it.
AllowedNotSaturated(w) ==
  /\ RunStatus(w) = "kAllowedNotSaturated"
  /\ count' = count + 1
  /\ IF shutdown THEN entries' = entries - 1 /\ UNCHANGED registered
                 ELSE registered' = registered + 1 /\ UNCHANGED entries
  /\ Go(w, "before")

TakeRegisteredTaskSource(w) ==
  /\ pc[w] = "admit"
  /\ Disallowed(w) \/ AllowedSaturated(w) \/ AllowedNotSaturated(w)
  /\ group_lock' = None
  /\ UNCHANGED <<canceled, join_flag, lock, shutdown, ret, seen,
                 seen_canceled, how, userVars, envVars>>

-----------------------------------------------------------------------------
(* TaskTracker::RunAndPopNextTask() of a SKIP_ON_SHUTDOWN job.             *)

BeforeRunTask(w) ==
  /\ pc[w] = "before"
  /\ Go(w, IF shutdown THEN "clear" ELSE "task")
  /\ UNCHANGED <<jobVars, lock, group_lock, poolVars, shutdown, ret, seen,
                 seen_canceled, how, userVars, envVars>>

\* The task was refused: Clear(), under lock_, cancels the job.
Clear(w) ==
  /\ pc[w] = "clear" /\ lock = None
  /\ canceled' = TRUE
  /\ Go(w, "did")
  /\ UNCHANGED <<count, join_flag, lock, group_lock, poolVars, shutdown, ret,
                 seen, seen_canceled, how, userVars, envVars>>

-----------------------------------------------------------------------------
(* external: worker_task_ as post_job.h documents it, and the JobDelegate  *)
(* calls it makes.                                                         *)

TaskReturns(t) == IF t = Joiner THEN "load" ELSE "did"

\* JobDelegate::ShouldYield() first asks join_flag_: fetch_and() leaves a
\* waiting joining thread marked as waiting for a signal only.
ShouldWorkerYield(t) ==
  /\ pc[t] = "task"
  /\ join_flag' = IF join_flag = "kNotWaiting" THEN "kNotWaiting"
                                               ELSE "kWaitingForWorkerToSignal"
  /\ Go(t, IF join_flag = "kWaitingForWorkerToYield" THEN TaskReturns(t)
                                                     ELSE "yield")
  /\ UNCHANGED <<count, canceled, lock, group_lock, poolVars, shutdown, ret,
                 seen, seen_canceled, how, userVars, envVars>>

\* Then it asks whether the job is canceled and, for a worker of the pool,
\* whether the thread group wants its thread.
ShouldYield(t) ==
  /\ pc[t] = "yield"
  /\ \/ canceled /\ Go(t, TaskReturns(t)) /\ UNCHANGED yields
     \/ /\ ~canceled /\ t # Joiner /\ yields < MaxYields
        /\ yields' = yields + 1
        /\ Go(t, TaskReturns(t))
     \/ ~canceled /\ Go(t, "take") /\ UNCHANGED yields
  /\ UNCHANGED <<jobVars, lock, group_lock, poolVars, shutdown, ret, seen,
                 seen_canceled, how, userVars, spurious>>

TakeWorkItem(t) ==
  /\ pc[t] = "take"
  /\ IF todo > 0 THEN todo' = todo - 1 /\ Go(t, "process")
                 ELSE UNCHANGED todo /\ Go(t, TaskReturns(t))
  /\ UNCHANGED <<jobVars, lock, group_lock, poolVars, shutdown, ret, seen,
                 seen_canceled, how, work, added, envVars>>

ProcessWork(t) ==
  /\ pc[t] = "process"
  /\ work' = work - 1
  /\ Go(t, "task")
  /\ UNCHANGED <<jobVars, lock, group_lock, poolVars, shutdown, ret, seen,
                 seen_canceled, how, todo, added, envVars>>

-----------------------------------------------------------------------------
(* More work, and NotifyConcurrencyIncrease(), from the worker task or     *)
(* from the owner of the handle.                                           *)

AddWork(t) ==
  /\ pc[t] \in {"process", "open"} /\ added < MaxItems
  /\ todo' = todo + 1 /\ work' = work + 1 /\ added' = added + 1
  /\ ret' = [ret EXCEPT ![t] = pc[t]]
  /\ Go(t, "notify")
  /\ UNCHANGED <<jobVars, lock, group_lock, poolVars, shutdown, seen,
                 seen_canceled, how, envVars>>

Waiting == pc[Joiner] = "waiting"

\* join_flag_.ShouldWorkerSignal(), the signal it asks for, and t's next place.
SignalAndGo_NoSignal(t, place) ==
  /\ join_flag' = "kNotWaiting"
  /\ Go(t, place)

SignalAndGo(t, place) ==
  /\ join_flag' = "kNotWaiting"
  /\ pc' = [pc EXCEPT ![t] = place,
                      ![Joiner] = IF join_flag # "kNotWaiting" /\ Waiting
                                  THEN "wait_lock"
                                  ELSE IF t = Joiner THEN place ELSE @]

Notify_NoEnqueue(t) ==
  /\ pc[t] = "notify" /\ lock = None
  /\ SignalAndGo(t, ret[t])
  /\ UNCHANGED <<count, canceled, lock, group_lock, poolVars, shutdown, ret,
                 seen, seen_canceled, how, userVars, envVars>>

Notify(t) ==
  /\ pc[t] = "notify" /\ lock = None
  /\ SignalAndGo(t, "register")
  /\ UNCHANGED <<count, canceled, lock, group_lock, poolVars, shutdown, ret,
                 seen, seen_canceled, how, userVars, envVars>>

\* EnqueueJobTaskSource(): RegisterTaskSource() refuses once shutdown started;
\* when it refuses the first enqueue, PostJob() returns a null JobHandle.
RegisterTaskSource(t) ==
  /\ pc[t] = "register"
  /\ IF shutdown
     THEN /\ Go(t, IF ret[t] = "open" /\ added = Items THEN "gone" ELSE ret[t])
          /\ UNCHANGED registered
     ELSE registered' = registered + 1 /\ Go(t, "push")
  /\ UNCHANGED <<jobVars, lock, group_lock, entries, shutdown, ret, seen,
                 seen_canceled, how, userVars, envVars>>

PushOrRelease_Twice ==
  /\ entries' = entries + 1 /\ UNCHANGED registered

\* Push(), or the registration is released when the heap handle is valid.
PushOrRelease ==
  IF entries > 0 THEN registered' = registered - 1 /\ UNCHANGED entries
                 ELSE entries' = entries + 1 /\ UNCHANGED registered

PushTaskSourceAndWakeUpWorkers(t) ==
  /\ pc[t] = "push" /\ lock = None /\ group_lock = None
  /\ PushOrRelease
  /\ Go(t, ret[t])
  /\ UNCHANGED <<jobVars, lock, group_lock, shutdown, ret, seen,
                 seen_canceled, how, userVars, envVars>>

-----------------------------------------------------------------------------
(* JobTaskSource::DidProcessTask(), under lock_, and the re-enqueue.       *)

DidProcessTask(w) ==
  /\ pc[w] = "did" /\ lock = None
  /\ count' = count - 1
  /\ seen' = [seen EXCEPT ![w] = count]
  /\ SignalAndGo(w, IF canceled THEN "idle" ELSE "did_max")
  /\ IF canceled THEN registered' = registered - 1 /\ UNCHANGED lock
                 ELSE lock' = w /\ UNCHANGED registered
  /\ UNCHANGED <<canceled, group_lock, entries, shutdown, ret, seen_canceled,
                 how, userVars, envVars>>

MustReenqueue(w) == seen[w] <= GetMaxConcurrency

DidProcessTaskMax(w) ==
  /\ pc[w] = "did_max"
  /\ lock' = None
  /\ IF MustReenqueue(w)
     THEN Go(w, "reenqueue") /\ UNCHANGED registered
     ELSE Go(w, "idle") /\ registered' = registered - 1
  /\ UNCHANGED <<jobVars, group_lock, entries, shutdown, ret, seen,
                 seen_canceled, how, userVars, envVars>>

ReEnqueueTaskSource(w) ==
  /\ pc[w] = "reenqueue" /\ lock = None /\ group_lock = None
  /\ PushOrRelease
  /\ Go(w, "idle")
  /\ UNCHANGED <<jobVars, lock, group_lock, shutdown, ret, seen,
                 seen_canceled, how, userVars, envVars>>

-----------------------------------------------------------------------------
(* The owner of the JobHandle.                                             *)

EndWith(op) ==
  /\ pc[Joiner] = "open" /\ op \in Ops
  /\ how' = op
  /\ canceled' = (canceled \/ op \in {"cancel", "cancel_detach"})
  /\ Go(Joiner, IF op \in {"join", "cancel"} THEN "will_join" ELSE "gone")
  /\ UNCHANGED <<count, join_flag, lock, group_lock, poolVars, shutdown, ret,
                 seen, seen_canceled, userVars, envVars>>

\* WillJoin(): the joining thread counts as a worker from now on.  `seen` is
\* the count with this thread, so the test of RunJoinTask() serves here too.
WillJoin ==
  /\ pc[Joiner] = "will_join" /\ lock = None
  /\ count' = count + 1
  /\ seen' = [seen EXCEPT ![Joiner] = count + 1] /\ seen_canceled' = canceled
  /\ Go(Joiner, "load_max")
  /\ UNCHANGED <<canceled, join_flag, lock, group_lock, poolVars, shutdown,
                 ret, how, userVars, envVars>>

\* RunJoinTask(), after worker_task_ returned.
RunJoinTaskLoad ==
  /\ pc[Joiner] = "load"
  /\ seen' = [seen EXCEPT ![Joiner] = count] /\ seen_canceled' = canceled
  /\ Go(Joiner, "load_max")
  /\ UNCHANGED <<jobVars, lock, group_lock, poolVars, shutdown, ret, how,
                 userVars, envVars>>

MayContribute == ~seen_canceled /\ seen[Joiner] <= GetMaxConcurrency

RunJoinTaskMax ==
  /\ pc[Joiner] = "load_max"
  /\ Go(Joiner, IF MayContribute THEN "task" ELSE "wait_lock")
  /\ UNCHANGED <<jobVars, lock, group_lock, poolVars, shutdown, ret, seen,
                 seen_canceled, how, userVars, envVars>>

\* WaitForParticipationOpportunity() takes lock_ (again, after a Wait()).
WaitLoad ==
  /\ pc[Joiner] = "wait_lock" /\ lock = None
  /\ lock' = Joiner
  /\ seen' = [seen EXCEPT ![Joiner] = count] /\ seen_canceled' = canceled
  /\ Go(Joiner, "wait_max")
  /\ UNCHANGED <<jobVars, group_lock, poolVars, shutdown, ret, how, userVars,
                 envVars>>

OnlyJoinerLeft_TooEarly == seen[Joiner] <= 2

OnlyJoinerLeft == seen[Joiner] = 1

WaitMax ==
  /\ pc[Joiner] = "wait_max"
  /\ lock' = None
  /\ \/ /\ MayContribute
        /\ Go(Joiner, "task")
        /\ UNCHANGED <<count, join_flag>>
     \/ /\ ~MayContribute /\ OnlyJoinerLeft
        /\ count' = count - 1
        /\ Go(Joiner, "remove")
        /\ UNCHANGED join_flag
     \/ /\ ~MayContribute /\ ~OnlyJoinerLeft
        /\ join_flag' = "kWaitingForWorkerToYield"
        /\ Go(Joiner, "waiting")
        /\ UNCHANGED count
  /\ UNCHANGED <<canceled, group_lock, poolVars, shutdown, ret, seen,
                 seen_canceled, how, userVars, envVars>>

\* external: a condition variable may wake up without a signal.
SpuriousWakeUp ==
  /\ Waiting
  /\ spurious < MaxSpurious /\ spurious' = spurious + 1
  /\ Go(Joiner, "wait_lock")
  /\ UNCHANGED <<jobVars, lock, group_lock, poolVars, shutdown, ret, seen,
                 seen_canceled, how, userVars, yields>>

RemoveJobTaskSource ==
  /\ pc[Joiner] = "remove" /\ lock = None /\ group_lock = None
  /\ entries' = 0 /\ registered' = registered - entries
  /\ Go(Joiner, "joined")
  /\ UNCHANGED <<jobVars, lock, group_lock, shutdown, ret, seen,
                 seen_canceled, how, userVars, envVars>>

StartShutdown ==
  /\ CanShutdown /\ ~shutdown
  /\ shutdown' = TRUE
  /\ UNCHANGED <<jobVars, lock, group_lock, poolVars, pc, ret, seen,
                 seen_canceled, how, userVars, envVars>>

-----------------------------------------------------------------------------

\* A step of the code of thread t that its scheduling makes happen.
WorkerStep(w) ==
  \/ GetWork(w) \/ TakeRegisteredTaskSource(w) \/ BeforeRunTask(w) \/ Clear(w)
  \/ DidProcessTask(w) \/ DidProcessTaskMax(w) \/ ReEnqueueTaskSource(w)

TaskStep(t) ==
  \/ ShouldWorkerYield(t) \/ ShouldYield(t) \/ TakeWorkItem(t) \/ ProcessWork(t)
  \/ Notify(t) \/ RegisterTaskSource(t) \/ PushTaskSourceAndWakeUpWorkers(t)

JoinStep ==
  WillJoin \/ RunJoinTaskLoad \/ RunJoinTaskMax \/ WaitLoad \/ WaitMax
  \/ RemoveJobTaskSource

Next ==
  \/ \E w \in Workers : WorkerStep(w)
  \/ \E t \in Threads : TaskStep(t) \/ AddWork(t)
  \/ \E op \in Ops : EndWith(op)
  \/ JoinStep
  \/ SpuriousWakeUp
  \/ StartShutdown

Spec == Init /\ [][Next]_vars

\* Every thread that can go on does; the owner may keep its handle forever.
FairSpec ==
  /\ Spec
  /\ \A w \in Workers : WF_vars(WorkerStep(w) \/ TaskStep(w))
  /\ WF_vars(JoinStep \/ TaskStep(Joiner))

-----------------------------------------------------------------------------
(* Properties.                                                             *)

InTask(t) == pc[t] \in TaskPcs \/ (pc[t] \in NotifyPcs /\ ret[t] = "process")

\* Threads that state_ counts.
Counted ==
  {w \in Workers : InTask(w) \/ pc[w] \in {"before", "clear", "did"}}
  \cup (IF InTask(Joiner) \/ pc[Joiner] \in {"load", "load_max", "wait_lock",
                                             "wait_max", "waiting"}
        THEN {Joiner} ELSE {})

\* Whatever the order of the CAS of WillRunTask(), the joining thread's
\* unconditional increment and its waits, no more threads run worker_task_ at
\* once than the max concurrency callback ever allowed.
RunningWithinCap == Cardinality({t \in Threads : InTask(t)}) <= Cap

\* The worker count of state_ is the number of admitted workers plus the
\* joining thread, so the joining thread's test for being the last is exact and
\* ~JobTaskSource()'s DCHECK that the count is 0 holds.
CountIsExact == TypeOK /\ count = Cardinality(Counted)

Holding == {w \in Workers : w \in Counted \/ pc[w] \in {"did_max", "reenqueue"}}
Pushing == {t \in Threads : pc[t] = "push"}

\* The job has at most one node in the priority queue although every worker may
\* re-enqueue it and every NotifyConcurrencyIncrease() enqueues it, and each
\* registration with the TaskTracker belongs to that node, to a worker or to an
\* enqueue in progress (a leaked one would block FlushForTesting() forever).
RegistrationsBalanced ==
  /\ entries <= 1
  /\ registered = entries + Cardinality(Holding) + Cardinality(Pushing)

\* JobHandle::Cancel() returns only when every worker has left worker_task_,
\* and none enters it later.
CancelWaits ==
  how = "cancel" /\ pc[Joiner] \in {"remove", "joined"} =>
    \A w \in Workers : ~InTask(w)

\* JobHandle::Join(): it "Doesn't return until all tasks have completed".
JoinWaits ==
  how = "join" /\ pc[Joiner] = "joined" => \A w \in Workers : ~InTask(w)

\* A started Join() or Cancel() returns: the joining thread never misses the
\* signal of the last worker, of a yield, or of a concurrency increase.
JoinReturns == pc[Joiner] = "will_join" ~> pc[Joiner] = "joined"

\* All work that is added and notified gets done, with or without a joining
\* thread, unless the job is canceled or the pool shuts down: the job is
\* never left out of the queue while items remain and workers are idle.
WorkCompletes == []<>(work = 0 \/ canceled \/ shutdown)
=============================================================================
