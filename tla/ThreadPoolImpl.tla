--------------------------- MODULE ThreadPoolImpl ---------------------------
(***************************************************************************)
(* base/task/thread_pool/thread_pool_impl.cc with the parts of             *)
(* thread_group.cc, priority_queue.cc, task_source.cc and sequence.cc that *)
(* move a task source between threads: posting to a Sequence, enqueueing a *)
(* Job, taking a source from the priority queue of a thread group, running *)
(* it, re-enqueueing it, and UpdatePriority(), which may move it to the    *)
(* queue of the other thread group at any of these moments.                *)
(*                                                                         *)
(* A Transaction is the lock of a task source: it is held across several   *)
(* steps.  What a thread does under ThreadGroup::lock_ is one step.  How   *)
(* many workers a group keeps awake is ThreadGroupImpl's matter: here an   *)
(* idle worker of a group may always look for work.  How the worker count  *)
(* of a Job is kept is JobTaskSource's: here WillRunTask() is one step.    *)
(* Sources of equal priority may come first in any order.                  *)
(*                                                                         *)
(* A definition named D_Suffix is a faulty variant of the definition D     *)
(* that follows it; no specification uses it.                              *)
(***************************************************************************)
EXTENDS Integers, FiniteSets, Sequences

CONSTANTS
  Workers,      \* the threads of both groups
  GroupOf,      \* [Workers -> Groups]
  Posters,      \* threads that post tasks and add work to the jobs
  Owners,       \* threads that update priorities, cancel and join the jobs
  SequenceIds,  \* task sources that are Sequences
  JobIds,       \* task sources that are JobTaskSources
  PreferBackground, \* those with ThreadPolicy::PREFER_BACKGROUND
  InitialPriority, \* [Sources -> Priorities]
  Cap,          \* external: the largest value of max_concurrency_callback_
  MaxPosts,     \* bound on the tasks and work items added
  MaxUpdates,   \* bound on the calls of UpdatePriority()
  CanShutdown,  \* the shutdown may start
  None

Groups == {"background", "foreground"}
Sources == SequenceIds \cup JobIds
Clients == Posters \cup Owners
Threads == Workers \cup Clients
Priorities == 0..2 \* BEST_EFFORT, USER_VISIBLE, USER_BLOCKING

ASSUME ThreadsAssumption ==
  /\ IsFiniteSet(Threads)
  /\ GroupOf \in [Workers -> Groups] /\ Workers \cap Clients = {}
  /\ SequenceIds \cap JobIds = {} /\ PreferBackground \subseteq Sources
  /\ InitialPriority \in [Sources -> Priorities]
  /\ None \notin Threads \cup Sources

ASSUME BoundsAssumption ==
  /\ Cap \in Nat \ {0} /\ MaxPosts \in Nat /\ MaxUpdates \in Nat
  /\ CanShutdown \in BOOLEAN

VARIABLES
  queue,      \* per group and source, the sort keys (priorities) of the
              \* nodes of priority_queue_ that hold the source
  handle,     \* sources with a valid heap_handle_
  priority,   \* traits_.priority() and priority_racy_
  lock,       \* TaskSource::lock_: the thread with the Transaction
  registered, \* per source, its RegisteredTaskSources
  pending,    \* per source, tasks in queue_ or incomplete items of the job
  count,      \* per source, has_worker_ or the worker count of the job
  canceled,   \* jobs with kCanceledMask
  joined,     \* jobs whose JobHandle is gone
  shutdown,   \* BeforeQueueTaskSource() and BeforeRunTask() refuse
  pc,         \* per thread, its place in the code
  src,        \* per thread, the source it deals with
  posts, updates \* what the bounds count

queueVars == <<queue, handle, registered>>
sourceVars == <<priority, pending, count, canceled, joined>>
envVars == <<shutdown, posts, updates>>
vars == <<queueVars, sourceVars, lock, pc, src, envVars>>

\* Every variable has its type; a Sequence has at most one worker.
TypeOK ==
  /\ queue \in [Groups -> [Sources -> Seq(Priorities)]]
  /\ handle \subseteq Sources
  /\ priority \in [Sources -> Priorities]
  /\ lock \in [Sources -> Threads \cup {None}]
  /\ registered \in [Sources -> Nat] /\ pending \in [Sources -> Nat]
  /\ count \in [Sources -> Nat] /\ \A s \in SequenceIds : count[s] <= 1
  /\ canceled \subseteq JobIds /\ joined \subseteq JobIds
  /\ shutdown \in BOOLEAN
  /\ pc \in [Threads -> {"idle", "enqueue", "push", "sort", "remove", "join",
                         "run", "task", "did", "reenqueue", "locked"}]
  /\ src \in [Threads -> Sources \cup {None}]
  /\ posts \in 0..MaxPosts /\ updates \in 0..MaxUpdates

\* The Sequences are empty; the jobs were posted without work, and their first
\* entries in the queue discarded.
Init ==
  /\ queue = [g \in Groups |-> [s \in Sources |-> <<>>]]
  /\ handle = {}
  /\ priority = InitialPriority
  /\ lock = [s \in Sources |-> None]
  /\ registered = [s \in Sources |-> 0]
  /\ pending = [s \in Sources |-> 0] /\ count = [s \in Sources |-> 0]
  /\ canceled = {} /\ joined = {}
  /\ shutdown = FALSE
  /\ pc = [t \in Threads |-> "idle"] /\ src = [t \in Threads |-> None]
  /\ posts = 0 /\ updates = 0

-----------------------------------------------------------------------------
(* Helpers.                                                                *)

GroupFor(s, p) ==
  IF p = 0 /\ s \in PreferBackground THEN "background" ELSE "foreground"

\* GetThreadGroupForTraits() of the source's current traits.
GetThreadGroupForTraits(s) == GroupFor(s, priority[s])

\* Thread t goes to `place`; it forgets its source when it becomes idle.
Go(t, place) ==
  /\ pc' = [pc EXCEPT ![t] = place]
  /\ src' = [src EXCEPT ![t] = IF place = "idle" THEN None ELSE @]

Begin(t, s, place) ==
  /\ pc' = [pc EXCEPT ![t] = place]
  /\ src' = [src EXCEPT ![t] = s]

\* Thread t takes and gives back the Transaction of s.
Acquire(t, s) == lock[s] = None /\ lock' = [lock EXCEPT ![s] = t]
Release(s) == lock' = [lock EXCEPT ![s] = None]
Unlocked(s) == lock[s] = None

Register(s) == registered' = [registered EXCEPT ![s] = @ + 1]
Unregister(s) == registered' = [registered EXCEPT ![s] = @ - 1]

\* PriorityQueue::Push() and PopTaskSource() of group g; the node of s is the
\* one its heap handle names.
Insert(g, s) ==
  /\ queue' = [queue EXCEPT ![g][s] = Append(@, priority[s])]
  /\ handle' = handle \cup {s}

Queued(g) == {s \in Sources : queue[g][s] # <<>>}

Key(g, s) == queue[g][s][1]

\* queue and handle after the sources of D left group g.
Pop(g, D) ==
  /\ queue' = [queue EXCEPT ![g] = [s \in Sources |->
                 IF s \in D THEN Tail(@[s]) ELSE @[s]]]
  /\ handle' = handle \ D

\* PushTaskSourceAndWakeUpWorkersImpl() and the case of
\* ReEnqueueTaskSourceLockRequired() for the worker's own group: only the first
\* of several concurrent enqueues succeeds.
PushOrRelease(g, s) ==
  IF s \in handle THEN Unregister(s) /\ UNCHANGED <<queue, handle>>
                  ELSE Insert(g, s) /\ UNCHANGED registered

-----------------------------------------------------------------------------
(* The clients.                                                            *)

\* external: max_concurrency_callback_.
GetMaxConcurrency(s) == IF pending[s] < Cap THEN pending[s] ELSE Cap

WillPushTask(s) == pending[s] = 0 /\ count[s] = 0

\* The first step of PostTaskWithSequenceNow(), under the Transaction it opens.
PostTaskWithSequenceNow(c, s) ==
  /\ pc[c] = "idle" /\ s \in SequenceIds /\ posts < MaxPosts
  /\ posts' = posts + 1
  /\ IF ~WillPushTask(s)
     THEN /\ Unlocked(s)
          /\ pending' = [pending EXCEPT ![s] = @ + 1]
          /\ UNCHANGED <<registered, lock, pc, src>>
     ELSE IF shutdown
     THEN Unlocked(s) /\ UNCHANGED <<pending, registered, lock, pc, src>>
     ELSE /\ Acquire(c, s) /\ Register(s)
          /\ pending' = [pending EXCEPT ![s] = @ + 1]
          /\ Begin(c, s, "push")
  /\ UNCHANGED <<queue, handle, priority, count, canceled, joined, shutdown,
                 updates>>

\* PostJob() or NotifyConcurrencyIncrease() after work was added to the job;
\* the first step of EnqueueJobTaskSource().
NotifyConcurrencyIncrease(c, s) ==
  /\ pc[c] = "idle" /\ s \in JobIds \ joined /\ posts < MaxPosts
  /\ posts' = posts + 1
  /\ pending' = [pending EXCEPT ![s] = @ + 1]
  /\ IF shutdown THEN UNCHANGED <<registered, pc, src>>
                 ELSE Register(s) /\ Begin(c, s, "enqueue")
  /\ UNCHANGED <<queue, handle, priority, count, canceled, joined, lock,
                 shutdown, updates>>

EnqueueJobTaskSource(c) ==
  /\ pc[c] = "enqueue"
  /\ Acquire(c, src[c])
  /\ Go(c, "push")
  /\ UNCHANGED <<queueVars, sourceVars, envVars>>

\* The Transaction is moved into the call and ends with it.
PushTaskSourceAndWakeUpWorkers(t) ==
  /\ pc[t] = "push"
  /\ PushOrRelease(GetThreadGroupForTraits(src[t]), src[t])
  /\ Release(src[t])
  /\ Go(t, "idle")
  /\ UNCHANGED <<sourceVars, envVars>>

\* UpdatePriority() up to the call of a thread group.
UpdatePriority(c, s, p) ==
  /\ pc[c] = "idle" /\ s \notin joined /\ updates < MaxUpdates
  /\ p # priority[s]
  /\ updates' = updates + 1
  /\ Acquire(c, s)
  /\ priority' = [priority EXCEPT ![s] = p]
  /\ Begin(c, s, IF GroupFor(s, p) = GetThreadGroupForTraits(s) THEN "sort"
                                                                 ELSE "remove")
  /\ UNCHANGED <<queueVars, pending, count, canceled, joined, shutdown, posts>>

UpdateSortKey(c) ==
  LET s == src[c]
      g == GetThreadGroupForTraits(s)
  IN  /\ pc[c] = "sort"
      /\ IF Queued(g) # {} /\ s \in handle
         THEN queue' = [queue EXCEPT ![g][s] = <<priority[s]>>]
         ELSE UNCHANGED queue
      /\ Release(s)
      /\ Go(c, "idle")
      /\ UNCHANGED <<handle, registered, sourceVars, envVars>>

OtherGroup(g) == CHOOSE h \in Groups : h # g

RemoveTaskSource_Drops(c) ==
  LET s == src[c]
      g == OtherGroup(GetThreadGroupForTraits(s))
  IN  /\ pc[c] = "remove"
      /\ IF Queued(g) # {} /\ s \in handle THEN Pop(g, {s}) /\ Unregister(s)
                                           ELSE UNCHANGED queueVars
      /\ Release(s) /\ Go(c, "idle")
      /\ UNCHANGED <<sourceVars, envVars>>

\* UpdatePriority() takes the source from the group it was in; the Transaction
\* stays open until it is in the other group.
RemoveTaskSource(c) ==
  LET s == src[c]
      g == OtherGroup(GetThreadGroupForTraits(s))
  IN  /\ pc[c] = "remove"
      /\ IF Queued(g) # {} /\ s \in handle
         THEN Pop(g, {s}) /\ Go(c, "push") /\ UNCHANGED lock
         ELSE Release(s) /\ Go(c, "idle") /\ UNCHANGED <<queue, handle>>
      /\ UNCHANGED <<registered, sourceVars, envVars>>

\* JobHandle::Cancel().
Cancel(c, s) ==
  /\ pc[c] = "idle" /\ s \in JobIds \ (canceled \cup joined)
  /\ canceled' = canceled \cup {s}
  /\ UNCHANGED <<queueVars, priority, pending, count, joined, lock, pc, src,
                 envVars>>

\* JobHandle::Join() found that no worker is left; it calls
\* RemoveJobTaskSource(), which opens a Transaction.  Nobody else uses the
\* JobHandle any more.
JoinEnds(c, s) ==
  /\ pc[c] = "idle" /\ s \in JobIds \ joined
  /\ count[s] = 0 /\ (pending[s] = 0 \/ s \in canceled)
  /\ \A d \in Clients : src[d] # s
  /\ Acquire(c, s)
  /\ joined' = joined \cup {s}
  /\ Begin(c, s, "join")
  /\ UNCHANGED <<queueVars, priority, pending, count, canceled, envVars>>

RemoveJobTaskSource(c) ==
  LET s == src[c]
      g == GetThreadGroupForTraits(s)
  IN  /\ pc[c] = "join"
      /\ IF Queued(g) # {} /\ s \in handle THEN Pop(g, {s}) /\ Unregister(s)
                                           ELSE UNCHANGED queueVars
      /\ Release(s)
      /\ Go(c, "idle")
      /\ UNCHANGED <<sourceVars, envVars>>

StartShutdown ==
  /\ CanShutdown /\ ~shutdown
  /\ shutdown' = TRUE
  /\ UNCHANGED <<queueVars, sourceVars, lock, pc, src, posts, updates>>

-----------------------------------------------------------------------------
(* The workers.                                                            *)

\* WillRunTask() answers kDisallowed, kAllowedSaturated or kAllowedNotSaturated.
Disallowed(s) ==
  s \in JobIds /\ (s \in canceled \/ count[s] >= GetMaxConcurrency(s))
Saturated(s) == s \in SequenceIds \/ count[s] + 1 = GetMaxConcurrency(s)

\* TakeRegisteredTaskSource() for the last time, of s, after it discarded D: a
\* source that is not saturated stays in the queue with a registration of its
\* own.
TakeRegisteredTaskSource_Keeps(g, s, D) ==
  IF Saturated(s) \/ shutdown
  THEN /\ Pop(g, D \cup {s})
       /\ registered' = [d \in Sources |->
                           registered[d] - (IF d \in D THEN 1 ELSE 0)]
  ELSE /\ Pop(g, D)
       /\ registered' = [d \in Sources |->
                           registered[d] - (IF d \in D THEN 1 ELSE 0)]

TakeRegisteredTaskSource(g, s, D) ==
  IF Saturated(s) \/ shutdown
  THEN /\ Pop(g, D \cup {s})
       /\ registered' = [d \in Sources |->
                           registered[d] - (IF d \in D THEN 1 ELSE 0)]
  ELSE /\ Pop(g, D)
       /\ registered' = [d \in Sources |->
                           registered[d] - (IF d \in D THEN 1 ELSE 0)
                                         + (IF d = s THEN 1 ELSE 0)]

\* The loop of GetWork(): sources that may not run are discarded on the way to
\* the first one that may; none may be left.
GetWork(w) ==
  LET g == GroupOf[w] IN
  /\ pc[w] = "idle"
  /\ \E D \in SUBSET {s \in Queued(g) : Disallowed(s)} :
       LET rest == Queued(g) \ D
       IN  \/ /\ rest = {} /\ D # {}
              /\ Pop(g, D)
              /\ registered' = [d \in Sources |->
                                  registered[d] - (IF d \in D THEN 1 ELSE 0)]
              /\ UNCHANGED <<count, pc, src>>
           \/ \E s \in rest :
                /\ ~Disallowed(s)
                /\ \A r \in rest : Key(g, r) <= Key(g, s)
                /\ \A d \in D : Key(g, d) >= Key(g, s)
                /\ TakeRegisteredTaskSource(g, s, D)
                /\ count' = [count EXCEPT ![s] = @ + 1]
                /\ Begin(w, s, "run")
  /\ UNCHANGED <<priority, pending, canceled, joined, lock, envVars>>

\* RunAndPopNextTask() takes the task, or clears the source after the shutdown.
TakeTask(w) ==
  LET s == src[w] IN
  /\ pc[w] = "run" /\ Unlocked(s)
  /\ IF shutdown
     THEN IF s \in JobIds
          THEN canceled' = canceled \cup {s} /\ UNCHANGED pending
          ELSE pending' = [pending EXCEPT ![s] = 0] /\ UNCHANGED canceled
     ELSE /\ pending' = IF s \in JobIds THEN pending
                        ELSE [pending EXCEPT ![s] = @ - 1]
          /\ UNCHANGED canceled
  /\ Go(w, IF shutdown \/ s \in SequenceIds THEN "did" ELSE "task")
  /\ UNCHANGED <<queueVars, priority, count, joined, lock, envVars>>

\* ShouldYield() must be true of job s on worker w; it may also be when a source
\* of higher priority waits in the worker's group.
ShouldYield(w, s) == s \in canceled \/ GetThreadGroupForTraits(s) # GroupOf[w]
MayYield(w, s) ==
  ShouldYield(w, s) \/ \E r \in Queued(GroupOf[w]) :
                         Key(GroupOf[w], r) > priority[s]

\* external: the worker task processes an item, or returns.
ProcessItem(w) ==
  LET s == src[w] IN
  /\ pc[w] = "task" /\ ~ShouldYield(w, s) /\ pending[s] > 0
  /\ pending' = [pending EXCEPT ![s] = @ - 1]
  /\ UNCHANGED <<queueVars, priority, count, canceled, joined, lock, pc, src,
                 envVars>>

TaskReturns(w) ==
  /\ pc[w] = "task" /\ (MayYield(w, src[w]) \/ pending[src[w]] = 0)
  /\ Go(w, "did")
  /\ UNCHANGED <<queueVars, sourceVars, lock, envVars>>

\* TaskSource::DidProcessTask(): whether the source must be queued again.
MustBeQueued(s) ==
  IF s \in JobIds THEN s \notin canceled /\ count[s] <= GetMaxConcurrency(s)
                  ELSE pending[s] > 0

DidProcessTask(w) ==
  LET s == src[w] IN
  /\ pc[w] = "did" /\ Unlocked(s)
  /\ count' = [count EXCEPT ![s] = @ - 1]
  /\ IF MustBeQueued(s) THEN Go(w, "reenqueue") /\ UNCHANGED registered
                        ELSE Go(w, "idle") /\ Unregister(s)
  /\ UNCHANGED <<queue, handle, priority, pending, canceled, joined, lock,
                 envVars>>

\* The delegate's DidProcessTask(): the Transaction first, then the lock of the
\* worker's group.
BeginReenqueue(w) ==
  /\ pc[w] = "reenqueue"
  /\ Acquire(w, src[w])
  /\ Go(w, "locked")
  /\ UNCHANGED <<queueVars, sourceVars, envVars>>

ReEnqueueTaskSource_Here(w) ==
  LET s == src[w] IN
  /\ pc[w] = "locked"
  /\ PushOrRelease(GroupOf[w], s) /\ Release(s) /\ Go(w, "idle")
  /\ UNCHANGED <<sourceVars, envVars>>

\* A source of the other group is pushed by the ScopedReenqueueExecutor after
\* the lock of the group was released, still under the Transaction.
ReEnqueueTaskSource(w) ==
  LET s == src[w] IN
  /\ pc[w] = "locked"
  /\ IF GetThreadGroupForTraits(s) = GroupOf[w]
     THEN PushOrRelease(GroupOf[w], s) /\ Release(s) /\ Go(w, "idle")
     ELSE Go(w, "push") /\ UNCHANGED <<queueVars, lock>>
  /\ UNCHANGED <<sourceVars, envVars>>

-----------------------------------------------------------------------------

ClientStep(c) ==
  \/ EnqueueJobTaskSource(c) \/ PushTaskSourceAndWakeUpWorkers(c)
  \/ UpdateSortKey(c) \/ RemoveTaskSource(c) \/ RemoveJobTaskSource(c)

WorkerStep(w) ==
  \/ GetWork(w) \/ TakeTask(w) \/ ProcessItem(w) \/ TaskReturns(w)
  \/ DidProcessTask(w) \/ BeginReenqueue(w) \/ ReEnqueueTaskSource(w)
  \/ PushTaskSourceAndWakeUpWorkers(w)

Next ==
  \/ \E c \in Clients : ClientStep(c)
  \/ \E c \in Posters, s \in Sources :
       PostTaskWithSequenceNow(c, s) \/ NotifyConcurrencyIncrease(c, s)
  \/ \E c \in Owners, s \in Sources :
       \/ Cancel(c, s) \/ JoinEnds(c, s)
       \/ \E p \in Priorities : UpdatePriority(c, s, p)
  \/ \E w \in Workers : WorkerStep(w)
  \/ StartShutdown

Spec == Init /\ [][Next]_vars

\* Threads go on with their calls, a worker with work to do takes it (waking it
\* up is checked in ThreadGroupImpl), and tasks end.  Clients need not call.
FairSpec ==
  /\ Spec
  /\ \A c \in Clients : WF_vars(ClientStep(c))
  /\ \A w \in Workers : WF_vars(WorkerStep(w))

-----------------------------------------------------------------------------
(* Properties.                                                             *)

Nodes(s) == Len(queue["background"][s]) + Len(queue["foreground"][s])

\* PushTaskSourceAndWakeUpWorkersImpl()'s DCHECK_EQ and RemoveTaskSource()'s: a
\* source is in at most one queue, its heap handle is valid exactly then, and
\* outside of a Transaction it is in the group, and under the sort key, that
\* its traits ask for.  Otherwise container_.at(heap_handle) would index the
\* wrong heap.
QueuedWhereItBelongs ==
  /\ TypeOK
  /\ \A s \in Sources :
       /\ Nodes(s) = IF s \in handle THEN 1 ELSE 0
       /\ Unlocked(s) /\ Nodes(s) = 1 =>
            queue[GetThreadGroupForTraits(s)][s] = <<priority[s]>>

\* Threads that hold a RegisteredTaskSource of s.
Holders(s) ==
  {t \in Threads : src[t] = s /\ pc[t] \in {"enqueue", "push", "run", "task",
                                             "did", "reenqueue", "locked"}}

\* Every RegisteredTaskSource is in a queue or in the hands of one thread, also
\* when several workers re-enqueue a job that changed group.  A Sequence has
\* one exactly while it has tasks or a worker, and has tasks while it is queued
\* (GetSortKey()'s DCHECK): its tasks never run on two workers at once.
OwnedExactly ==
  /\ \A s \in Sources : registered[s] = Nodes(s) + Cardinality(Holders(s))
  /\ \A s \in SequenceIds :
       /\ registered[s] = IF pending[s] > 0 \/ count[s] > 0 THEN 1 ELSE 0
       /\ Nodes(s) > 0 => pending[s] > 0 /\ count[s] = 0

\* Whatever UpdatePriority() does meanwhile, the tasks of a Sequence and the
\* items of a job that is not canceled are processed, unless the shutdown
\* starts.
PendingWorkRuns ==
  \A s \in Sources :
    pending[s] > 0 ~> (pending[s] = 0 \/ s \in canceled \/ shutdown)
=============================================================================
