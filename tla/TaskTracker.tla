---------------------------- MODULE TaskTracker ----------------------------
(***************************************************************************)
(* base/task/thread_pool/task_tracker.cc with the parts of                 *)
(* thread_pool_impl.cc that drive it: posting, running and unregistering   *)
(* task sources, fences, the three-step shutdown and the two flushes.      *)
(*                                                                         *)
(* The thread group is abstracted to the set of its queued task sources:   *)
(* an idle worker takes any of them the policy lets run.  Every access to  *)
(* state_, num_incomplete_task_sources_, shutdown_event_ and flush_cv_ is  *)
(* a step of its own; what a thread does alone under TaskSource::lock_ is  *)
(* one step.  DCHECKs are not guards (a release build goes on): they are   *)
(* stated as properties.                                                   *)
(*                                                                         *)
(* A definition named D_Suffix is a faulty variant of the definition D     *)
(* that follows it; no specification uses it.                              *)
(***************************************************************************)
EXTENDS Integers, FiniteSets, TaskSequence

CONSTANTS
  Workers,        \* threads that run task sources
  Clients,        \* other threads that post
  Service,        \* the ServiceThread, which posts ripe delayed tasks
  Sources,        \* Sequences
  Behavior,       \* TaskShutdownBehavior of each source
  BestEffort,     \* the sources of priority BEST_EFFORT
  Flushers,       \* threads that call FlushForTesting()
  FlushesAsync,   \* some thread calls FlushAsyncForTesting()
  DisableBestEffort,  \* has_disable_best_effort_switch_
  MaxPosts,       \* bound on the tasks posted
  MaxFences,      \* bound on num_fences_
  MaxBEFences,    \* bound on num_best_effort_fences_
  None            \* a null pointer

Threads == Workers \cup Clients \cup {Service}

ASSUME ThreadsAssumption ==
  /\ IsFiniteSet(Workers) /\ IsFiniteSet(Clients) /\ IsFiniteSet(Sources)
  /\ Workers \cap Clients = {} /\ Service \notin Workers \cup Clients
  /\ Threads \cap Sources = {}
  /\ None \notin Threads \cup Sources

ASSUME BehaviorAssumption ==
  /\ Behavior \in [Sources -> {"BLOCK", "SKIP", "CONTINUE"}]
  /\ BestEffort \subseteq Sources
  /\ DisableBestEffort \in BOOLEAN /\ FlushesAsync \in BOOLEAN

ASSUME BoundsAssumption ==
  MaxPosts \in Nat /\ MaxFences \in Nat /\ MaxBEFences \in Nat

VARIABLES
  started,        \* State::bits_ & kShutdownHasStartedMask
  items,          \* State::bits_ >> kNumItemsBlockingShutdownBitOffset
  shutdown_event, \* shutdown_event_: null, not signaled or signaled
  incomplete,     \* num_incomplete_task_sources_
  policy,         \* can_run_policy_
  fences, best_effort_fences,  \* num_fences_, num_best_effort_fences_
  seq,            \* the Sequences
  lock,           \* TaskSource::lock_: the thread that holds it
  queued,         \* the sources in a priority queue of the pool
  delayed,        \* per source, tasks held by the DelayedTaskManager
  run,            \* per thread, its place in RunAndPopNextTask()
  cur,            \* per thread, the RegisteredTaskSource it runs
  post,           \* per thread, its place in PostTaskWithSequence[Now]()
  dst,            \* per thread, the source it posts to
  ripe,           \* per thread, the task it posts has a delayed_run_time
  ticket,         \* per thread, the RegisteredTaskSource of its post
  sub,            \* per thread, its place in the Decrement...() helpers
  main,           \* the thread of Shutdown() and of the fences
  flusher,        \* per flusher, its place in FlushForTesting()
  async,          \* the caller of FlushAsyncForTesting()
  callback,       \* flush_callback_for_testing_ is set
  posts,          \* tasks posted so far (bounded by MaxPosts)
  late            \* history: BLOCK sources registered when no item blocked
                  \* a started shutdown any more (not allowed by contract)

stateVars == <<started, items, shutdown_event>>
poolVars == <<policy, fences, best_effort_fences>>
srcVars == <<seq, lock, queued>>
runVars == <<run, cur>>
postVars == <<post, dst, ripe, ticket>>
flushVars == <<flusher, async, callback>>
vars == <<stateVars, incomplete, poolVars, srcVars, delayed, runVars, postVars,
          sub, main, flushVars, posts, late>>

Block(s) == Behavior[s] = "BLOCK"

RunPcs == {"client", "idle", "before", "take", "clear", "running", "did",
           "reenqueue"}
PostPcs == {"out", "check", "now", "recheck", "count", "push", "unlock"}
SubPcs == {"none", "dec", "signal", "unreg_dec", "unreg_signal", "incomplete",
           "flush", "callback"}
MainPcs == {"up", "stopped", "locked", "policy", "wait", "flush", "callback",
            "done"}

TypeOK ==
  /\ started \in BOOLEAN
  /\ items \in Nat
  /\ shutdown_event \in {"null", "reset", "signaled"}
  /\ incomplete \in Nat
  /\ policy \in {"kAll", "kForegroundOnly", "kNone"}
  /\ fences \in 0..MaxFences /\ best_effort_fences \in 0..MaxBEFences
  /\ seq \in [Sources -> [queue : Seq({"task"}), has_worker : BOOLEAN,
                          runner_refs : Int]]
  /\ lock \in [Sources -> Threads \cup {None}]
  /\ queued \subseteq Sources
  /\ delayed \in [Sources -> Nat]
  /\ run \in [Threads -> RunPcs]
  /\ cur \in [Threads -> Sources \cup {None}]
  /\ post \in [Threads -> PostPcs]
  /\ dst \in [Threads -> Sources \cup {None}]
  /\ ripe \in [Threads -> BOOLEAN]
  /\ ticket \in [Threads -> Sources \cup {None}]
  /\ sub \in [Threads -> SubPcs]
  /\ main \in MainPcs
  /\ flusher \in [Flushers -> {"out", "check", "waiting", "done"}]
  /\ async \in {"out", "set", "call", "done"}
  /\ callback \in {"null", "set", "run"}
  /\ posts \in 0..MaxPosts
  /\ late \subseteq Sources

Init ==
  /\ started = FALSE /\ items = 0 /\ shutdown_event = "null"
  /\ incomplete = 0
  /\ policy = IF DisableBestEffort THEN "kForegroundOnly" ELSE "kAll"
  /\ fences = 0 /\ best_effort_fences = 0
  /\ seq = [s \in Sources |-> EmptySequence]
  /\ lock = [s \in Sources |-> None]
  /\ queued = {}
  /\ delayed = [s \in Sources |-> 0]
  /\ run = [t \in Threads |-> IF t \in Workers THEN "idle" ELSE "client"]
  /\ cur = [t \in Threads |-> None]
  /\ post = [t \in Threads |-> "out"]
  /\ dst = [t \in Threads |-> None]
  /\ ripe = [t \in Threads |-> FALSE]
  /\ ticket = [t \in Threads |-> None]
  /\ sub = [t \in Threads |-> "none"]
  /\ main = "up"
  /\ flusher = [f \in Flushers |-> "out"]
  /\ async = "out" /\ callback = "null"
  /\ posts = 0
  /\ late = {}

(***************************************************************************)
(* Shared notions                                                          *)
(***************************************************************************)

\* shutdown_lock_ is held across two steps by StartShutdown() only.
ShutdownLockFree == main # "locked"

IsShutdownComplete == shutdown_event = "signaled"

\* Some thread found that shutdown has started and nothing blocks it: it has
\* signaled shutdown_event_ or is about to.
Decided ==
  \/ shutdown_event = "signaled"
  \/ main = "locked"
  \/ \E t \in Threads : sub[t] \in {"signal", "unreg_signal"}

\* The RegisteredTaskSources of the program, wherever they are.
Registered ==
  queued \cup {s \in Sources : \E t \in Threads : cur[t] = s \/ ticket[t] = s}

\* The thread runs a SKIP_ON_SHUTDOWN task that BeforeRunTask() allowed.
SkipRunning(t) ==
  cur[t] # None /\ Behavior[cur[t]] = "SKIP" /\ run[t] \in {"take", "running"}

\* What blocks shutdown: BLOCK_SHUTDOWN sources, running SKIP_ON_SHUTDOWN tasks
\* (comment of TaskTracker::State) and items that are not discounted yet.
Blockers ==
  {s \in Registered : Block(s)}
    \cup {t \in Threads : SkipRunning(t) \/ sub[t] \in {"dec", "unreg_dec"}}

CanRunPriority(s) ==
  \/ policy = "kAll"
  \/ policy = "kForegroundOnly" /\ s \notin BestEffort

(***************************************************************************)
(* Posting: ThreadPoolImpl::PostTaskWithSequence[Now]                      *)
(***************************************************************************)

\* A thread may post: a client at any time, a worker from a task.
MayPost(t) ==
  /\ post[t] = "out" /\ sub[t] = "none"
  /\ run[t] \in {"client", "running"}

\* PostTaskWithSequence() up to WillPostTask()'s read of state_: reject the
\* task, hand it to the DelayedTaskManager, or go on.
WillPostTask(t, s, is_delayed) ==
  /\ MayPost(t) /\ t # Service
  /\ posts < MaxPosts /\ posts' = posts + 1
  /\ IF started /\ (~Block(s) \/ is_delayed)
     THEN UNCHANGED <<postVars, delayed>>
     ELSE IF is_delayed
     THEN /\ delayed' = [delayed EXCEPT ![s] = @ + 1]
          /\ UNCHANGED postVars
     ELSE /\ post' = [post EXCEPT ![t] = IF started THEN "check" ELSE "now"]
          /\ dst' = [dst EXCEPT ![t] = s]
          /\ ripe' = [ripe EXCEPT ![t] = FALSE]
          /\ UNCHANGED <<ticket, delayed>>
  /\ UNCHANGED <<stateVars, incomplete, poolVars, srcVars, runVars, sub, main,
                 flushVars, late>>

\* WillPostTask()'s critical section, which only holds DCHECKs.
WillPostTaskCheck(t) ==
  /\ post[t] = "check" /\ ShutdownLockFree
  /\ post' = [post EXCEPT ![t] = "now"]
  /\ UNCHANGED <<stateVars, incomplete, poolVars, srcVars, delayed, runVars,
                 dst, ripe, ticket, sub, main, flushVars, posts, late>>

\* A delayed task is ripe: the service thread, until Shutdown() has stopped
\* it, or ProcessRipeDelayedTasksForTesting() on another thread posts it now.
PostRipeTask(t, s) ==
  /\ MayPost(t) /\ t \notin Workers
  /\ t = Service => main = "up"
  /\ delayed[s] > 0
  /\ delayed' = [delayed EXCEPT ![s] = @ - 1]
  /\ post' = [post EXCEPT ![t] = "now"]
  /\ dst' = [dst EXCEPT ![t] = s]
  /\ ripe' = [ripe EXCEPT ![t] = TRUE]
  /\ UNCHANGED <<stateVars, incomplete, poolVars, srcVars, runVars, ticket,
                 sub, main, flushVars, posts, late>>

\* PostTaskWithSequenceNow(): BeginTransaction(), WillPushTask() and, when the
\* Sequence should be queued, BeforeQueueTaskSource().
BeginPost(t) ==
  LET s == dst[t] IN
  /\ post[t] = "now" /\ lock[s] = None
  /\ IF ~WillPushTask(seq[s])
     THEN /\ post' = [post EXCEPT ![t] = "push"]
          /\ lock' = [lock EXCEPT ![s] = t]
          /\ UNCHANGED <<items, ticket, late>>
     ELSE IF Block(s)
     THEN /\ post' = [post EXCEPT ![t] = IF started THEN "recheck" ELSE "count"]
          /\ lock' = [lock EXCEPT ![s] = t]
          /\ items' = items + 1
          /\ ticket' = [ticket EXCEPT ![t] = s]
          /\ late' = IF Decided THEN late \cup {s} ELSE late
     ELSE IF started
     THEN /\ post' = [post EXCEPT ![t] = "out"]
          /\ UNCHANGED <<lock, items, ticket, late>>
     ELSE /\ post' = [post EXCEPT ![t] = "count"]
          /\ lock' = [lock EXCEPT ![s] = t]
          /\ ticket' = [ticket EXCEPT ![t] = s]
          /\ UNCHANGED <<items, late>>
  /\ UNCHANGED <<started, shutdown_event, incomplete, poolVars, seq, queued,
                 delayed, runVars, dst, ripe, sub, main, flushVars, posts>>

\* BeforeQueueTaskSource()'s critical section, which only holds DCHECKs.
BeforeQueueCheck(t) ==
  /\ post[t] = "recheck" /\ ShutdownLockFree
  /\ post' = [post EXCEPT ![t] = "count"]
  /\ UNCHANGED <<stateVars, incomplete, poolVars, srcVars, delayed, runVars,
                 dst, ripe, ticket, sub, main, flushVars, posts, late>>

\* RegisterTaskSource(): ++num_incomplete_task_sources_.
RegisterTaskSource(t) ==
  /\ post[t] = "count"
  /\ incomplete' = incomplete + 1
  /\ post' = [post EXCEPT ![t] = "push"]
  /\ UNCHANGED <<stateVars, poolVars, srcVars, delayed, runVars, dst, ripe,
                 ticket, sub, main, flushVars, posts, late>>

\* Where UnregisterTaskSource() begins for a source.
UnregisterPc_NoDiscount(s) == "incomplete"
UnregisterPc_DiscountAll(s) == "unreg_dec"
UnregisterPc_Leak(s) == IF Block(s) THEN "unreg_dec" ELSE "none"
UnregisterPc(s) == IF Block(s) THEN "unreg_dec" ELSE "incomplete"

\* WillPostTaskNow(), then PushTask() and PushTaskSourceAndWakeUpWorkers(); a
\* refused task leaves task_source to its destructor, which unregisters it
\* while the transaction still holds the lock.
FinishPost(t) ==
  LET s == dst[t] IN
  /\ post[t] = "push"
  /\ IF ripe[t] /\ started
     THEN /\ post' = [post EXCEPT ![t] = "unlock"]
          /\ IF ticket[t] = None
             THEN UNCHANGED <<sub, late>>
             ELSE /\ sub' = [sub EXCEPT ![t] = UnregisterPc(s)]
                  /\ late' = late \ {s}
          /\ ticket' = [ticket EXCEPT ![t] = None]
          /\ UNCHANGED srcVars
     ELSE /\ seq' = [seq EXCEPT ![s] = PushTask(@, "task")]
          /\ queued' = IF ticket[t] = None THEN queued ELSE queued \cup {s}
          /\ lock' = [lock EXCEPT ![s] = None]
          /\ ticket' = [ticket EXCEPT ![t] = None]
          /\ post' = [post EXCEPT ![t] = "out"]
          /\ UNCHANGED <<sub, late>>
  /\ UNCHANGED <<stateVars, incomplete, poolVars, delayed, runVars, dst, ripe,
                 main, flushVars, posts>>

\* The refused post's transaction is destroyed last.
EndTransaction(t) ==
  /\ post[t] = "unlock" /\ sub[t] = "none"
  /\ lock' = [lock EXCEPT ![dst[t]] = None]
  /\ post' = [post EXCEPT ![t] = "out"]
  /\ UNCHANGED <<stateVars, incomplete, poolVars, seq, queued, delayed,
                 runVars, dst, ripe, ticket, sub, main, flushVars, posts, late>>

(***************************************************************************)
(* Running: TaskTracker::RunAndPopNextTask                                 *)
(***************************************************************************)

\* ThreadGroupImpl::GetWork() and TakeRegisteredTaskSource() of a Sequence.
GetWork(t, s) ==
  /\ run[t] = "idle" /\ sub[t] = "none"
  /\ s \in queued /\ CanRunPriority(s)
  /\ queued' = queued \ {s}
  /\ seq' = [seq EXCEPT ![s] = WillRunTask(@)]
  /\ cur' = [cur EXCEPT ![t] = s]
  /\ run' = [run EXCEPT ![t] = "before"]
  /\ UNCHANGED <<stateVars, incomplete, poolVars, lock, delayed, postVars, sub,
                 main, flushVars, posts, late>>

\* BeforeRunTask()'s answer.
MayRun(s) == Block(s) \/ ~started

\* A SKIP_ON_SHUTDOWN item counted in vain is discounted again.
BeforeRunTask(t) ==
  LET s == cur[t]
      skip == Behavior[s] = "SKIP"
  IN
  /\ run[t] = "before"
  /\ items' = IF skip THEN items + 1 ELSE items
  /\ sub' = IF skip /\ ~MayRun(s) THEN [sub EXCEPT ![t] = "dec"] ELSE sub
  /\ run' = [run EXCEPT ![t] = IF MayRun(s) THEN "take" ELSE "clear"]
  /\ UNCHANGED <<started, shutdown_event, incomplete, poolVars, srcVars,
                 delayed, cur, postVars, main, flushVars, posts, late>>

\* TakeTask() or Clear() in a transaction; Clear()'s closure only deletes.
TakeOrClear(t) ==
  LET s == cur[t] IN
  /\ run[t] \in {"take", "clear"} /\ sub[t] = "none"
  /\ lock[s] = None
  /\ seq' = [seq EXCEPT ![s] = IF run[t] = "take" THEN TakeTask(@)
                                                  ELSE Clear(@)]
  /\ run' = [run EXCEPT ![t] = IF run[t] = "take" THEN "running" ELSE "did"]
  /\ UNCHANGED <<stateVars, incomplete, poolVars, lock, queued, delayed, cur,
                 postVars, sub, main, flushVars, posts, late>>

\* The task returns.
AfterRunTask(t) ==
  /\ run[t] = "running" /\ post[t] = "out" /\ sub[t] = "none"
  /\ run' = [run EXCEPT ![t] = "did"]
  /\ sub' = IF Behavior[cur[t]] = "SKIP" THEN [sub EXCEPT ![t] = "dec"] ELSE sub
  /\ UNCHANGED <<stateVars, incomplete, poolVars, srcVars, delayed, cur,
                 postVars, main, flushVars, posts, late>>

\* DidProcessTask(); a Sequence with nothing left is unregistered.
EndRun(t) ==
  LET s == cur[t] IN
  /\ run[t] = "did" /\ sub[t] = "none" /\ lock[s] = None
  /\ seq' = [seq EXCEPT ![s] = DidProcessTask(@)]
  /\ IF MustReenqueue(seq[s])
     THEN /\ run' = [run EXCEPT ![t] = "reenqueue"]
          /\ UNCHANGED <<cur, sub, late>>
     ELSE /\ run' = [run EXCEPT ![t] = "idle"]
          /\ sub' = [sub EXCEPT ![t] = UnregisterPc(s)]
          /\ cur' = [cur EXCEPT ![t] = None]
          /\ late' = late \ {s}
  /\ UNCHANGED <<stateVars, incomplete, poolVars, lock, queued, delayed,
                 postVars, main, flushVars, posts>>

\* ThreadGroupImpl's DidProcessTask(): ReEnqueueTaskSourceLockRequired().
ReEnqueue(t) ==
  LET s == cur[t] IN
  /\ run[t] = "reenqueue" /\ lock[s] = None
  /\ queued' = queued \cup {s}
  /\ cur' = [cur EXCEPT ![t] = None]
  /\ run' = [run EXCEPT ![t] = "idle"]
  /\ UNCHANGED <<stateVars, incomplete, poolVars, seq, lock, delayed, postVars,
                 sub, main, flushVars, posts, late>>

(***************************************************************************)
(* UnregisterTaskSource() and the Decrement...() helpers                   *)
(***************************************************************************)

\* State::DecrementNumItemsBlockingShutdown(): true when shutdown has started
\* and no item is left.
LastItem_OffByOne == started /\ items <= 2
LastItem == started /\ items = 1

\* TaskTracker::DecrementNumItemsBlockingShutdown() for a SKIP task ("dec")
\* or for a source being unregistered ("unreg_dec").
DecrementItems(t) ==
  /\ sub[t] \in {"dec", "unreg_dec"}
  /\ items' = items - 1
  /\ sub' = [sub EXCEPT ![t] =
               IF @ = "dec" THEN IF LastItem THEN "signal" ELSE "none"
               ELSE IF LastItem THEN "unreg_signal" ELSE "incomplete"]
  /\ UNCHANGED <<started, shutdown_event, incomplete, poolVars, srcVars,
                 delayed, runVars, postVars, main, flushVars, posts, late>>

\* shutdown_event_->Signal() under shutdown_lock_.
SignalShutdown(t) ==
  /\ sub[t] \in {"signal", "unreg_signal"} /\ ShutdownLockFree
  /\ shutdown_event' = "signaled"
  /\ sub' = [sub EXCEPT ![t] = IF @ = "signal" THEN "none" ELSE "incomplete"]
  /\ UNCHANGED <<started, items, incomplete, poolVars, srcVars, delayed,
                 runVars, postVars, main, flushVars, posts, late>>

\* fetch_sub() returned the value before.
LastIncomplete_NewValue == incomplete = 0
LastIncomplete == incomplete = 1

DecrementIncomplete(t) ==
  /\ sub[t] = "incomplete"
  /\ incomplete' = incomplete - 1
  /\ sub' = [sub EXCEPT ![t] = IF LastIncomplete THEN "flush" ELSE "none"]
  /\ UNCHANGED <<stateVars, poolVars, srcVars, delayed, runVars, postVars, main,
                 flushVars, posts, late>>

\* flush_cv_->Signal() wakes one waiting thread, if there is one.
SignalOneFlusher ==
  LET waiting == {f \in Flushers : flusher[f] = "waiting"} IN
  IF waiting = {} THEN flusher' = flusher
  ELSE \E f \in waiting : flusher' = [flusher EXCEPT ![f] = "check"]

SignalFlush(t) ==
  /\ sub[t] = "flush"
  /\ SignalOneFlusher
  /\ sub' = [sub EXCEPT ![t] = "callback"]
  /\ UNCHANGED <<stateVars, incomplete, poolVars, srcVars, delayed, runVars,
                 postVars, main, async, callback, posts, late>>

\* CallFlushCallbackForTesting(): a set callback is moved out and run.
CallFlushCallback == callback' = IF callback = "set" THEN "run" ELSE callback

EndUnregister(t) ==
  /\ sub[t] = "callback"
  /\ CallFlushCallback
  /\ sub' = [sub EXCEPT ![t] = "none"]
  /\ UNCHANGED <<stateVars, incomplete, poolVars, srcVars, delayed, runVars,
                 postVars, main, flusher, async, posts, late>>

(***************************************************************************)
(* ThreadPoolImpl: fences and Shutdown(), all on one sequence              *)
(***************************************************************************)

\* UpdateCanRunPolicy() for the values the counters and bits_ are read at.
CanRunPolicy_FencesOnly(f, b, has_started) ==
  IF f # 0 THEN "kNone"
  ELSE IF b = 0 /\ ~DisableBestEffort THEN "kAll" ELSE "kForegroundOnly"
CanRunPolicy(f, b, has_started) ==
  IF has_started \/ (f = 0 /\ b = 0 /\ ~DisableBestEffort) THEN "kAll"
  ELSE IF f # 0 THEN "kNone"
  ELSE "kForegroundOnly"

ChangeFences(f, b) ==
  /\ main = "up"
  /\ f \in 0..MaxFences /\ b \in 0..MaxBEFences
  /\ fences' = f /\ best_effort_fences' = b
  /\ policy' = CanRunPolicy(f, b, started)
  /\ UNCHANGED <<stateVars, incomplete, srcVars, delayed, runVars, postVars,
                 sub, main, flushVars, posts, late>>

BeginFence == ChangeFences(fences + 1, best_effort_fences)
EndFence == ChangeFences(fences - 1, best_effort_fences)
BeginBestEffortFence == ChangeFences(fences, best_effort_fences + 1)
EndBestEffortFence == ChangeFences(fences, best_effort_fences - 1)

\* service_thread_->Stop() joins the thread: its current post ends first.
StopServiceThread ==
  /\ main = "up" /\ post[Service] = "out" /\ sub[Service] = "none"
  /\ main' = "stopped"
  /\ UNCHANGED <<stateVars, incomplete, poolVars, srcVars, delayed, runVars,
                 postVars, sub, flushVars, posts, late>>

\* TaskTracker::StartShutdown(); it keeps shutdown_lock_ to signal at once
\* when nothing blocks shutdown.
StartShutdown_SignalAlways ==
  /\ main = "stopped"
  /\ shutdown_event' = "reset"
  /\ started' = TRUE
  /\ main' = "locked"
  /\ UNCHANGED <<items, incomplete, poolVars, srcVars, delayed, runVars,
                 postVars, sub, flushVars, posts, late>>
StartShutdown ==
  /\ main = "stopped"
  /\ shutdown_event' = "reset"
  /\ started' = TRUE
  /\ main' = IF items = 0 THEN "locked" ELSE "policy"
  /\ UNCHANGED <<items, incomplete, poolVars, srcVars, delayed, runVars,
                 postVars, sub, flushVars, posts, late>>

StartShutdownSignal ==
  /\ main = "locked"
  /\ shutdown_event' = "signaled"
  /\ main' = "policy"
  /\ UNCHANGED <<started, items, incomplete, poolVars, srcVars, delayed,
                 runVars, postVars, sub, flushVars, posts, late>>

UpdateCanRunPolicy ==
  /\ main = "policy"
  /\ policy' = CanRunPolicy(fences, best_effort_fences, started)
  /\ main' = "wait"
  /\ UNCHANGED <<stateVars, incomplete, fences, best_effort_fences, srcVars,
                 delayed, runVars, postVars, sub, flushVars, posts, late>>

\* CompleteShutdown(): wait, signal the flush, run the callback.
CompleteShutdown ==
  \/ /\ main = "wait" /\ IsShutdownComplete
     /\ main' = "flush"
     /\ UNCHANGED flushVars
  \/ /\ main = "flush"
     /\ SignalOneFlusher
     /\ main' = "callback"
     /\ UNCHANGED <<async, callback>>
  \/ /\ main = "callback"
     /\ CallFlushCallback
     /\ main' = "done"
     /\ UNCHANGED <<flusher, async>>

CompleteShutdownStep ==
  /\ CompleteShutdown
  /\ UNCHANGED <<stateVars, incomplete, poolVars, srcVars, delayed, runVars,
                 postVars, sub, posts, late>>

(***************************************************************************)
(* Flushing                                                                *)
(***************************************************************************)

NothingToFlush == incomplete = 0 \/ IsShutdownComplete

\* FlushForTesting(): the loop's test under flush_lock_, then return or wait.
FlushForTesting(f) ==
  /\ flusher[f] \in {"out", "check"} /\ (incomplete = 0 \/ ShutdownLockFree)
  /\ flusher' = [flusher EXCEPT ![f] = IF NothingToFlush THEN "done"
                                                         ELSE "waiting"]
  /\ UNCHANGED <<stateVars, incomplete, poolVars, srcVars, delayed, runVars,
                 postVars, sub, main, async, callback, posts, late>>

\* FlushAsyncForTesting(): set the callback, test, perhaps run it.
FlushAsync ==
  \/ /\ async = "out" /\ FlushesAsync
     /\ callback' = "set"
     /\ async' = "set"
  \/ /\ async = "set" /\ (incomplete = 0 \/ ShutdownLockFree)
     /\ async' = IF NothingToFlush THEN "call" ELSE "done"
     /\ UNCHANGED callback
  \/ /\ async = "call"
     /\ CallFlushCallback
     /\ async' = "done"

FlushAsyncStep ==
  /\ FlushAsync
  /\ UNCHANGED <<stateVars, incomplete, poolVars, srcVars, delayed, runVars,
                 postVars, sub, main, flusher, posts, late>>

-----------------------------------------------------------------------------

\* The steps a thread takes once it has begun something.
PostStep(t) ==
  \/ WillPostTaskCheck(t) \/ BeginPost(t) \/ BeforeQueueCheck(t)
  \/ RegisterTaskSource(t) \/ FinishPost(t) \/ EndTransaction(t)

SubStep(t) ==
  \/ DecrementItems(t) \/ SignalShutdown(t) \/ DecrementIncomplete(t)
  \/ SignalFlush(t) \/ EndUnregister(t)

RunStep(t) ==
  \/ \E s \in Sources : GetWork(t, s)
  \/ BeforeRunTask(t) \/ TakeOrClear(t) \/ AfterRunTask(t)
  \/ EndRun(t) \/ ReEnqueue(t)

\* Calls that the embedder may or may not make.
Call(t) ==
  \E s \in Sources :
    \/ \E is_delayed \in BOOLEAN : WillPostTask(t, s, is_delayed)
    \/ PostRipeTask(t, s)

FenceStep == BeginFence \/ EndFence \/ BeginBestEffortFence \/ EndBestEffortFence

ShutdownStep ==
  \/ StartShutdown \/ StartShutdownSignal \/ UpdateCanRunPolicy
  \/ CompleteShutdownStep

Next ==
  \/ \E t \in Threads : PostStep(t) \/ SubStep(t) \/ RunStep(t) \/ Call(t)
  \/ FenceStep \/ StopServiceThread \/ ShutdownStep
  \/ \E f \in Flushers : FlushForTesting(f)
  \/ FlushAsyncStep

Spec == Init /\ [][Next]_vars

\* Threads are scheduled, tasks return and a Shutdown() that was called goes on.
\* Nothing forces a post, a fence, a call of Shutdown() or a flush to begin.
FairSpec ==
  /\ Spec
  /\ \A t \in Threads :
       WF_vars(PostStep(t)) /\ WF_vars(SubStep(t)) /\ WF_vars(RunStep(t))
  /\ WF_vars(ShutdownStep)
  /\ \A f \in Flushers : WF_vars(flusher[f] = "check" /\ FlushForTesting(f))
  /\ WF_vars(async # "out" /\ FlushAsyncStep)

-----------------------------------------------------------------------------
(***************************************************************************)
(* Properties                                                              *)
(***************************************************************************)

\* The counter packed in State::bits_ is the number of things that block
\* shutdown, through every transient increment and undo.
ItemsCountBlockers == items = Cardinality(Blockers)

\* Once shutdown_event_ is signaled or a thread has committed to signal it, no
\* SKIP_ON_SHUTDOWN task runs, and the only BLOCK_SHUTDOWN sources left are
\* those posted when nothing blocked shutdown any more (the contract of
\* StartShutdown(): "isn't allowed").
ShutdownIsSafe ==
  Decided => /\ \A t \in Threads : ~SkipRunning(t)
             /\ {s \in Registered : Block(s)} \subseteq late

\* The thread itself keeps shutdown from completing.
BlocksShutdown(t) ==
  /\ run[t] = "running"
  /\ \/ Behavior[cur[t]] = "SKIP"
     \/ Block(cur[t]) /\ cur[t] \notin late

\* A task that blocks shutdown may post BLOCK_SHUTDOWN tasks whenever it likes:
\* the DCHECK(!shutdown_event_->IsSignaled()) of WillPostTask() and of
\* BeforeQueueTaskSource() holds for it, and so does BeforeRunTask()'s.
ShutdownDChecks ==
  \A t \in Threads :
    /\ post[t] \in {"check", "recheck"} =>
         /\ shutdown_event # "null"
         /\ BlocksShutdown(t) => shutdown_event # "signaled"
    /\ run[t] = "before" /\ Block(cur[t]) =>
         items > 0 /\ (IsShutdownComplete => cur[t] \in late)
    /\ sub[t] \in {"signal", "unreg_signal"} => shutdown_event # "null"

\* What owns the registration of a source.
Owners(s) ==
  {t \in Threads : cur[t] = s} \cup {t \in Threads : ticket[t] = s}
    \cup (IF s \in queued THEN {s} ELSE {})

\* A Sequence is queued at most once and run by at most one thread, never both;
\* one with a task is never forgotten, and one nobody owns holds no reference
\* on its task runner (PushTask()'s AddRef is matched exactly once).
SequenceOwnership ==
  \A s \in Sources :
    /\ Cardinality(Owners(s)) <= 1
    /\ seq[s].queue # <<>> => Owners(s) # {}
    /\ seq[s].has_worker <=> \E t \in Threads : cur[t] = s /\ run[t] # "reenqueue"
    /\ seq[s].runner_refs =
         IF seq[s].queue # <<>> \/ seq[s].has_worker THEN 1 ELSE 0

\* num_incomplete_task_sources_ counts the registered sources, up to a thread
\* that is between the registration and the count or between the last use and
\* the discount; so a flush never returns while a queued task is uncounted.
Counted ==
  {s \in Registered :
     ~\E t \in Threads : ticket[t] = s /\ post[t] \in {"recheck", "count"}}
    \cup {t \in Threads :
           sub[t] \in {"unreg_dec", "unreg_signal", "incomplete"}}
IncompleteCountsSources == incomplete = Cardinality(Counted)

\* Shutdown() returns once called, whatever fences are active.
ShutdownReturns == main = "stopped" ~> main = "done"

\* A FlushForTesting() that waits returns if the pool drains for good or
\* shutdown completes.
FlushReturns ==
  \A f \in Flushers :
    flusher[f] = "waiting" /\ (main = "done" \/ [](incomplete = 0))
      ~> flusher[f] = "done"

\* The FlushAsyncForTesting() callback runs once the pool is drained for good or
\* shutdown is complete.
FlushCallbackRuns ==
  callback = "set" /\ (main = "done" \/ [](incomplete = 0)) ~> callback = "run"

\* A flush of either kind ends once there is nothing left to wait for: the last
\* source to complete neither misses the waiting thread nor the callback.
FlushesEnd == FlushReturns /\ FlushCallbackRuns
=============================================================================
