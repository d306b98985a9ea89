-------------------------- MODULE TaskTrackerProofs --------------------------
(***************************************************************************)
(* Machine-checked proofs about TaskTracker: the inductive invariant       *)
(* IndInv, and from it the type invariant and the safety of shutdown, for  *)
(* any number of threads, sources, posts and fences.                       *)
(***************************************************************************)
EXTENDS TaskTracker, FiniteSetTheorems, TLAPS

SequenceType ==
  [queue : Seq({"task"}), has_worker : BOOLEAN, runner_refs : Int]

\* TypeOK without the sign of the two counters, which needs the accounting.
Types ==
  /\ started \in BOOLEAN
  /\ items \in Int
  /\ shutdown_event \in {"null", "reset", "signaled"}
  /\ incomplete \in Int
  /\ policy \in {"kAll", "kForegroundOnly", "kNone"}
  /\ fences \in 0..MaxFences /\ best_effort_fences \in 0..MaxBEFences
  /\ seq \in [Sources -> SequenceType]
  /\ lock \in [Sources -> Threads \cup {None}]
  /\ queued \subseteq Sources
  /\ delayed \in [Sources -> Nat]
  /\ run \in [Threads -> RunPcs]
  /\ cur \in [Threads -> Sources \cup {None}]
  /\ post \in [Threads -> PostPcs]
  /\ dst \in [Threads -> Sources \cup {None}]
  /\ ripe \in [Threads -> BOOLEAN]
  /\ ticket \in [Threads -> Sources \cup {None}]
  /\ sub \in [Threads -> SubPcs]
  /\ main \in MainPcs
  /\ flusher \in [Flushers -> {"out", "check", "waiting", "done"}]
  /\ async \in {"out", "set", "call", "done"}
  /\ callback \in {"null", "set", "run"}
  /\ posts \in 0..MaxPosts
  /\ late \subseteq Sources

\* How the places of one thread in run, post and sub go together.
Control ==
  \A t \in Threads :
    /\ t \in Workers <=> run[t] # "client"
    /\ cur[t] = None <=> run[t] \in {"idle", "client"}
    /\ ripe[t] => t \notin Workers
    /\ post[t] # "out" => dst[t] \in Sources /\ run[t] \in {"client", "running"}
    /\ post[t] \notin {"out", "unlock"} => sub[t] = "none"
    /\ run[t] \in {"before", "take", "running", "reenqueue"} => sub[t] = "none"
    /\ post[t] \in {"recheck", "count", "push", "unlock"} => lock[dst[t]] = t
    /\ post[t] \in {"recheck", "count"} => ticket[t] # None
    /\ ticket[t] # None =>
         ticket[t] = dst[t] /\ post[t] \in {"recheck", "count", "push"}

\* Each source has at most one owner.
Unique ==
  /\ \A t \in Threads : cur[t] \notin queued /\ ticket[t] \notin queued
  /\ \A t, u \in Threads :
       /\ cur[t] # None /\ cur[t] = cur[u] => t = u
       /\ ticket[t] # None /\ ticket[t] = ticket[u] => t = u
       /\ cur[t] # None => cur[t] # ticket[u]

\* What the owner of a source, or its absence, says of the Sequence.
Contents ==
  /\ \A s \in Sources : seq[s].runner_refs = IF WillPushTask(seq[s]) THEN 0 ELSE 1
  /\ \A s \in queued : seq[s].queue # <<>> /\ ~seq[s].has_worker
  /\ \A s \in Sources \ Registered : WillPushTask(seq[s])
  /\ \A t \in Threads :
       /\ ticket[t] # None => WillPushTask(seq[ticket[t]])
       /\ post[t] = "push" /\ ticket[t] = None => ~WillPushTask(seq[dst[t]])
       /\ run[t] \in {"before", "take"} => seq[cur[t]].queue # <<>>
       /\ run[t] \in {"before", "take", "clear", "running", "did"} =>
            seq[cur[t]].has_worker
       /\ run[t] = "reenqueue" =>
            seq[cur[t]].queue # <<>> /\ ~seq[cur[t]].has_worker

\* When shutdown_event_ exists.
Phase ==
  /\ started <=> main \notin {"up", "stopped"}
  /\ started <=> shutdown_event # "null"
  /\ \A t \in Threads :
       sub[t] \in {"signal", "unreg_signal"} \/ post[t] \in {"check", "recheck"}
         => started
  /\ main = "locked" => shutdown_event = "reset"

Accounting == ItemsCountBlockers /\ IncompleteCountsSources

IndInv ==
  Types /\ Control /\ Unique /\ Contents /\ Phase /\ Accounting /\ ShutdownIsSafe

-----------------------------------------------------------------------------
(***************************************************************************)
(* Sequences                                                               *)
(***************************************************************************)

\* The methods of Sequence map Sequences to Sequences; TakeTask() needs a task.
LEMMA SequenceMethods ==
  ASSUME NEW q \in SequenceType
  PROVE  /\ PushTask(q, "task") \in SequenceType
         /\ WillRunTask(q) \in SequenceType
         /\ q.queue # <<>> => TakeTask(q) \in SequenceType
         /\ DidProcessTask(q) \in SequenceType
         /\ Clear(q) \in SequenceType
<1>1. q.queue \in Seq({"task"}) /\ q.has_worker \in BOOLEAN /\ q.runner_refs \in Int
  BY DEF SequenceType
<1>2. Append(q.queue, "task") \in Seq({"task"})
  BY <1>1
<1>3. q.queue # <<>> => Tail(q.queue) \in Seq({"task"})
  BY <1>1
<1>4. <<>> \in Seq({"task"})
  OBVIOUS
<1>5. PushTask(q, "task") \in SequenceType
  <2> DEFINE r == IF WillPushTask(q) THEN q.runner_refs + 1 ELSE q.runner_refs
  <2>1. r \in Int
    BY <1>1
  <2>2. PushTask(q, "task") =
          [q EXCEPT !.queue = Append(q.queue, "task"), !.runner_refs = r]
    BY DEF PushTask
  <2> HIDE DEF r
  <2> QED
    BY <1>1, <1>2, <2>1, <2>2 DEF SequenceType
<1>6. WillRunTask(q) \in SequenceType
  BY <1>1 DEF SequenceType, WillRunTask
<1>7. q.queue # <<>> => TakeTask(q) \in SequenceType
  BY <1>1, <1>3 DEF SequenceType, TakeTask
<1>8. DidProcessTask(q) \in SequenceType
  <2> DEFINE r == IF MustReenqueue(q) THEN q.runner_refs ELSE q.runner_refs - 1
  <2>1. r \in Int
    BY <1>1
  <2>2. DidProcessTask(q) = [q EXCEPT !.has_worker = FALSE, !.runner_refs = r]
    BY DEF DidProcessTask
  <2> HIDE DEF r
  <2> QED
    BY <1>1, <2>1, <2>2 DEF SequenceType
<1>9. Clear(q) \in SequenceType
  <2> DEFINE r == IF q.queue # <<>> /\ ~q.has_worker THEN q.runner_refs - 1
                                                    ELSE q.runner_refs
  <2>1. r \in Int
    BY <1>1
  <2>2. Clear(q) = [q EXCEPT !.queue = <<>>, !.runner_refs = r]
    BY DEF Clear
  <2> HIDE DEF r
  <2> QED
    BY <1>1, <1>4, <2>1, <2>2 DEF SequenceType
<1> QED
  BY <1>5, <1>6, <1>7, <1>8, <1>9

\* Init satisfies the type part of the invariant.
LEMMA InitTypes == Init => Types
<1> SUFFICES ASSUME Init PROVE Types
  OBVIOUS
<1>1. EmptySequence \in SequenceType
  BY DEF EmptySequence, SequenceType
<1>2. policy \in {"kAll", "kForegroundOnly", "kNone"}
  BY DEF Init
<1>3. run \in [Threads -> RunPcs]
  BY DEF Init, RunPcs
<1>4. /\ fences \in 0..MaxFences /\ best_effort_fences \in 0..MaxBEFences
      /\ posts \in 0..MaxPosts
  BY BoundsAssumption DEF Init
<1>5. /\ seq \in [Sources -> SequenceType]
      /\ lock \in [Sources -> Threads \cup {None}]
      /\ delayed \in [Sources -> Nat]
  BY <1>1 DEF Init
<1>6. /\ cur \in [Threads -> Sources \cup {None}]
      /\ dst \in [Threads -> Sources \cup {None}]
      /\ ticket \in [Threads -> Sources \cup {None}]
      /\ ripe \in [Threads -> BOOLEAN]
      /\ post \in [Threads -> PostPcs] /\ sub \in [Threads -> SubPcs]
  BY DEF Init, PostPcs, SubPcs
<1>7. /\ flusher \in [Flushers -> {"out", "check", "waiting", "done"}]
      /\ main \in MainPcs
      /\ async \in {"out", "set", "call", "done"}
      /\ callback \in {"null", "set", "run"}
  BY DEF Init, MainPcs
<1>8. items \in Int /\ incomplete \in Int
  BY DEF Init
<1>9. /\ started \in BOOLEAN
      /\ shutdown_event \in {"null", "reset", "signaled"}
      /\ queued \subseteq Sources /\ late \subseteq Sources
  BY Zenon DEF Init
<1> QED
  BY <1>2, <1>3, <1>4, <1>5, <1>6, <1>7, <1>8, <1>9 DEF Types

\* Every step keeps the types.
LEMMA NextTypes == Types /\ Control /\ Contents /\ Next => Types'
<1> SUFFICES ASSUME Types, Control, Contents, Next PROVE Types'
  OBVIOUS
<1> USE DEF stateVars, poolVars, srcVars, runVars, postVars, flushVars
<1>1. ASSUME NEW t \in Threads, PostStep(t) PROVE Types'
  <2>1. CASE WillPostTaskCheck(t)
    BY <2>1 DEF WillPostTaskCheck, Types, PostPcs
  <2>2. CASE BeginPost(t)
    <3>1. dst[t] \in Sources
      BY <2>2 DEF BeginPost, Control
    <3> QED
      BY <2>2, <3>1 DEF BeginPost, Types, PostPcs
  <2>3. CASE BeforeQueueCheck(t)
    BY <2>3 DEF BeforeQueueCheck, Types, PostPcs
  <2>4. CASE RegisterTaskSource(t)
    BY <2>4 DEF RegisterTaskSource, Types, PostPcs
  <2>5. CASE FinishPost(t)
    <3>1. dst[t] \in Sources
      BY <2>5 DEF FinishPost, Control
    <3>2. PushTask(seq[dst[t]], "task") \in SequenceType
      BY <3>1, SequenceMethods DEF Types
    <3> QED
      BY <2>5, <3>1, <3>2 DEF FinishPost, Types, PostPcs, SubPcs, UnregisterPc
  <2>6. CASE EndTransaction(t)
    BY <2>6 DEF EndTransaction, Types, PostPcs, Control
  <2> QED
    BY <1>1, <2>1, <2>2, <2>3, <2>4, <2>5, <2>6 DEF PostStep
<1>2. ASSUME NEW t \in Threads, SubStep(t) PROVE Types'
  <2>1. CASE DecrementItems(t)
    BY <2>1 DEF DecrementItems, Types, SubPcs
  <2>2. CASE SignalShutdown(t)
    BY <2>2 DEF SignalShutdown, Types, SubPcs
  <2>3. CASE DecrementIncomplete(t)
    BY <2>3 DEF DecrementIncomplete, Types, SubPcs
  <2>4. CASE SignalFlush(t)
    BY <2>4 DEF SignalFlush, SignalOneFlusher, Types, SubPcs
  <2>5. CASE EndUnregister(t)
    BY <2>5 DEF EndUnregister, CallFlushCallback, Types, SubPcs
  <2> QED
    BY <1>2, <2>1, <2>2, <2>3, <2>4, <2>5 DEF SubStep
<1>3. ASSUME NEW t \in Threads, RunStep(t) PROVE Types'
  <2>1. CASE \E s \in Sources : GetWork(t, s)
    BY <2>1, SequenceMethods DEF GetWork, Types, RunPcs
  <2>2. CASE BeforeRunTask(t)
    BY <2>2 DEF BeforeRunTask, Types, RunPcs, SubPcs
  <2>3. CASE TakeOrClear(t)
    <3>1. cur[t] \in Sources
      BY <2>3 DEF TakeOrClear, Control, Types
    <3>2. /\ run[t] = "take" => TakeTask(seq[cur[t]]) \in SequenceType
          /\ Clear(seq[cur[t]]) \in SequenceType
      BY <3>1, SequenceMethods DEF Types, Contents
    <3> QED
      BY <2>3, <3>1, <3>2 DEF TakeOrClear, Types, RunPcs
  <2>4. CASE AfterRunTask(t)
    BY <2>4 DEF AfterRunTask, Types, RunPcs, SubPcs
  <2>5. CASE EndRun(t)
    <3>1. cur[t] \in Sources
      BY <2>5 DEF EndRun, Control, Types
    <3>2. DidProcessTask(seq[cur[t]]) \in SequenceType
      BY <3>1, SequenceMethods DEF Types
    <3> QED
      BY <2>5, <3>1, <3>2 DEF EndRun, Types, RunPcs, SubPcs, UnregisterPc
  <2>6. CASE ReEnqueue(t)
    <3>1. cur[t] \in Sources
      BY <2>6 DEF ReEnqueue, Control, Types
    <3> QED
      BY <2>6, <3>1 DEF ReEnqueue, Types, RunPcs
  <2> QED
    BY <1>3, <2>1, <2>2, <2>3, <2>4, <2>5, <2>6 DEF RunStep
<1>4. ASSUME NEW t \in Threads, Call(t) PROVE Types'
  <2>1. ASSUME NEW s \in Sources, NEW d \in BOOLEAN, WillPostTask(t, s, d)
        PROVE Types'
    <3>1. posts' \in 0..MaxPosts
      BY <2>1, BoundsAssumption DEF WillPostTask, Types
    <3>2. delayed' \in [Sources -> Nat]
      BY <2>1 DEF WillPostTask, Types
    <3>3. /\ post' \in [Threads -> PostPcs]
          /\ dst' \in [Threads -> Sources \cup {None}]
          /\ ripe' \in [Threads -> BOOLEAN]
          /\ ticket' \in [Threads -> Sources \cup {None}]
      BY <2>1 DEF WillPostTask, Types, PostPcs
    <3> QED
      BY <2>1, <3>1, <3>2, <3>3 DEF WillPostTask, Types
  <2>2. ASSUME NEW s \in Sources, PostRipeTask(t, s) PROVE Types'
    BY <2>2 DEF PostRipeTask, Types, PostPcs
  <2> QED
    BY <1>4, <2>1, <2>2 DEF Call
<1>5. CASE FenceStep
  BY <1>5 DEF FenceStep, BeginFence, EndFence, BeginBestEffortFence,
              EndBestEffortFence, ChangeFences, CanRunPolicy, Types
<1>6. CASE StopServiceThread
  BY <1>6 DEF StopServiceThread, Types, MainPcs
<1>7. CASE ShutdownStep
  <2>1. CASE StartShutdown
    BY <2>1 DEF StartShutdown, Types, MainPcs
  <2>2. CASE StartShutdownSignal
    BY <2>2 DEF StartShutdownSignal, Types, MainPcs
  <2>3. CASE UpdateCanRunPolicy
    BY <2>3 DEF UpdateCanRunPolicy, CanRunPolicy, Types, MainPcs
  <2>4. CASE CompleteShutdownStep
    BY <2>4 DEF CompleteShutdownStep, CompleteShutdown, SignalOneFlusher,
                CallFlushCallback, Types, MainPcs
  <2> QED
    BY <1>7, <2>1, <2>2, <2>3, <2>4 DEF ShutdownStep
<1>8. CASE \E f \in Flushers : FlushForTesting(f)
  BY <1>8 DEF FlushForTesting, Types
<1>9. CASE FlushAsyncStep
  BY <1>9 DEF FlushAsyncStep, FlushAsync, CallFlushCallback, Types
<1> QED
  BY <1>1, <1>2, <1>3, <1>4, <1>5, <1>6, <1>7, <1>8, <1>9 DEF Next

\* The steps of the thread that calls Shutdown() and of the flushers.
MainStep ==
  \/ FenceStep \/ StopServiceThread \/ ShutdownStep
  \/ (\E f \in Flushers : FlushForTesting(f)) \/ FlushAsyncStep

\* They touch neither the sources nor the places of the other threads.
LEMMA MainFrame ==
  MainStep => UNCHANGED <<items, incomplete, srcVars, delayed, runVars, postVars,
                          sub, posts, late>>
BY DEF MainStep, FenceStep, BeginFence, EndFence, BeginBestEffortFence,
       EndBestEffortFence, ChangeFences, StopServiceThread, ShutdownStep,
       StartShutdown, StartShutdownSignal, UpdateCanRunPolicy,
       CompleteShutdownStep, FlushForTesting, FlushAsyncStep,
       stateVars, poolVars, srcVars, runVars, postVars, flushVars

\* Every step keeps the control places in step.
LEMMA NextControl ==
  Types /\ Control /\ Next => Control'
<1> SUFFICES ASSUME Types, Control, Next PROVE Control'
  OBVIOUS
<1> USE DEF stateVars, poolVars, srcVars, runVars, postVars, flushVars
<1>1. ASSUME NEW t \in Threads, PostStep(t) PROVE Control'
  <2>1. CASE WillPostTaskCheck(t)
    BY <2>1 DEF WillPostTaskCheck, Types, Control
  <2>2. CASE BeginPost(t)
    BY <2>2, ThreadsAssumption DEF BeginPost, Types, Control
  <2>3. CASE BeforeQueueCheck(t)
    BY <2>3 DEF BeforeQueueCheck, Types, Control
  <2>4. CASE RegisterTaskSource(t)
    BY <2>4 DEF RegisterTaskSource, Types, Control
  <2>5. CASE FinishPost(t)
    BY <2>5, ThreadsAssumption DEF FinishPost, Types, Control, UnregisterPc
  <2>6. CASE EndTransaction(t)
    BY <2>6 DEF EndTransaction, Types, Control
  <2> QED
    BY <1>1, <2>1, <2>2, <2>3, <2>4, <2>5, <2>6 DEF PostStep
<1>2. ASSUME NEW t \in Threads, SubStep(t) PROVE Control'
  <2>1. CASE DecrementItems(t)
    BY <2>1 DEF DecrementItems, Types, Control
  <2>2. CASE SignalShutdown(t)
    BY <2>2 DEF SignalShutdown, Types, Control
  <2>3. CASE DecrementIncomplete(t)
    BY <2>3 DEF DecrementIncomplete, Types, Control
  <2>4. CASE SignalFlush(t)
    BY <2>4 DEF SignalFlush, Types, Control
  <2>5. CASE EndUnregister(t)
    BY <2>5 DEF EndUnregister, Types, Control
  <2> QED
    BY <1>2, <2>1, <2>2, <2>3, <2>4, <2>5 DEF SubStep
<1>3. ASSUME NEW t \in Threads, RunStep(t) PROVE Control'
  <2>1. ASSUME NEW s \in Sources, GetWork(t, s) PROVE Control'
    BY <2>1, ThreadsAssumption DEF GetWork, Types, Control
  <2>2. CASE BeforeRunTask(t)
    BY <2>2 DEF BeforeRunTask, Types, Control, MayRun
  <2>3. CASE TakeOrClear(t)
    BY <2>3 DEF TakeOrClear, Types, Control
  <2>4. CASE AfterRunTask(t)
    BY <2>4 DEF AfterRunTask, Types, Control
  <2>5. CASE EndRun(t)
    BY <2>5 DEF EndRun, Types, Control, UnregisterPc
  <2>6. CASE ReEnqueue(t)
    BY <2>6 DEF ReEnqueue, Types, Control
  <2> QED
    BY <1>3, <2>1, <2>2, <2>3, <2>4, <2>5, <2>6 DEF RunStep
<1>4. ASSUME NEW t \in Threads, Call(t) PROVE Control'
  <2>1. ASSUME NEW s \in Sources, NEW d \in BOOLEAN, WillPostTask(t, s, d)
        PROVE Control'
    BY <2>1 DEF WillPostTask, Types, Control, MayPost
  <2>2. ASSUME NEW s \in Sources, PostRipeTask(t, s) PROVE Control'
    BY <2>2 DEF PostRipeTask, Types, Control, MayPost
  <2> QED
    BY <1>4, <2>1, <2>2 DEF Call
<1>5. CASE MainStep
  BY <1>5, MainFrame DEF Control
<1> QED
  BY <1>1, <1>2, <1>3, <1>4, <1>5 DEF Next, MainStep

\* A Sequence that PostTaskWithSequenceNow() finds idle, with the lock free, is
\* owned by nobody.
LEMMA IdleUnowned ==
  ASSUME Types, Control, Contents, NEW s \in Sources, lock[s] = None,
         WillPushTask(seq[s])
  PROVE  s \notin Registered
<1>1. s \notin queued
  BY DEF Contents, WillPushTask
<1>2. ASSUME NEW t \in Threads PROVE cur[t] # s
  BY ThreadsAssumption DEF Types, Control, Contents, WillPushTask, RunPcs
<1>3. ASSUME NEW t \in Threads PROVE ticket[t] # s
  BY ThreadsAssumption DEF Types, Control
<1> QED
  BY <1>1, <1>2, <1>3 DEF Registered

\* No step gives a source a second owner.
LEMMA NextUnique ==
  Types /\ Control /\ Unique /\ Contents /\ Next => Unique'
<1> SUFFICES ASSUME Types, Control, Unique, Contents, Next PROVE Unique'
  OBVIOUS
<1> USE DEF stateVars, poolVars, srcVars, runVars, postVars, flushVars
<1>1. ASSUME NEW t \in Threads, PostStep(t) PROVE Unique'
  <2>1. CASE WillPostTaskCheck(t)
    BY <2>1 DEF WillPostTaskCheck, Types, Unique, Control
  <2>2. CASE BeginPost(t)
    <3>1. dst[t] \in Sources /\ lock[dst[t]] = None
      BY <2>2 DEF BeginPost, Control
    <3>2. CASE ~WillPushTask(seq[dst[t]])
      BY <2>2, <3>2 DEF BeginPost, Unique
    <3>3. CASE WillPushTask(seq[dst[t]])
      <4>1. dst[t] \notin queued
        BY <3>1, <3>3, IdleUnowned DEF Registered
      <4>2. \A u \in Threads : cur[u] # dst[t] /\ ticket[u] # dst[t]
        BY <3>1, <3>3, IdleUnowned DEF Registered
      <4>3. UNCHANGED <<queued, cur>>
        BY <2>2 DEF BeginPost
      <4>4. ticket' = ticket \/ ticket' = [ticket EXCEPT ![t] = dst[t]]
        BY <2>2, <3>3 DEF BeginPost
      <4> QED
        BY <3>1, <4>1, <4>2, <4>3, <4>4 DEF Unique, Types
    <3> QED
      BY <3>2, <3>3
  <2>3. CASE BeforeQueueCheck(t)
    BY <2>3 DEF BeforeQueueCheck, Types, Unique, Control
  <2>4. CASE RegisterTaskSource(t)
    BY <2>4 DEF RegisterTaskSource, Types, Unique, Control
  <2>5. CASE FinishPost(t)
    <3>1. cur' = cur /\ ticket' = [ticket EXCEPT ![t] = None]
      BY <2>5 DEF FinishPost
    <3>2. \/ queued' = queued
          \/ ticket[t] # None /\ queued' = queued \cup {ticket[t]}
      BY <2>5 DEF FinishPost, Control
    <3>3. None \notin queued
      BY ThreadsAssumption DEF Types
    <3> QED
      BY <3>1, <3>2, <3>3 DEF Unique, Types
  <2>6. CASE EndTransaction(t)
    BY <2>6 DEF EndTransaction, Types, Unique, Control
  <2> QED
    BY <1>1, <2>1, <2>2, <2>3, <2>4, <2>5, <2>6 DEF PostStep
<1>2. ASSUME NEW t \in Threads, SubStep(t) PROVE Unique'
  <2>1. CASE DecrementItems(t)
    BY <2>1 DEF DecrementItems, Types, Unique, Control
  <2>2. CASE SignalShutdown(t)
    BY <2>2 DEF SignalShutdown, Types, Unique, Control
  <2>3. CASE DecrementIncomplete(t)
    BY <2>3 DEF DecrementIncomplete, Types, Unique, Control
  <2>4. CASE SignalFlush(t)
    BY <2>4 DEF SignalFlush, Types, Unique, Control
  <2>5. CASE EndUnregister(t)
    BY <2>5 DEF EndUnregister, Types, Unique, Control
  <2> QED
    BY <1>2, <2>1, <2>2, <2>3, <2>4, <2>5 DEF SubStep
<1>3. ASSUME NEW t \in Threads, RunStep(t) PROVE Unique'
  <2>1. ASSUME NEW s \in Sources, GetWork(t, s) PROVE Unique'
    BY <2>1, ThreadsAssumption DEF GetWork, Types, Unique, Control
  <2>2. CASE BeforeRunTask(t)
    BY <2>2 DEF BeforeRunTask, Types, Unique, Control, MayRun
  <2>3. CASE TakeOrClear(t)
    BY <2>3 DEF TakeOrClear, Types, Unique, Control
  <2>4. CASE AfterRunTask(t)
    BY <2>4 DEF AfterRunTask, Types, Unique, Control
  <2>5. CASE EndRun(t)
    <3>1. UNCHANGED <<queued, ticket>>
      BY <2>5 DEF EndRun
    <3>2. cur' = cur \/ cur' = [cur EXCEPT ![t] = None]
      BY <2>5 DEF EndRun
    <3> QED
      BY <3>1, <3>2, ThreadsAssumption DEF Unique, Types
  <2>6. CASE ReEnqueue(t)
    BY <2>6, ThreadsAssumption DEF ReEnqueue, Types, Unique, Control
  <2> QED
    BY <1>3, <2>1, <2>2, <2>3, <2>4, <2>5, <2>6 DEF RunStep
<1>4. ASSUME NEW t \in Threads, Call(t) PROVE Unique'
  <2>1. ASSUME NEW s \in Sources, NEW d \in BOOLEAN, WillPostTask(t, s, d)
        PROVE Unique'
    BY <2>1 DEF WillPostTask, Types, Unique, Control, MayPost
  <2>2. ASSUME NEW s \in Sources, PostRipeTask(t, s) PROVE Unique'
    BY <2>2 DEF PostRipeTask, Types, Unique, Control, MayPost
  <2> QED
    BY <1>4, <2>1, <2>2 DEF Call
<1>5. CASE MainStep
  BY <1>5, MainFrame DEF Unique
<1> QED
  BY <1>1, <1>2, <1>3, <1>4, <1>5 DEF Next, MainStep

\* Appending leaves a non-empty sequence.
LEMMA AppendNonEmpty ==
  ASSUME NEW q \in Seq({"task"})
  PROVE  Append(q, "task") # <<>>
<1>1. Len(Append(q, "task")) = Len(q) + 1 /\ Len(q) \in Nat
  OBVIOUS
<1>2. Len(<<>>) = 0
  OBVIOUS
<1> QED
  BY <1>1, <1>2

\* Every step keeps the contents of the Sequences in step with their owners.
LEMMA NextContents ==
  Types /\ Control /\ Unique /\ Contents /\ Next => Contents'
<1> SUFFICES ASSUME Types, Control, Unique, Contents, Next PROVE Contents'
  OBVIOUS
<1> USE DEF stateVars, poolVars, srcVars, runVars, postVars, flushVars
<1>1. ASSUME NEW t \in Threads, PostStep(t) PROVE Contents'
  <2>1. CASE WillPostTaskCheck(t)
    BY <2>1
       DEF WillPostTaskCheck, Types, Unique, Control, Contents, Registered,
           SequenceType
  <2>2. CASE BeginPost(t)
    <3>1. dst[t] \in Sources /\ lock[dst[t]] = None
      BY <2>2 DEF BeginPost, Control
    <3>2. UNCHANGED <<seq, queued, run, cur, dst>>
      BY <2>2 DEF BeginPost
    <3>3. CASE ~WillPushTask(seq[dst[t]])
      <4>1. ticket' = ticket /\ post' = [post EXCEPT ![t] = "push"]
        BY <2>2, <3>3 DEF BeginPost
      <4> QED
        BY <3>1, <3>2, <3>3, <4>1 DEF Contents, Registered, Types
    <3>4. CASE WillPushTask(seq[dst[t]])
      <4>1. \/ ticket' = ticket
            \/ ticket' = [ticket EXCEPT ![t] = dst[t]]
        BY <2>2, <3>4 DEF BeginPost
      <4>2. \E pc \in {"recheck", "count", "out"} : post' = [post EXCEPT ![t] = pc]
        BY <2>2, <3>4 DEF BeginPost
      <4>3. \A u \in Threads :
              post'[u] = "push" => u # t /\ post[u] = "push" /\ ticket'[u] = ticket[u]
        BY <4>1, <4>2 DEF Types
      <4>4. \A u \in Threads : ticket'[u] # None => WillPushTask(seq[ticket'[u]])
        BY <3>4, <4>1 DEF Contents, Types
      <4>5. Registered \subseteq Registered'
        <5>1. ticket[t] = None
          BY <2>2 DEF BeginPost, Control
        <5> QED
          BY <3>2, <4>1, <5>1, ThreadsAssumption DEF Registered, Types
      <4> QED
        BY <3>2, <4>3, <4>4, <4>5 DEF Contents
    <3> QED
      BY <3>3, <3>4
  <2>3. CASE BeforeQueueCheck(t)
    BY <2>3
       DEF BeforeQueueCheck, Types, Unique, Control, Contents, Registered,
           SequenceType
  <2>4. CASE RegisterTaskSource(t)
    BY <2>4
       DEF RegisterTaskSource, Types, Unique, Control, Contents, Registered,
           SequenceType
  <2>5. CASE FinishPost(t)
    <3>1. dst[t] \in Sources /\ lock[dst[t]] = t /\ post[t] = "push"
      BY <2>5 DEF FinishPost, Control
    <3>2. UNCHANGED <<run, cur, dst>> /\ ticket' = [ticket EXCEPT ![t] = None]
      BY <2>5 DEF FinishPost
    <3>3. \A u \in Threads : post'[u] = "push" => u # t /\ post[u] = "push"
      BY <2>5 DEF FinishPost, Types
    <3>4. \A u \in Threads \ {t} :
            post[u] \in {"recheck", "count", "push"} => dst[u] # dst[t]
      BY <3>1 DEF Control
    <3>5. CASE ripe[t] /\ started
      <4>1. UNCHANGED <<seq, queued>>
        BY <2>5, <3>5 DEF FinishPost
      <4>2. \A s \in Sources \ Registered' : WillPushTask(seq[s])
        BY <3>1, <3>2, <4>1 DEF Contents, Registered, Types, Control
      <4> QED
        BY <3>2, <3>3, <4>1, <4>2 DEF Contents, Types
    <3>6. CASE ~(ripe[t] /\ started)
      <4> DEFINE d == dst[t]
      <4>1. /\ seq' = [seq EXCEPT ![d] = PushTask(seq[d], "task")]
            /\ queued' = IF ticket[t] = None THEN queued ELSE queued \cup {d}
        BY <2>5, <3>6 DEF FinishPost
      <4>2. seq[d] \in SequenceType
        BY <3>1 DEF Types
      <4>3. /\ seq'[d].queue # <<>>
            /\ seq'[d].has_worker = seq[d].has_worker
            /\ seq'[d].runner_refs = 1
            /\ ~WillPushTask(seq'[d])
        <5>1. seq'[d] = PushTask(seq[d], "task")
          BY <3>1, <4>1 DEF Types
        <5>2. seq[d].queue \in Seq({"task"}) /\ seq[d].runner_refs \in Int
          BY <4>2 DEF SequenceType
        <5>3. /\ seq'[d].queue = Append(seq[d].queue, "task")
              /\ seq'[d].has_worker = seq[d].has_worker
          BY <4>2, <5>1 DEF PushTask, SequenceType
        <5>4. seq'[d].runner_refs =
                IF WillPushTask(seq[d]) THEN seq[d].runner_refs + 1
                                        ELSE seq[d].runner_refs
          BY <4>2, <5>1 DEF PushTask, SequenceType
        <5>5. seq[d].runner_refs = IF WillPushTask(seq[d]) THEN 0 ELSE 1
          BY <3>1 DEF Contents
        <5>6. seq'[d].queue # <<>>
          BY <5>2, <5>3, AppendNonEmpty
        <5> QED
          BY <5>3, <5>4, <5>5, <5>6 DEF WillPushTask
      <4>4. \A s \in Sources : s # d => seq'[s] = seq[s]
        BY <4>1 DEF Types
      <4>5. \A s \in Sources :
              seq'[s].runner_refs = IF WillPushTask(seq'[s]) THEN 0 ELSE 1
        BY <4>3, <4>4 DEF Contents
      <4>6. ticket[t] = None => d \in Registered
        BY <3>1 DEF Contents
      <4>7. \A s \in Sources \ Registered' : WillPushTask(seq'[s])
        BY <3>1, <3>2, <4>1, <4>4, <4>6
           DEF Contents, Registered, Types, Control
      <4>8. \A s \in queued' : seq'[s].queue # <<>> /\ ~seq'[s].has_worker
        BY <3>1, <4>1, <4>3, <4>4 DEF Contents, Control, WillPushTask, Types
      <4>9. \A u \in Threads : ticket'[u] # None => WillPushTask(seq'[ticket'[u]])
        BY <3>2, <3>4, <4>4 DEF Contents, Types, Control
      <4>10. \A u \in Threads :
               post'[u] = "push" /\ ticket'[u] = None => ~WillPushTask(seq'[dst'[u]])
        BY <3>2, <3>3, <3>4, <4>4 DEF Contents, Types, Control
      <4>11. \A u \in Threads :
               /\ run'[u] \in {"before", "take"} => seq'[cur'[u]].queue # <<>>
               /\ run'[u] \in {"before", "take", "clear", "running", "did"} =>
                    seq'[cur'[u]].has_worker
               /\ run'[u] = "reenqueue" =>
                    seq'[cur'[u]].queue # <<>> /\ ~seq'[cur'[u]].has_worker
        <5>1. \A u \in Threads : run[u] \notin {"idle", "client"} => cur[u] \in Sources
          BY DEF Types, Control
        <5> QED
          BY <3>2, <4>3, <4>4, <5>1 DEF Contents
      <4> QED
        BY <4>5, <4>7, <4>8, <4>9, <4>10, <4>11 DEF Contents
    <3> QED
      BY <3>5, <3>6
  <2>6. CASE EndTransaction(t)
    BY <2>6
       DEF EndTransaction, Types, Unique, Control, Contents, Registered,
           SequenceType
  <2> QED
    BY <1>1, <2>1, <2>2, <2>3, <2>4, <2>5, <2>6 DEF PostStep
<1>2. ASSUME NEW t \in Threads, SubStep(t) PROVE Contents'
  <2>1. CASE DecrementItems(t)
    BY <2>1
       DEF DecrementItems, Types, Unique, Control, Contents, Registered,
           SequenceType
  <2>2. CASE SignalShutdown(t)
    BY <2>2
       DEF SignalShutdown, Types, Unique, Control, Contents, Registered,
           SequenceType
  <2>3. CASE DecrementIncomplete(t)
    BY <2>3
       DEF DecrementIncomplete, Types, Unique, Control, Contents, Registered,
           SequenceType
  <2>4. CASE SignalFlush(t)
    BY <2>4
       DEF SignalFlush, Types, Unique, Control, Contents, Registered,
           SequenceType
  <2>5. CASE EndUnregister(t)
    BY <2>5
       DEF EndUnregister, Types, Unique, Control, Contents, Registered,
           SequenceType
  <2> QED
    BY <1>2, <2>1, <2>2, <2>3, <2>4, <2>5 DEF SubStep
<1>3. ASSUME NEW t \in Threads, RunStep(t) PROVE Contents'
  <2>1. ASSUME NEW s \in Sources, GetWork(t, s) PROVE Contents'
    BY <2>1, ThreadsAssumption
       DEF GetWork, Types, Unique, Control, Contents, Registered, SequenceType,
           PushTask, WillPushTask, WillRunTask, TakeTask, MustReenqueue,
           DidProcessTask, Clear
  <2>2. CASE BeforeRunTask(t)
    BY <2>2
       DEF BeforeRunTask, Types, Unique, Control, Contents, Registered,
           SequenceType, MayRun
  <2>3. CASE TakeOrClear(t)
    <3> DEFINE s == cur[t]
               q == IF run[t] = "take" THEN TakeTask(seq[s]) ELSE Clear(seq[s])
    <3>1. s \in Sources /\ seq[s].has_worker /\ seq[s] \in SequenceType
      BY <2>3 DEF TakeOrClear, Types, Control, Contents
    <3>2. q.has_worker /\ q.runner_refs = seq[s].runner_refs
      BY <3>1 DEF SequenceType, TakeTask, Clear
    <3>3. /\ seq' = [seq EXCEPT ![s] = q]
          /\ run' = [run EXCEPT ![t] = IF run[t] = "take" THEN "running"
                                                           ELSE "did"]
          /\ UNCHANGED <<queued, cur, ticket, post, dst>>
      BY <2>3 DEF TakeOrClear
    <3>4. /\ seq'[s].has_worker /\ seq'[s].runner_refs = seq[s].runner_refs
          /\ \A r \in Sources : r # s => seq'[r] = seq[r]
      BY <3>1, <3>2, <3>3 DEF Types
    <3>5. run'[t] \in {"running", "did"} /\ \A u \in Threads : u # t => run'[u] = run[u]
      BY <3>3 DEF Types
    <3>6. s \notin queued /\ \A u \in Threads : ticket[u] # s /\ (cur[u] = s => u = t)
      BY <3>1, ThreadsAssumption DEF Unique
    <3>7. Registered' = Registered
      BY <3>3 DEF Registered
    <3> HIDE DEF s, q
    <3>8. s = cur[t]
      BY DEF s
    <3> QED
      BY <3>1, <3>3, <3>4, <3>5, <3>6, <3>7, <3>8
         DEF Contents, Types, Control, WillPushTask
  <2>4. CASE AfterRunTask(t)
    BY <2>4
       DEF AfterRunTask, Types, Unique, Control, Contents, Registered,
           SequenceType
  <2>5. CASE EndRun(t)
    BY <2>5, ThreadsAssumption
       DEF EndRun, Types, Unique, Control, Contents, Registered, SequenceType,
           UnregisterPc, PushTask, WillPushTask, WillRunTask, TakeTask,
           MustReenqueue, DidProcessTask, Clear
  <2>6. CASE ReEnqueue(t)
    BY <2>6, ThreadsAssumption
       DEF ReEnqueue, Types, Unique, Control, Contents, Registered,
           SequenceType, PushTask, WillPushTask, WillRunTask, TakeTask,
           MustReenqueue, DidProcessTask, Clear
  <2> QED
    BY <1>3, <2>1, <2>2, <2>3, <2>4, <2>5, <2>6 DEF RunStep
<1>4. ASSUME NEW t \in Threads, Call(t) PROVE Contents'
  <2>1. ASSUME NEW s \in Sources, NEW d \in BOOLEAN, WillPostTask(t, s, d)
        PROVE Contents'
    BY <2>1
       DEF WillPostTask, Types, Unique, Control, Contents, Registered,
           SequenceType, MayPost
  <2>2. ASSUME NEW s \in Sources, PostRipeTask(t, s) PROVE Contents'
    BY <2>2
       DEF PostRipeTask, Types, Unique, Control, Contents, Registered,
           SequenceType, MayPost
  <2> QED
    BY <1>4, <2>1, <2>2 DEF Call
<1>5. CASE MainStep
  BY <1>5, MainFrame DEF Contents, Registered
<1> QED
  BY <1>1, <1>2, <1>3, <1>4, <1>5 DEF Next, MainStep

\* Every step keeps the phases of shutdown.
LEMMA NextPhase ==
  Types /\ Control /\ Phase /\ Next => Phase'
<1> SUFFICES ASSUME Types, Control, Phase, Next PROVE Phase'
  OBVIOUS
<1> USE DEF stateVars, poolVars, srcVars, runVars, postVars, flushVars
<1>1. ASSUME NEW t \in Threads, PostStep(t) PROVE Phase'
  <2>1. CASE WillPostTaskCheck(t)
    BY <2>1 DEF WillPostTaskCheck, Types, Control, Phase
  <2>2. CASE BeginPost(t)
    BY <2>2 DEF BeginPost, Types, Control, Phase
  <2>3. CASE BeforeQueueCheck(t)
    BY <2>3 DEF BeforeQueueCheck, Types, Control, Phase
  <2>4. CASE RegisterTaskSource(t)
    BY <2>4 DEF RegisterTaskSource, Types, Control, Phase
  <2>5. CASE FinishPost(t)
    BY <2>5 DEF FinishPost, Types, Control, Phase, UnregisterPc
  <2>6. CASE EndTransaction(t)
    BY <2>6 DEF EndTransaction, Types, Control, Phase
  <2> QED
    BY <1>1, <2>1, <2>2, <2>3, <2>4, <2>5, <2>6 DEF PostStep
<1>2. ASSUME NEW t \in Threads, SubStep(t) PROVE Phase'
  <2>1. CASE DecrementItems(t)
    BY <2>1 DEF DecrementItems, Types, Control, Phase, LastItem
  <2>2. CASE SignalShutdown(t)
    BY <2>2 DEF SignalShutdown, Types, Control, Phase, ShutdownLockFree
  <2>3. CASE DecrementIncomplete(t)
    BY <2>3 DEF DecrementIncomplete, Types, Control, Phase
  <2>4. CASE SignalFlush(t)
    BY <2>4 DEF SignalFlush, Types, Control, Phase
  <2>5. CASE EndUnregister(t)
    BY <2>5 DEF EndUnregister, Types, Control, Phase
  <2> QED
    BY <1>2, <2>1, <2>2, <2>3, <2>4, <2>5 DEF SubStep
<1>3. ASSUME NEW t \in Threads, RunStep(t) PROVE Phase'
  <2>1. ASSUME NEW s \in Sources, GetWork(t, s) PROVE Phase'
    BY <2>1 DEF GetWork, Types, Control, Phase
  <2>2. CASE BeforeRunTask(t)
    BY <2>2 DEF BeforeRunTask, Types, Control, Phase, MayRun
  <2>3. CASE TakeOrClear(t)
    BY <2>3 DEF TakeOrClear, Types, Control, Phase
  <2>4. CASE AfterRunTask(t)
    BY <2>4 DEF AfterRunTask, Types, Control, Phase
  <2>5. CASE EndRun(t)
    BY <2>5 DEF EndRun, Types, Control, Phase, UnregisterPc
  <2>6. CASE ReEnqueue(t)
    BY <2>6 DEF ReEnqueue, Types, Control, Phase
  <2> QED
    BY <1>3, <2>1, <2>2, <2>3, <2>4, <2>5, <2>6 DEF RunStep
<1>4. ASSUME NEW t \in Threads, Call(t) PROVE Phase'
  <2>1. ASSUME NEW s \in Sources, NEW d \in BOOLEAN, WillPostTask(t, s, d)
        PROVE Phase'
    BY <2>1 DEF WillPostTask, Types, Control, Phase, MayPost
  <2>2. ASSUME NEW s \in Sources, PostRipeTask(t, s) PROVE Phase'
    BY <2>2 DEF PostRipeTask, Types, Control, Phase, MayPost
  <2> QED
    BY <1>4, <2>1, <2>2 DEF Call
<1>5. CASE MainStep
  <2>1. CASE StartShutdown
    BY <2>1 DEF StartShutdown, Phase, Types
  <2>2. CASE StartShutdownSignal
    BY <2>2 DEF StartShutdownSignal, Phase, Types
  <2>3. CASE UpdateCanRunPolicy
    BY <2>3 DEF UpdateCanRunPolicy, Phase, Types
  <2>4. CASE CompleteShutdownStep
    BY <2>4 DEF CompleteShutdownStep, CompleteShutdown, Phase, Types
  <2>5. CASE FenceStep
    BY <2>5 DEF FenceStep, BeginFence, EndFence, BeginBestEffortFence,
                EndBestEffortFence, ChangeFences, Phase
  <2>6. CASE StopServiceThread
    BY <2>6 DEF StopServiceThread, Phase
  <2>7. CASE \E f \in Flushers : FlushForTesting(f)
    BY <2>7 DEF FlushForTesting, Phase
  <2>8. CASE FlushAsyncStep
    BY <2>8 DEF FlushAsyncStep, Phase
  <2> QED
    BY <1>5, <2>1, <2>2, <2>3, <2>4, <2>5, <2>6, <2>7, <2>8
       DEF MainStep, ShutdownStep
<1> QED
  BY <1>1, <1>2, <1>3, <1>4, <1>5 DEF Next, MainStep

-----------------------------------------------------------------------------
(***************************************************************************)
(* Accounting                                                              *)
(***************************************************************************)

LEMMA FiniteThreads == IsFiniteSet(Threads) /\ IsFiniteSet(Sources)
BY ThreadsAssumption, FS_Union, FS_Singleton DEF Threads

LEMMA FiniteBlockers == Types => IsFiniteSet(Blockers)
<1>1. Types => Blockers \subseteq Sources \cup Threads
  BY DEF Types, Blockers, Registered
<1> QED
  BY <1>1, FiniteThreads, FS_Union, FS_Subset

LEMMA FiniteCounted == Types => IsFiniteSet(Counted)
<1>1. Types => Counted \subseteq Sources \cup Threads
  BY DEF Types, Counted, Registered
<1> QED
  BY <1>1, FiniteThreads, FS_Union, FS_Subset

\* Replacing one element by another keeps the cardinality.
LEMMA SwapCardinality ==
  ASSUME NEW S, IsFiniteSet(S), NEW a \in S, NEW b, b \notin S
  PROVE  Cardinality((S \ {a}) \cup {b}) = Cardinality(S)
<1>1. IsFiniteSet(S \ {a}) /\ Cardinality(S \ {a}) = Cardinality(S) - 1
  BY FS_RemoveElement
<1>2. Cardinality((S \ {a}) \cup {b}) = Cardinality(S \ {a}) + 1
  BY <1>1, FS_AddElement
<1>3. Cardinality(S) \in Nat
  BY FS_CardinalityType
<1> QED
  BY <1>1, <1>2, <1>3

\* Every step moves the item counter with the set of blockers.
LEMMA NextItems ==
  Types /\ Control /\ Unique /\ Contents /\ ItemsCountBlockers /\ Next => ItemsCountBlockers'
<1> SUFFICES ASSUME Types, Control, Unique, Contents, ItemsCountBlockers, Next PROVE ItemsCountBlockers'
  OBVIOUS
<1> USE DEF stateVars, poolVars, srcVars, runVars, postVars, flushVars
<1>1. ASSUME NEW t \in Threads, PostStep(t) PROVE ItemsCountBlockers'
  <2>1. CASE WillPostTaskCheck(t)
    <3>1. Blockers' = Blockers /\ items' = items
      BY <2>1, ThreadsAssumption
         DEF WillPostTaskCheck, Blockers, Registered, SkipRunning, Types,
             Control
    <3> QED
      BY <3>1 DEF ItemsCountBlockers
  <2>2. CASE BeginPost(t)
    <3>1. dst[t] \in Sources /\ ticket[t] = None
      BY <2>2 DEF BeginPost, Control
    <3>2. UNCHANGED <<queued, cur, run, sub>>
      BY <2>2 DEF BeginPost
    <3>3. CASE WillPushTask(seq[dst[t]]) /\ Block(dst[t])
      <4>1. dst[t] \notin Registered
        BY <2>2, <3>1, <3>3, IdleUnowned DEF BeginPost
      <4>2. ticket' = [ticket EXCEPT ![t] = dst[t]] /\ items' = items + 1
        BY <2>2, <3>3 DEF BeginPost
      <4>3. Blockers' = Blockers \cup {dst[t]}
        BY <3>1, <3>2, <3>3, <4>2, ThreadsAssumption
           DEF Blockers, Registered, SkipRunning, Types
      <4>4. dst[t] \notin Blockers
        BY <3>1, <4>1, ThreadsAssumption DEF Blockers
      <4> QED
        BY <4>2, <4>3, <4>4, FiniteBlockers, FS_AddElement
           DEF ItemsCountBlockers
    <3>4. CASE ~(WillPushTask(seq[dst[t]]) /\ Block(dst[t]))
      <4>1. items' = items
        BY <2>2, <3>4 DEF BeginPost
      <4>2. \/ ticket' = ticket
            \/ ticket' = [ticket EXCEPT ![t] = dst[t]] /\ ~Block(dst[t])
        BY <2>2, <3>4 DEF BeginPost
      <4>3. Blockers' = Blockers
        BY <3>1, <3>2, <4>2, ThreadsAssumption
           DEF Blockers, Registered, SkipRunning, Types
      <4> QED
        BY <4>1, <4>3 DEF ItemsCountBlockers
    <3> QED
      BY <3>3, <3>4
  <2>3. CASE BeforeQueueCheck(t)
    <3>1. Blockers' = Blockers /\ items' = items
      BY <2>3, ThreadsAssumption
         DEF BeforeQueueCheck, Blockers, Registered, SkipRunning, Types,
             Control
    <3> QED
      BY <3>1 DEF ItemsCountBlockers
  <2>4. CASE RegisterTaskSource(t)
    <3>1. Blockers' = Blockers /\ items' = items
      BY <2>4, ThreadsAssumption
         DEF RegisterTaskSource, Blockers, Registered, SkipRunning, Types,
             Control
    <3> QED
      BY <3>1 DEF ItemsCountBlockers
  <2>5. CASE FinishPost(t)
    <3> DEFINE d == dst[t]
    <3>1. d \in Sources /\ post[t] = "push" /\ ticket[t] \in {None, d} /\ sub[t] = "none"
      BY <2>5 DEF FinishPost, Control
    <3>2. UNCHANGED <<cur, run, items>> /\ ticket' = [ticket EXCEPT ![t] = None]
      BY <2>5 DEF FinishPost
    <3>3. CASE ~(ripe[t] /\ started)
      <4>1. sub' = sub /\ queued' = IF ticket[t] = None THEN queued ELSE queued \cup {d}
        BY <2>5, <3>3 DEF FinishPost
      <4>2. Registered' = Registered
        BY <3>1, <3>2, <4>1, ThreadsAssumption DEF Registered, Types
      <4>3. Blockers' = Blockers
        BY <3>2, <4>1, <4>2 DEF Blockers, SkipRunning
      <4> QED
        BY <3>2, <4>3 DEF ItemsCountBlockers
    <3>4. CASE ripe[t] /\ started /\ ticket[t] = None
      <4>1. sub' = sub /\ queued' = queued /\ ticket' = ticket
        BY <2>5, <3>2, <3>4 DEF FinishPost, Types
      <4>2. Blockers' = Blockers
        BY <3>2, <4>1 DEF Blockers, SkipRunning, Registered
      <4> QED
        BY <3>2, <4>2 DEF ItemsCountBlockers
    <3>5. CASE ripe[t] /\ started /\ ticket[t] # None
      <4>1. /\ queued' = queued
            /\ sub' = [sub EXCEPT ![t] = UnregisterPc(d)]
        BY <2>5, <3>5 DEF FinishPost
      <4>2. ticket[t] = d
        BY <3>1, <3>5
      <4>3. Registered' = Registered \ {d} /\ d \in Registered
        BY <3>1, <3>2, <4>1, <4>2, ThreadsAssumption
           DEF Registered, Types, Unique
      <4>4. run[t] = "client"
        BY <3>5 DEF Control
      <4>5. CASE Block(d)
        <5>1. d \in Blockers /\ t \notin Blockers
          BY <3>1, <4>3, <4>4, <4>5, ThreadsAssumption
             DEF Blockers, SkipRunning, Registered, Types
        <5>2. Blockers' = (Blockers \ {d}) \cup {t}
          BY <3>1, <3>2, <4>1, <4>3, <4>5, ThreadsAssumption
             DEF Blockers, SkipRunning, UnregisterPc, Types
        <5> QED
          BY <3>2, <5>1, <5>2, FiniteBlockers, SwapCardinality
             DEF ItemsCountBlockers
      <4>6. CASE ~Block(d)
        <5>1. Blockers' = Blockers
          BY <3>1, <3>2, <4>1, <4>3, <4>6, ThreadsAssumption
             DEF Blockers, SkipRunning, UnregisterPc, Types
        <5> QED
          BY <3>2, <5>1 DEF ItemsCountBlockers
      <4> QED
        BY <4>5, <4>6
    <3> QED
      BY <3>3, <3>4, <3>5
  <2>6. CASE EndTransaction(t)
    <3>1. Blockers' = Blockers /\ items' = items
      BY <2>6, ThreadsAssumption
         DEF EndTransaction, Blockers, Registered, SkipRunning, Types, Control
    <3> QED
      BY <3>1 DEF ItemsCountBlockers
  <2> QED
    BY <1>1, <2>1, <2>2, <2>3, <2>4, <2>5, <2>6 DEF PostStep
<1>2. ASSUME NEW t \in Threads, SubStep(t) PROVE ItemsCountBlockers'
  <2>1. CASE DecrementItems(t)
    <3>1. Blockers' = Blockers \ {t} /\ t \in Blockers
      BY <2>1, ThreadsAssumption
         DEF DecrementItems, Blockers, Registered, SkipRunning, Types, Control
    <3>2. items' = items - 1
      BY <2>1 DEF DecrementItems
    <3> QED
      BY <3>1, <3>2, FiniteBlockers, FS_RemoveElement DEF ItemsCountBlockers
  <2>2. CASE SignalShutdown(t)
    <3>1. Blockers' = Blockers /\ items' = items
      BY <2>2, ThreadsAssumption
         DEF SignalShutdown, Blockers, Registered, SkipRunning, Types, Control
    <3> QED
      BY <3>1 DEF ItemsCountBlockers
  <2>3. CASE DecrementIncomplete(t)
    <3>1. Blockers' = Blockers /\ items' = items
      BY <2>3, ThreadsAssumption
         DEF DecrementIncomplete, Blockers, Registered, SkipRunning, Types,
             Control
    <3> QED
      BY <3>1 DEF ItemsCountBlockers
  <2>4. CASE SignalFlush(t)
    <3>1. Blockers' = Blockers /\ items' = items
      BY <2>4, ThreadsAssumption
         DEF SignalFlush, Blockers, Registered, SkipRunning, Types, Control
    <3> QED
      BY <3>1 DEF ItemsCountBlockers
  <2>5. CASE EndUnregister(t)
    <3>1. Blockers' = Blockers /\ items' = items
      BY <2>5, ThreadsAssumption
         DEF EndUnregister, Blockers, Registered, SkipRunning, Types, Control
    <3> QED
      BY <3>1 DEF ItemsCountBlockers
  <2> QED
    BY <1>2, <2>1, <2>2, <2>3, <2>4, <2>5 DEF SubStep
<1>3. ASSUME NEW t \in Threads, RunStep(t) PROVE ItemsCountBlockers'
  <2>1. ASSUME NEW s \in Sources, GetWork(t, s) PROVE ItemsCountBlockers'
    <3>1. cur[t] = None
      BY <2>1 DEF GetWork, Control
    <3>2. Registered' = Registered
      BY <2>1, <3>1, ThreadsAssumption DEF GetWork, Registered, Types
    <3>3. Blockers' = Blockers
      BY <2>1, <3>1, <3>2 DEF GetWork, Blockers, SkipRunning, Types
    <3> QED
      BY <2>1, <3>3 DEF GetWork, ItemsCountBlockers
  <2>2. CASE BeforeRunTask(t)
    <3>1. cur[t] \in Sources /\ sub[t] = "none" /\ Registered' = Registered
      BY <2>2 DEF BeforeRunTask, Control, Types, Registered
    <3>2. CASE Behavior[cur[t]] = "SKIP"
      <4>1. Blockers' = Blockers \cup {t} /\ t \notin Blockers
        BY <2>2, <3>1, <3>2, ThreadsAssumption
           DEF BeforeRunTask, Blockers, SkipRunning, MayRun, Types, Registered
      <4>2. items' = items + 1
        BY <2>2, <3>2 DEF BeforeRunTask
      <4> QED
        BY <4>1, <4>2, FiniteBlockers, FS_AddElement DEF ItemsCountBlockers
    <3>3. CASE Behavior[cur[t]] # "SKIP"
      <4>1. Blockers' = Blockers /\ items' = items
        BY <2>2, <3>1, <3>3 DEF BeforeRunTask, Blockers, SkipRunning, Types
      <4> QED
        BY <4>1 DEF ItemsCountBlockers
    <3> QED
      BY <3>2, <3>3
  <2>3. CASE TakeOrClear(t)
    <3>1. Blockers' = Blockers /\ items' = items
      BY <2>3, ThreadsAssumption
         DEF TakeOrClear, Blockers, Registered, SkipRunning, Types, Control
    <3> QED
      BY <3>1 DEF ItemsCountBlockers
  <2>4. CASE AfterRunTask(t)
    <3>1. Blockers' = Blockers /\ items' = items
      BY <2>4, ThreadsAssumption
         DEF AfterRunTask, Blockers, Registered, SkipRunning, Types, Control
    <3> QED
      BY <3>1 DEF ItemsCountBlockers
  <2>5. CASE EndRun(t)
    <3> DEFINE d == cur[t]
    <3>1. d \in Sources /\ sub[t] = "none" /\ run[t] = "did"
      BY <2>5 DEF EndRun, Control, Types
    <3>2. UNCHANGED <<queued, ticket, items>>
      BY <2>5 DEF EndRun
    <3>3. CASE MustReenqueue(seq[d])
      <4>1. cur' = cur /\ sub' = sub /\ run' = [run EXCEPT ![t] = "reenqueue"]
        BY <2>5, <3>3 DEF EndRun
      <4>2. Blockers' = Blockers
        BY <3>1, <3>2, <4>1 DEF Blockers, SkipRunning, Registered, Types
      <4> QED
        BY <3>2, <4>2 DEF ItemsCountBlockers
    <3>4. CASE ~MustReenqueue(seq[d])
      <4>1. /\ cur' = [cur EXCEPT ![t] = None]
            /\ run' = [run EXCEPT ![t] = "idle"]
            /\ sub' = [sub EXCEPT ![t] = UnregisterPc(d)]
        BY <2>5, <3>4 DEF EndRun
      <4>2. Registered' = Registered \ {d} /\ d \in Registered
        BY <3>1, <3>2, <4>1, ThreadsAssumption DEF Registered, Types, Unique
      <4>3. CASE Block(d)
        <5>1. d \in Blockers /\ t \notin Blockers
          BY <3>1, <4>2, <4>3, ThreadsAssumption
             DEF Blockers, SkipRunning, Registered, Types
        <5>2. Blockers' = (Blockers \ {d}) \cup {t}
          BY <3>1, <4>1, <4>2, <4>3, ThreadsAssumption
             DEF Blockers, SkipRunning, UnregisterPc, Types
        <5> QED
          BY <3>2, <5>1, <5>2, FiniteBlockers, SwapCardinality
             DEF ItemsCountBlockers
      <4>4. CASE ~Block(d)
        <5>1. Blockers' = Blockers
          BY <3>1, <4>1, <4>2, <4>4, ThreadsAssumption
             DEF Blockers, SkipRunning, UnregisterPc, Types
        <5> QED
          BY <3>2, <5>1 DEF ItemsCountBlockers
      <4> QED
        BY <4>3, <4>4
    <3> QED
      BY <3>3, <3>4
  <2>6. CASE ReEnqueue(t)
    <3>1. Blockers' = Blockers /\ items' = items
      BY <2>6, ThreadsAssumption
         DEF ReEnqueue, Blockers, Registered, SkipRunning, Types, Control
    <3> QED
      BY <3>1 DEF ItemsCountBlockers
  <2> QED
    BY <1>3, <2>1, <2>2, <2>3, <2>4, <2>5, <2>6 DEF RunStep
<1>4. ASSUME NEW t \in Threads, Call(t) PROVE ItemsCountBlockers'
  <2>1. ASSUME NEW s \in Sources, NEW d \in BOOLEAN, WillPostTask(t, s, d)
        PROVE ItemsCountBlockers'
    <3>1. Blockers' = Blockers /\ items' = items
      BY <2>1, ThreadsAssumption
         DEF WillPostTask, Blockers, Registered, SkipRunning, Types, Control,
             MayPost
    <3> QED
      BY <3>1 DEF ItemsCountBlockers
  <2>2. ASSUME NEW s \in Sources, PostRipeTask(t, s) PROVE ItemsCountBlockers'
    <3>1. Blockers' = Blockers /\ items' = items
      BY <2>2, ThreadsAssumption
         DEF PostRipeTask, Blockers, Registered, SkipRunning, Types, Control,
             MayPost
    <3> QED
      BY <3>1 DEF ItemsCountBlockers
  <2> QED
    BY <1>4, <2>1, <2>2 DEF Call
<1>5. CASE MainStep
  BY <1>5, MainFrame DEF ItemsCountBlockers, Blockers, Registered, SkipRunning
<1> QED
  BY <1>1, <1>2, <1>3, <1>4, <1>5 DEF Next, MainStep

\* Every step moves num_incomplete_task_sources_ with the sources it counts.
LEMMA NextIncomplete ==
  Types /\ Control /\ Unique /\ Contents /\ IncompleteCountsSources /\ Next => IncompleteCountsSources'
<1> SUFFICES ASSUME Types, Control, Unique, Contents, IncompleteCountsSources, Next PROVE IncompleteCountsSources'
  OBVIOUS
<1> USE DEF stateVars, poolVars, srcVars, runVars, postVars, flushVars
<1>1. ASSUME NEW t \in Threads, PostStep(t) PROVE IncompleteCountsSources'
  <2>1. CASE WillPostTaskCheck(t)
    <3>1. Counted' = Counted /\ incomplete' = incomplete
      BY <2>1, ThreadsAssumption
         DEF WillPostTaskCheck, Counted, Registered, Types, Control
    <3> QED
      BY <3>1 DEF IncompleteCountsSources
  <2>2. CASE BeginPost(t)
    <3>1. dst[t] \in Sources /\ ticket[t] = None /\ post[t] = "now"
      BY <2>2 DEF BeginPost, Control
    <3>2. UNCHANGED <<queued, cur, sub, incomplete>>
      BY <2>2 DEF BeginPost
    <3>3. CASE ticket' = ticket
      <4>1. \A u \in Threads : ticket[u] # None => post'[u] = post[u]
        BY <2>2, <3>1 DEF BeginPost, Types
      <4>2. Counted' = Counted
        BY <3>2, <3>3, <4>1, ThreadsAssumption DEF Counted, Registered, Types
      <4> QED
        BY <3>2, <4>2 DEF IncompleteCountsSources
    <3>4. CASE ticket' # ticket
      <4>1. /\ ticket' = [ticket EXCEPT ![t] = dst[t]]
            /\ \E pc \in {"recheck", "count"} : post' = [post EXCEPT ![t] = pc]
            /\ WillPushTask(seq[dst[t]]) /\ lock[dst[t]] = None
        BY <2>2, <3>4 DEF BeginPost
      <4>2. dst[t] \notin Registered
        BY <3>1, <4>1, IdleUnowned
      <4>3. Registered' = Registered \cup {dst[t]}
        BY <3>1, <3>2, <4>1, ThreadsAssumption DEF Registered, Types
      <4>4. /\ ticket'[t] = dst[t] /\ post'[t] \in {"recheck", "count"}
            /\ \A u \in Threads \ {t} : ticket'[u] = ticket[u] /\ post'[u] = post[u]
        BY <4>1 DEF Types
      <4>5. Counted' = Counted
        BY <3>1, <3>2, <4>2, <4>3, <4>4, ThreadsAssumption DEF Counted
      <4> QED
        BY <3>2, <4>5 DEF IncompleteCountsSources
    <3> QED
      BY <3>3, <3>4
  <2>3. CASE BeforeQueueCheck(t)
    <3>1. UNCHANGED <<queued, cur, ticket, sub, incomplete>>
      BY <2>3 DEF BeforeQueueCheck
    <3>2. \A u \in Threads :
            post'[u] \in {"recheck", "count"} <=> post[u] \in {"recheck", "count"}
      BY <2>3 DEF BeforeQueueCheck, Types
    <3>3. Counted' = Counted
      BY <3>1, <3>2 DEF Counted, Registered
    <3> QED
      BY <3>1, <3>3 DEF IncompleteCountsSources
  <2>4. CASE RegisterTaskSource(t)
    <3> DEFINE d == ticket[t]
    <3>1. d \in Sources /\ post[t] = "count"
      BY <2>4 DEF RegisterTaskSource, Control, Types
    <3>2. UNCHANGED <<queued, cur, ticket, sub>> /\ incomplete' = incomplete + 1
      BY <2>4 DEF RegisterTaskSource
    <3>3. /\ post'[t] = "push"
          /\ \A u \in Threads \ {t} : post'[u] = post[u]
      BY <2>4 DEF RegisterTaskSource, Types
    <3>4. \A u \in Threads : ticket[u] = d => u = t
      BY <3>1, ThreadsAssumption DEF Unique
    <3>5. Counted' = Counted \cup {d} /\ d \notin Counted
      BY <3>1, <3>2, <3>3, <3>4, ThreadsAssumption DEF Counted, Registered
    <3> QED
      BY <3>2, <3>5, FiniteCounted, FS_AddElement DEF IncompleteCountsSources
  <2>5. CASE FinishPost(t)
    <3> DEFINE d == dst[t]
    <3>1. d \in Sources /\ post[t] = "push" /\ ticket[t] \in {None, d} /\ sub[t] = "none"
      BY <2>5 DEF FinishPost, Control
    <3>2. UNCHANGED <<cur, incomplete>> /\ ticket' = [ticket EXCEPT ![t] = None]
      BY <2>5 DEF FinishPost
    <3>3. \A u \in Threads :
            /\ u # t => ticket'[u] = ticket[u] /\ post'[u] = post[u]
            /\ u = t => ticket'[u] = None /\ post'[u] \notin {"recheck", "count"}
      BY <2>5 DEF FinishPost, Types
    <3>4. CASE ~(ripe[t] /\ started)
      <4>1. sub' = sub /\ queued' = IF ticket[t] = None THEN queued ELSE queued \cup {d}
        BY <2>5, <3>4 DEF FinishPost
      <4>2. Registered' = Registered
        BY <3>1, <3>3, <3>2, <4>1, ThreadsAssumption DEF Registered, Types
      <4>3. Counted' = Counted
        BY <3>1, <3>3, <4>1, <4>2, ThreadsAssumption DEF Counted, Registered
      <4> QED
        BY <3>2, <4>3 DEF IncompleteCountsSources
    <3>5. CASE ripe[t] /\ started /\ ticket[t] = None
      <4>1. sub' = sub /\ queued' = queued /\ ticket' = ticket
        BY <2>5, <3>2, <3>5 DEF FinishPost, Types
      <4>2. Counted' = Counted
        BY <3>1, <3>2, <3>3, <4>1 DEF Counted, Registered
      <4> QED
        BY <3>2, <4>2 DEF IncompleteCountsSources
    <3>6. CASE ripe[t] /\ started /\ ticket[t] # None
      <4>1. /\ queued' = queued
            /\ sub' = [sub EXCEPT ![t] = UnregisterPc(d)]
        BY <2>5, <3>6 DEF FinishPost
      <4>2. ticket[t] = d
        BY <3>1, <3>6
      <4>3. Registered' = Registered \ {d} /\ d \in Registered
        BY <3>1, <3>2, <4>1, <4>2, ThreadsAssumption
           DEF Registered, Types, Unique
      <4>4. \A u \in Threads : ticket[u] = d => u = t
        BY <3>1, <4>2, ThreadsAssumption DEF Unique
      <4>5. d \in Counted /\ t \notin Counted
        BY <3>1, <4>3, <4>4, ThreadsAssumption DEF Counted, Registered, Types
      <4>6. Counted' = (Counted \ {d}) \cup {t}
        BY <3>1, <3>3, <4>1, <4>3, ThreadsAssumption
           DEF Counted, UnregisterPc, Types
      <4> QED
        BY <3>2, <4>5, <4>6, FiniteCounted, SwapCardinality
           DEF IncompleteCountsSources
    <3> QED
      BY <3>4, <3>5, <3>6
  <2>6. CASE EndTransaction(t)
    <3>1. Counted' = Counted /\ incomplete' = incomplete
      BY <2>6, ThreadsAssumption
         DEF EndTransaction, Counted, Registered, Types, Control
    <3> QED
      BY <3>1 DEF IncompleteCountsSources
  <2> QED
    BY <1>1, <2>1, <2>2, <2>3, <2>4, <2>5, <2>6 DEF PostStep
<1>2. ASSUME NEW t \in Threads, SubStep(t) PROVE IncompleteCountsSources'
  <2>1. CASE DecrementItems(t)
    <3>1. Counted' = Counted /\ incomplete' = incomplete
      BY <2>1, ThreadsAssumption
         DEF DecrementItems, Counted, Registered, Types, Control
    <3> QED
      BY <3>1 DEF IncompleteCountsSources
  <2>2. CASE SignalShutdown(t)
    <3>1. Counted' = Counted /\ incomplete' = incomplete
      BY <2>2, ThreadsAssumption
         DEF SignalShutdown, Counted, Registered, Types, Control
    <3> QED
      BY <3>1 DEF IncompleteCountsSources
  <2>3. CASE DecrementIncomplete(t)
    <3>1. Counted' = Counted \ {t} /\ t \in Counted
      BY <2>3, ThreadsAssumption
         DEF DecrementIncomplete, Counted, Registered, Types
    <3>2. incomplete' = incomplete - 1
      BY <2>3 DEF DecrementIncomplete
    <3> QED
      BY <3>1, <3>2, FiniteCounted, FS_RemoveElement
         DEF IncompleteCountsSources
  <2>4. CASE SignalFlush(t)
    <3>1. Counted' = Counted /\ incomplete' = incomplete
      BY <2>4, ThreadsAssumption
         DEF SignalFlush, Counted, Registered, Types, Control
    <3> QED
      BY <3>1 DEF IncompleteCountsSources
  <2>5. CASE EndUnregister(t)
    <3>1. Counted' = Counted /\ incomplete' = incomplete
      BY <2>5, ThreadsAssumption
         DEF EndUnregister, Counted, Registered, Types, Control
    <3> QED
      BY <3>1 DEF IncompleteCountsSources
  <2> QED
    BY <1>2, <2>1, <2>2, <2>3, <2>4, <2>5 DEF SubStep
<1>3. ASSUME NEW t \in Threads, RunStep(t) PROVE IncompleteCountsSources'
  <2>1. ASSUME NEW s \in Sources, GetWork(t, s) PROVE IncompleteCountsSources'
    <3>1. cur[t] = None
      BY <2>1 DEF GetWork, Control
    <3>2. Registered' = Registered
      BY <2>1, <3>1, ThreadsAssumption DEF GetWork, Registered, Types
    <3>3. Counted' = Counted
      BY <2>1, <3>2 DEF GetWork, Counted
    <3> QED
      BY <2>1, <3>3 DEF GetWork, IncompleteCountsSources
  <2>2. CASE BeforeRunTask(t)
    <3>1. Counted' = Counted /\ incomplete' = incomplete
      BY <2>2, ThreadsAssumption
         DEF BeforeRunTask, Counted, Registered, Types, Control, MayRun
    <3> QED
      BY <3>1 DEF IncompleteCountsSources
  <2>3. CASE TakeOrClear(t)
    <3>1. Counted' = Counted /\ incomplete' = incomplete
      BY <2>3, ThreadsAssumption
         DEF TakeOrClear, Counted, Registered, Types, Control
    <3> QED
      BY <3>1 DEF IncompleteCountsSources
  <2>4. CASE AfterRunTask(t)
    <3>1. Counted' = Counted /\ incomplete' = incomplete
      BY <2>4, ThreadsAssumption
         DEF AfterRunTask, Counted, Registered, Types, Control
    <3> QED
      BY <3>1 DEF IncompleteCountsSources
  <2>5. CASE EndRun(t)
    <3> DEFINE d == cur[t]
    <3>1. d \in Sources /\ sub[t] = "none"
      BY <2>5 DEF EndRun, Control, Types
    <3>2. UNCHANGED <<queued, ticket, post, incomplete>>
      BY <2>5 DEF EndRun
    <3>3. CASE MustReenqueue(seq[d])
      <4>1. cur' = cur /\ sub' = sub
        BY <2>5, <3>3 DEF EndRun
      <4>2. Counted' = Counted
        BY <3>2, <4>1 DEF Counted, Registered
      <4> QED
        BY <3>2, <4>2 DEF IncompleteCountsSources
    <3>4. CASE ~MustReenqueue(seq[d])
      <4>1. /\ cur' = [cur EXCEPT ![t] = None]
            /\ sub' = [sub EXCEPT ![t] = UnregisterPc(d)]
        BY <2>5, <3>4 DEF EndRun
      <4>2. Registered' = Registered \ {d} /\ d \in Registered
        BY <3>1, <3>2, <4>1, ThreadsAssumption DEF Registered, Types, Unique
      <4>3. \A u \in Threads : ticket[u] # d
        BY <3>1, ThreadsAssumption DEF Unique
      <4>4. d \in Counted /\ t \notin Counted
        BY <3>1, <4>2, <4>3, ThreadsAssumption DEF Counted, Registered, Types
      <4>5. Counted' = (Counted \ {d}) \cup {t}
        BY <3>1, <3>2, <4>1, <4>2, ThreadsAssumption
           DEF Counted, UnregisterPc, Types
      <4> QED
        BY <3>2, <4>4, <4>5, FiniteCounted, SwapCardinality
           DEF IncompleteCountsSources
    <3> QED
      BY <3>3, <3>4
  <2>6. CASE ReEnqueue(t)
    <3>1. Counted' = Counted /\ incomplete' = incomplete
      BY <2>6, ThreadsAssumption
         DEF ReEnqueue, Counted, Registered, Types, Control
    <3> QED
      BY <3>1 DEF IncompleteCountsSources
  <2> QED
    BY <1>3, <2>1, <2>2, <2>3, <2>4, <2>5, <2>6 DEF RunStep
<1>4. ASSUME NEW t \in Threads, Call(t) PROVE IncompleteCountsSources'
  <2>1. ASSUME NEW s \in Sources, NEW d \in BOOLEAN, WillPostTask(t, s, d)
        PROVE IncompleteCountsSources'
    <3>1. Counted' = Counted /\ incomplete' = incomplete
      BY <2>1, ThreadsAssumption
         DEF WillPostTask, Counted, Registered, Types, Control, MayPost
    <3> QED
      BY <3>1 DEF IncompleteCountsSources
  <2>2. ASSUME NEW s \in Sources, PostRipeTask(t, s) PROVE IncompleteCountsSources'
    <3>1. Counted' = Counted /\ incomplete' = incomplete
      BY <2>2, ThreadsAssumption
         DEF PostRipeTask, Counted, Registered, Types, Control, MayPost
    <3> QED
      BY <3>1 DEF IncompleteCountsSources
  <2> QED
    BY <1>4, <2>1, <2>2 DEF Call
<1>5. CASE MainStep
  BY <1>5, MainFrame DEF IncompleteCountsSources, Counted, Registered
<1> QED
  BY <1>1, <1>2, <1>3, <1>4, <1>5 DEF Next, MainStep

-----------------------------------------------------------------------------
(***************************************************************************)
(* Safety of shutdown                                                      *)
(***************************************************************************)

\* No item counted after a step means that nothing blocks shutdown after it.
LEMMA NoItemsSafe ==
  ASSUME Types', ItemsCountBlockers', items' = 0
  PROVE  ShutdownIsSafe'
<1>1. IsFiniteSet(Blockers')
  <2>1. Blockers' \subseteq Sources \cup Threads
    BY DEF Types, Blockers, Registered
  <2> QED
    BY <2>1, FiniteThreads, FS_Union, FS_Subset
<1>2. Blockers' = {}
  BY <1>1, FS_EmptySet DEF ItemsCountBlockers
<1> QED
  BY <1>2 DEF Blockers, ShutdownIsSafe

\* Every step keeps shutdown safe: completion is decided only with no blocker left,
\* and afterwards no task can start to block.
LEMMA NextSafe ==
  ASSUME Types, Control, Unique, Contents, Phase, ItemsCountBlockers,
         ShutdownIsSafe, Next
  PROVE  ShutdownIsSafe'
<1>0. Types' /\ ItemsCountBlockers'
  BY NextTypes, NextItems
<1> USE DEF stateVars, poolVars, srcVars, runVars, postVars, flushVars
<1>1. ASSUME NEW t \in Threads, PostStep(t) PROVE ShutdownIsSafe'
  <2>1. CASE WillPostTaskCheck(t)
    BY <2>1
       DEF WillPostTaskCheck, Decided, Registered, SkipRunning, ShutdownIsSafe,
           Types, Control
  <2>2. CASE BeginPost(t)
    <3>1. dst[t] \in Sources /\ ticket[t] = None
      BY <2>2 DEF BeginPost, Control
    <3>2. UNCHANGED <<queued, cur, run, sub, main, shutdown_event>>
      BY <2>2 DEF BeginPost
    <3>3. \/ ticket' = ticket /\ late' = late
          \/ /\ ticket' = [ticket EXCEPT ![t] = dst[t]]
             /\ late' = late /\ ~Block(dst[t])
          \/ /\ ticket' = [ticket EXCEPT ![t] = dst[t]]
             /\ late' = IF Decided THEN late \cup {dst[t]} ELSE late
      BY <2>2 DEF BeginPost
    <3>4. Decided' <=> Decided
      BY <3>2 DEF Decided
    <3>5. \A u \in Threads : SkipRunning(u)' <=> SkipRunning(u)
      BY <3>2 DEF SkipRunning
    <3>6. \A s \in Sources : s \in Registered' => s \in Registered \/ s = ticket'[t]
      BY <3>1, <3>2, <3>3, ThreadsAssumption DEF Registered, Types
    <3>7. ASSUME Decided PROVE {s \in Registered' : Block(s)} \subseteq late'
      <4>1. {s \in Registered : Block(s)} \subseteq late
        BY <3>7 DEF ShutdownIsSafe
      <4>2. late \subseteq late'
        BY <3>3
      <4>3. Registered' \subseteq Sources
        BY <3>1, <3>2, <3>3 DEF Registered, Types
      <4>4. ticket'[t] # None /\ Block(ticket'[t]) => ticket'[t] \in late'
        BY <3>1, <3>3, <3>7 DEF Types
      <4> QED
        BY <3>6, <4>1, <4>2, <4>3, <4>4, ThreadsAssumption
    <3> QED
      BY <3>4, <3>5, <3>7 DEF ShutdownIsSafe, Block
  <2>3. CASE BeforeQueueCheck(t)
    BY <2>3
       DEF BeforeQueueCheck, Decided, Registered, SkipRunning, ShutdownIsSafe,
           Types, Control
  <2>4. CASE RegisterTaskSource(t)
    BY <2>4
       DEF RegisterTaskSource, Decided, Registered, SkipRunning,
           ShutdownIsSafe, Types, Control
  <2>5. CASE FinishPost(t)
    <3> DEFINE d == dst[t]
    <3>1. d \in Sources /\ ticket[t] \in {None, d} /\ sub[t] = "none"
      BY <2>5 DEF FinishPost, Control
    <3>2. UNCHANGED <<cur, run, main, shutdown_event>> /\ ticket' = [ticket EXCEPT ![t] = None]
      BY <2>5 DEF FinishPost
    <3>3. Decided' <=> Decided
      <4>1. \A u \in Threads :
              sub'[u] \in {"signal", "unreg_signal"} <=> sub[u] \in {"signal", "unreg_signal"}
        BY <2>5, <3>1 DEF FinishPost, UnregisterPc, Types
      <4> QED
        BY <3>2, <4>1 DEF Decided
    <3>4. \A u \in Threads : SkipRunning(u)' <=> SkipRunning(u)
      BY <3>2 DEF SkipRunning
    <3>5. CASE ~(ripe[t] /\ started) \/ ticket[t] = None
      <4>1. late' = late /\ queued' = IF ticket[t] = None THEN queued ELSE queued \cup {d}
        BY <2>5, <3>5 DEF FinishPost
      <4>2. Registered' = Registered
        BY <3>1, <3>2, <4>1, ThreadsAssumption DEF Registered, Types
      <4> QED
        BY <3>3, <3>4, <4>1, <4>2 DEF ShutdownIsSafe
    <3>6. CASE ripe[t] /\ started /\ ticket[t] # None
      <4>1. queued' = queued /\ late' = late \ {d} /\ ticket[t] = d
        BY <2>5, <3>1, <3>6 DEF FinishPost
      <4>2. Registered' = Registered \ {d}
        BY <3>1, <3>2, <4>1, ThreadsAssumption DEF Registered, Types, Unique
      <4> QED
        BY <3>3, <3>4, <4>1, <4>2 DEF ShutdownIsSafe
    <3> QED
      BY <3>5, <3>6
  <2>6. CASE EndTransaction(t)
    BY <2>6
       DEF EndTransaction, Decided, Registered, SkipRunning, ShutdownIsSafe,
           Types, Control
  <2> QED
    BY <1>1, <2>1, <2>2, <2>3, <2>4, <2>5, <2>6 DEF PostStep
<1>2. ASSUME NEW t \in Threads, SubStep(t) PROVE ShutdownIsSafe'
  <2>1. CASE DecrementItems(t)
    <3>1. UNCHANGED <<queued, cur, ticket, run, main, shutdown_event, late>>
      BY <2>1 DEF DecrementItems
    <3>2. CASE LastItem
      <4>1. items' = 0
        BY <2>1, <3>2 DEF DecrementItems, LastItem
      <4> QED
        BY <1>0, <4>1, NoItemsSafe
    <3>3. CASE ~LastItem
      <4>1. Decided' => Decided
        BY <2>1, <3>1, <3>3 DEF DecrementItems, Decided, Types
      <4> QED
        BY <3>1, <4>1 DEF ShutdownIsSafe, SkipRunning, Registered
    <3> QED
      BY <3>2, <3>3
  <2>2. CASE SignalShutdown(t)
    BY <2>2
       DEF SignalShutdown, Decided, Registered, SkipRunning, ShutdownIsSafe,
           Types, Control
  <2>3. CASE DecrementIncomplete(t)
    BY <2>3
       DEF DecrementIncomplete, Decided, Registered, SkipRunning,
           ShutdownIsSafe, Types, Control
  <2>4. CASE SignalFlush(t)
    BY <2>4
       DEF SignalFlush, Decided, Registered, SkipRunning, ShutdownIsSafe,
           Types, Control
  <2>5. CASE EndUnregister(t)
    BY <2>5
       DEF EndUnregister, Decided, Registered, SkipRunning, ShutdownIsSafe,
           Types, Control
  <2> QED
    BY <1>2, <2>1, <2>2, <2>3, <2>4, <2>5 DEF SubStep
<1>3. ASSUME NEW t \in Threads, RunStep(t) PROVE ShutdownIsSafe'
  <2>1. ASSUME NEW s \in Sources, GetWork(t, s) PROVE ShutdownIsSafe'
    <3>1. cur[t] = None /\ UNCHANGED <<sub, main, shutdown_event, late>>
      BY <2>1 DEF GetWork, Control
    <3>2. Registered' = Registered
      BY <2>1, <3>1, ThreadsAssumption DEF GetWork, Registered, Types
    <3>3. \A u \in Threads : SkipRunning(u)' => SkipRunning(u)
      BY <2>1 DEF GetWork, SkipRunning, Types
    <3> QED
      BY <3>1, <3>2, <3>3 DEF Decided, ShutdownIsSafe
  <2>2. CASE BeforeRunTask(t)
    <3>1. UNCHANGED <<queued, cur, ticket, main, shutdown_event, late, started>>
      BY <2>2 DEF BeforeRunTask
    <3>2. Decided' <=> Decided
      BY <2>2, <3>1 DEF BeforeRunTask, Decided, Types, Control
    <3>3. Decided => started
      BY DEF Decided, Phase
    <3>4. \A u \in Threads : SkipRunning(u)' => SkipRunning(u) \/ ~started
      BY <2>2 DEF BeforeRunTask, MayRun, Block, SkipRunning, Types
    <3> QED
      BY <3>1, <3>2, <3>3, <3>4 DEF ShutdownIsSafe, Registered
  <2>3. CASE TakeOrClear(t)
    BY <2>3
       DEF TakeOrClear, Decided, Registered, SkipRunning, ShutdownIsSafe,
           Types, Control
  <2>4. CASE AfterRunTask(t)
    BY <2>4
       DEF AfterRunTask, Decided, Registered, SkipRunning, ShutdownIsSafe,
           Types, Control
  <2>5. CASE EndRun(t)
    <3> DEFINE d == cur[t]
    <3>1. d \in Sources /\ sub[t] = "none" /\ run[t] = "did"
      BY <2>5 DEF EndRun, Control, Types
    <3>2. UNCHANGED <<queued, ticket, main, shutdown_event>>
      BY <2>5 DEF EndRun
    <3>3. Decided' <=> Decided
      <4>1. \A u \in Threads :
              sub'[u] \in {"signal", "unreg_signal"} <=> sub[u] \in {"signal", "unreg_signal"}
        BY <2>5, <3>1 DEF EndRun, UnregisterPc, Types
      <4> QED
        BY <3>2, <4>1 DEF Decided
    <3>4. \A u \in Threads : SkipRunning(u)' => SkipRunning(u)
      BY <2>5, <3>1 DEF EndRun, SkipRunning, Types
    <3>5. CASE MustReenqueue(seq[d])
      <4>1. cur' = cur /\ late' = late
        BY <2>5, <3>5 DEF EndRun
      <4> QED
        BY <3>2, <3>3, <3>4, <4>1 DEF ShutdownIsSafe, Registered
    <3>6. CASE ~MustReenqueue(seq[d])
      <4>1. cur' = [cur EXCEPT ![t] = None] /\ late' = late \ {d}
        BY <2>5, <3>6 DEF EndRun
      <4>2. Registered' = Registered \ {d}
        BY <3>1, <3>2, <4>1, ThreadsAssumption DEF Registered, Types, Unique
      <4> QED
        BY <3>3, <3>4, <4>1, <4>2 DEF ShutdownIsSafe
    <3> QED
      BY <3>5, <3>6
  <2>6. CASE ReEnqueue(t)
    <3>1. cur[t] \in Sources /\ UNCHANGED <<sub, main, shutdown_event, late>>
      BY <2>6 DEF ReEnqueue, Control, Types
    <3>2. Registered' = Registered
      BY <2>6, <3>1, ThreadsAssumption DEF ReEnqueue, Registered, Types
    <3>3. \A u \in Threads : SkipRunning(u)' => SkipRunning(u)
      BY <2>6 DEF ReEnqueue, SkipRunning, Types
    <3> QED
      BY <3>1, <3>2, <3>3 DEF Decided, ShutdownIsSafe
  <2> QED
    BY <1>3, <2>1, <2>2, <2>3, <2>4, <2>5, <2>6 DEF RunStep
<1>4. ASSUME NEW t \in Threads, Call(t) PROVE ShutdownIsSafe'
  <2>1. ASSUME NEW s \in Sources, NEW d \in BOOLEAN, WillPostTask(t, s, d)
        PROVE ShutdownIsSafe'
    BY <2>1
       DEF WillPostTask, Decided, Registered, SkipRunning, ShutdownIsSafe,
           Types, Control, MayPost
  <2>2. ASSUME NEW s \in Sources, PostRipeTask(t, s) PROVE ShutdownIsSafe'
    BY <2>2
       DEF PostRipeTask, Decided, Registered, SkipRunning, ShutdownIsSafe,
           Types, Control, MayPost
  <2> QED
    BY <1>4, <2>1, <2>2 DEF Call
<1>5. CASE MainStep
  <2>1. UNCHANGED <<items, queued, cur, ticket, run, sub, late>>
    BY <1>5, MainFrame
  <2>2. CASE StartShutdown
    <3>1. CASE items = 0
      BY <1>0, <2>1, <3>1, NoItemsSafe
    <3>2. CASE items # 0
      <4>1. main' = "policy" /\ shutdown_event' = "reset"
        BY <2>2, <3>2 DEF StartShutdown
      <4>2. Decided' => Decided
        BY <2>1, <4>1 DEF Decided
      <4> QED
        BY <2>1, <4>2 DEF ShutdownIsSafe, SkipRunning, Registered
    <3> QED
      BY <3>1, <3>2
  <2>3. CASE ~StartShutdown
    <3>1. Decided' => Decided
      BY <1>5, <2>1, <2>3
         DEF MainStep, FenceStep, BeginFence, EndFence, BeginBestEffortFence,
             EndBestEffortFence, ChangeFences, StopServiceThread, ShutdownStep,
             StartShutdownSignal, UpdateCanRunPolicy, CompleteShutdownStep,
             CompleteShutdown, FlushForTesting, FlushAsyncStep, Decided
    <3> QED
      BY <2>1, <3>1 DEF ShutdownIsSafe, SkipRunning, Registered
  <2> QED
    BY <2>2, <2>3
<1> QED
  BY <1>1, <1>2, <1>3, <1>4, <1>5 DEF Next, MainStep

-----------------------------------------------------------------------------
(***************************************************************************)
(* The inductive invariant and what follows from it                        *)
(***************************************************************************)

LEMMA InitInd == Init => IndInv
<1> SUFFICES ASSUME Init PROVE IndInv
  OBVIOUS
<1>1. Types
  BY InitTypes
<1>2. Control
  BY DEF Init, Control
<1>3. Unique
  BY ThreadsAssumption DEF Init, Unique
<1>4. Contents
  BY DEF Init, Contents, EmptySequence, WillPushTask
<1>5. Phase
  BY DEF Init, Phase
<1>6. Registered = {}
  BY ThreadsAssumption DEF Init, Registered
<1>7. Blockers = {} /\ Counted = {}
  BY <1>6 DEF Init, Blockers, Counted, SkipRunning
<1>8. Accounting
  BY <1>7, FS_EmptySet
     DEF Init, Accounting, ItemsCountBlockers, IncompleteCountsSources
<1>9. ShutdownIsSafe
  BY <1>6 DEF Init, ShutdownIsSafe, SkipRunning
<1> QED
  BY <1>1, <1>2, <1>3, <1>4, <1>5, <1>8, <1>9 DEF IndInv

LEMMA NextInd == IndInv /\ [Next]_vars => IndInv'
<1> SUFFICES ASSUME IndInv, [Next]_vars PROVE IndInv'
  OBVIOUS
<1>1. CASE Next
  BY <1>1, NextTypes, NextControl, NextUnique, NextContents, NextPhase, NextItems,
     NextIncomplete, NextSafe DEF IndInv, Accounting
<1>2. CASE UNCHANGED vars
  <2> USE <1>2 DEF vars, stateVars, poolVars, srcVars, runVars, postVars, flushVars
  <2>1. Types'
    BY DEF IndInv, Types
  <2>2. Control' /\ Unique'
    BY DEF IndInv, Control, Unique
  <2>3. Contents' /\ Phase'
    BY DEF IndInv, Contents, Phase, Registered
  <2>4. Accounting'
    BY DEF IndInv, Accounting, ItemsCountBlockers, IncompleteCountsSources,
           Blockers,
           Counted, Registered, SkipRunning
  <2>5. ShutdownIsSafe'
    BY DEF IndInv, ShutdownIsSafe, Decided, Registered, SkipRunning
  <2> QED
    BY <2>1, <2>2, <2>3, <2>4, <2>5 DEF IndInv
<1> QED
  BY <1>1, <1>2

\* IndInv holds in every state the pool reaches.
THEOREM Invariance == Spec => []IndInv
BY InitInd, NextInd, PTL DEF Spec

\* The variables keep their types; in particular neither the item counter of
\* State::bits_ nor num_incomplete_task_sources_ ever underflows.
THEOREM TypeCorrect == Spec => []TypeOK
<1>1. IndInv => TypeOK
  <2> SUFFICES ASSUME IndInv PROVE TypeOK
    OBVIOUS
  <2>1. items \in Nat /\ incomplete \in Nat
    BY FiniteBlockers, FiniteCounted, FS_CardinalityType
       DEF IndInv, Accounting, ItemsCountBlockers, IncompleteCountsSources
  <2> QED
    BY <2>1 DEF IndInv, Types, TypeOK, SequenceType
<1> QED
  BY <1>1, Invariance, PTL

\* When TaskTracker signals that shutdown is complete, or has committed to it,
\* every SKIP_ON_SHUTDOWN task that started has ended and every BLOCK_SHUTDOWN
\* source posted in time has run its last task.
THEOREM ShutdownSafety == Spec => []ShutdownIsSafe
<1>1. IndInv => ShutdownIsSafe
  BY DEF IndInv
<1> QED
  BY <1>1, Invariance, PTL

\* The item counter of State::bits_ is the number of things that block shutdown,
\* through every transient increment of BeforeRunTask() and its undo.
THEOREM ItemsExact == Spec => []ItemsCountBlockers
<1>1. IndInv => ItemsCountBlockers
  BY DEF IndInv, Accounting
<1> QED
  BY <1>1, Invariance, PTL

\* num_incomplete_task_sources_ is the number of registered sources and of
\* unregistrations on their way to DecrementNumIncompleteTaskSources().
THEOREM IncompleteExact == Spec => []IncompleteCountsSources
<1>1. IndInv => IncompleteCountsSources
  BY DEF IndInv, Accounting
<1> QED
  BY <1>1, Invariance, PTL

\* No task that blocks shutdown, and no source that was posted in time, ever
\* fails a shutdown DCHECK of WillPostTask(), BeforeQueueTaskSource(),
\* BeforeRunTask() or DecrementNumItemsBlockingShutdown().
THEOREM DChecksHold == Spec => []ShutdownDChecks
<1>1. IndInv => ShutdownDChecks
  <2> SUFFICES ASSUME IndInv, NEW t \in Threads
               PROVE  /\ post[t] \in {"check", "recheck"} =>
                           /\ shutdown_event # "null"
                           /\ BlocksShutdown(t) => shutdown_event # "signaled"
                      /\ run[t] = "before" /\ Block(cur[t]) =>
                           items > 0 /\ (IsShutdownComplete => cur[t] \in late)
                      /\ sub[t] \in {"signal", "unreg_signal"} => shutdown_event # "null"
    BY DEF ShutdownDChecks
  <2>1. cur[t] # None => cur[t] \in Registered
    BY DEF IndInv, Types, Registered
  <2>2. BlocksShutdown(t) => ~Decided
    BY <2>1, ThreadsAssumption
       DEF BlocksShutdown, IndInv, ShutdownIsSafe, SkipRunning, Control, Block
  <2>3. run[t] = "before" /\ Block(cur[t]) => cur[t] \in Blockers
    BY <2>1 DEF IndInv, Control, Blockers
  <2>4. run[t] = "before" /\ Block(cur[t]) => items > 0
    <3>1. Blockers # {} => items # 0 /\ items \in Nat
      BY FiniteBlockers, FS_EmptySet, FS_CardinalityType
         DEF IndInv, Accounting, ItemsCountBlockers
    <3> QED
      BY <2>3, <3>1
  <2>5. run[t] = "before" /\ Block(cur[t]) /\ Decided => cur[t] \in late
    BY <2>1 DEF IndInv, Control, ShutdownIsSafe
  <2>6. post[t] \in {"check", "recheck"} => shutdown_event # "null"
    BY DEF IndInv, Phase
  <2>7. sub[t] \in {"signal", "unreg_signal"} => shutdown_event # "null"
    BY DEF IndInv, Phase
  <2> QED
    BY <2>2, <2>4, <2>5, <2>6, <2>7 DEF Decided, IsShutdownComplete
<1> QED
  BY <1>1, Invariance, PTL

\* A Sequence has one owner at a time, none is stranded with tasks, has_worker_
\* is set exactly while a thread works on it, and its reference on its task
\* runner is taken and released in pairs.
THEOREM OwnershipHolds == Spec => []SequenceOwnership
<1>1. IndInv => SequenceOwnership
  <2> SUFFICES ASSUME IndInv, NEW s \in Sources
               PROVE  /\ Cardinality(Owners(s)) <= 1
                      /\ seq[s].queue # <<>> => Owners(s) # {}
                      /\ seq[s].has_worker <=>
                           \E t \in Threads : cur[t] = s /\ run[t] # "reenqueue"
                      /\ seq[s].runner_refs =
                           IF seq[s].queue # <<>> \/ seq[s].has_worker THEN 1 ELSE 0
    BY DEF SequenceOwnership
  <2> USE DEF IndInv
  <2>1. s # None /\ s \notin Threads
    BY ThreadsAssumption
  <2>2. \A a, b \in Owners(s) : a = b
    BY <2>1 DEF Owners, Unique
  <2>3. Cardinality(Owners(s)) <= 1
    <3>1. CASE Owners(s) = {}
      BY <3>1, FS_EmptySet
    <3>2. CASE Owners(s) # {}
      <4>1. PICK o : Owners(s) = {o}
        BY <2>2, <3>2
      <4> QED
        BY <4>1, FS_Singleton
    <3> QED
      BY <3>1, <3>2
  <2>4. Owners(s) = {} <=> s \notin Registered
    BY DEF Owners, Registered
  <2>5. seq[s].queue # <<>> => Owners(s) # {}
    BY <2>4 DEF Contents, WillPushTask
  <2>6. ASSUME seq[s].has_worker
        PROVE  \E t \in Threads : cur[t] = s /\ run[t] # "reenqueue"
    BY <2>1, <2>6 DEF Contents, WillPushTask, Registered, Control
  <2>7. ASSUME NEW t \in Threads, cur[t] = s, run[t] # "reenqueue"
        PROVE  seq[s].has_worker
    BY <2>1, <2>7 DEF Contents, Control, Types, RunPcs
  <2>8. seq[s].runner_refs =
          IF seq[s].queue # <<>> \/ seq[s].has_worker THEN 1 ELSE 0
    BY DEF Contents, WillPushTask
  <2>9. seq[s].has_worker <=>
          \E t \in Threads : cur[t] = s /\ run[t] # "reenqueue"
    BY <2>6, <2>7
  <2> QED
    BY <2>3, <2>5, <2>8, <2>9
<1> QED
  BY <1>1, Invariance, PTL
=============================================================================
