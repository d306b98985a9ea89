---------------------- MODULE SingleThreadManagerProofs ----------------------
(***************************************************************************)
(* Machine-checked proofs about SingleThreadManager: the wake-up flag of a *)
(* worker is exact, a worker is cleaned up exactly when nobody can want it *)
(* any more, and, when no fence begins before Start(), no work is left to  *)
(* a worker that sleeps. For any runners, workers, clients and bounds.     *)
(***************************************************************************)
EXTENDS SingleThreadManager, FiniteSetTheorems, TLAPS

WorkerPcs == {"none", "wait", "loop", "get_work", "no_work", "run", "did_process",
              "enqueue", "unregister", "cleanup", "reset", "exited"}
ClientPcs == {"idle", "wake", "start", "unregister", "cleanup"}
MainPcs == {"idle", "did_update", "update", "wake", "start", "start_workers"}

WorkerType == [pc : WorkerPcs, awake : BOOLEAN, event : BOOLEAN, should_exit : BOOLEAN,
               source : SUBSET Runners]
RunnerType == [created : BOOLEAN, holders : SUBSET Clients, tasks : Int,
               has_worker : BOOLEAN]
ActorType == [pc : ClientPcs \cup MainPcs, worker : Workers \cup {NoWorker},
              todo : SUBSET Workers]

Types ==
  /\ policy \in {"all", "foreground", "none"} /\ started_ \in BOOLEAN
  /\ num_fences_ \in Int /\ num_best_effort_fences_ \in Int
  /\ posted \in 0..MaxTasks /\ workers_ \subseteq Workers
  /\ worker \in [Workers -> WorkerType]
  /\ queue \in [Workers -> SUBSET Runners]
  /\ runner \in [Runners -> RunnerType]
  /\ actor \in [Actors -> ActorType]

\* Which places of the code an actor can be at, and with which worker.
Control ==
  /\ \A c \in Clients :
       /\ actor[c].pc \in ClientPcs
       /\ actor[c].pc # "idle" => actor[c].worker \in Workers
       /\ actor[c].pc = "wake" =>
            \E r \in RunnersOf(actor[c].worker) : c \in runner[r].holders
       /\ actor[c].pc = "start" => started_
  /\ actor[Main].pc \in MainPcs
  /\ actor[Main].pc = "wake" => actor[Main].worker \in Workers
  /\ actor[Main].pc = "start" => ~started_
  /\ actor[Main].pc = "start_workers" => started_
  /\ ~started_ => \A w \in Workers : WorkerAt(w, "none")

\* What the queue and the source of a worker say of a Sequence.
Sequences ==
  /\ \A r \in Runners :
       /\ 0 <= runner[r].tasks /\ runner[r].tasks <= posted
       /\ ~runner[r].created => runner[r].holders = {} /\ ~SelfReference(r)
  /\ \A w \in Workers : queue[w] \subseteq RunnersOf(w) /\ worker[w].source \subseteq RunnersOf(w)
  /\ \A w \in Workers : \A r \in queue[w] : runner[r].tasks > 0 /\ ~runner[r].has_worker
  /\ \A w \in Workers : \A r, s \in worker[w].source : r = s
  /\ \A w \in Workers : \A r \in worker[w].source :
       /\ WorkerAt(w, "run") => runner[r].tasks > 0 /\ runner[r].has_worker
       /\ WorkerAt(w, "did_process") => runner[r].has_worker
       /\ WorkerAt(w, "enqueue") => runner[r].tasks > 0 /\ ~runner[r].has_worker

Created(w) == \E r \in RunnersOf(w) : runner[r].created
ToBeStarted(w) ==
  \/ \E c \in Clients : actor[c].pc = "start" /\ actor[c].worker = w
  \/ actor[Main].pc = "start_workers" /\ w \in actor[Main].todo

\* From the first runner of a worker to the worker's cleanup.
Lifetime ==
  \A w \in Workers :
    /\ Orphaned(w) <=> worker[w].should_exit \/ Releasing(w)
    /\ Created(w) /\ ~Orphaned(w) => w \in workers_
    /\ \/ worker[w].should_exit \/ WorkerAt(w, "cleanup")
       \/ \E c \in Clients : actor[c].worker = w /\ actor[c].pc = "cleanup"
       => w \notin workers_
    /\ worker[w].should_exit /\ WorkerAt(w, "wait") => worker[w].event

\* A worker has a single starter.
Starts ==
  /\ \A w \in Workers :
       /\ w \in workers_ \/ ToBeStarted(w) \/ ~WorkerAt(w, "none") => Created(w)
       /\ ToBeStarted(w) => WorkerAt(w, "none")
  /\ \A c \in Clients : actor[c].pc = "start" =>
       /\ ~(actor[Main].pc = "start_workers" /\ actor[c].worker \in actor[Main].todo)
       /\ \A d \in Clients :
            actor[d].pc = "start" /\ actor[d].worker = actor[c].worker => c = d

\* worker_awake_, the event and the calls of WakeUp() under way.
WakeUps ==
  /\ actor[Main].pc = "wake" => queue[actor[Main].worker] # {}
  /\ \A w \in Workers : worker[w].should_exit => WakingUp(w) = {}
  /\ \A w \in Workers : worker[w].pc = "get_work" => worker[w].awake
  /\ \A w \in Workers : ~worker[w].should_exit =>
       IF worker[w].pc \in {"none", "wait", "no_work"}
       THEN /\ worker[w].awake => \/ worker[w].event /\ WakingUp(w) = {}
                                  \/ ~worker[w].event /\ \E a \in Actors : WakingUp(w) = {a}
            /\ ~worker[w].awake => ~worker[w].event /\ WakingUp(w) = {}
       ELSE worker[w].awake /\ ~worker[w].event /\ WakingUp(w) = {}

\* Before Start() the policy only gets stricter, once, if no fence begins before.
Policy ==
  ~FencesBeforeStart =>
    /\ ~started_ => /\ num_fences_ = 0 /\ num_best_effort_fences_ = 0
                    /\ policy = "all" \/ policy = UpdatedPolicy(0, 0)
    /\ actor[Main].pc = "did_update" => started_
    /\ NoForgottenWork

IndInv == Types /\ Control /\ Sequences /\ Lifetime /\ Starts /\ WakeUps /\ Policy

-----------------------------------------------------------------------------
(***************************************************************************)
(* The steps keep the invariant.                                           *)
(***************************************************************************)
\* The steps with which the main thread begins to change the policy.
FenceStep == BeginFence \/ EndFence \/ BeginBestEffortFence \/ EndBestEffortFence \/ Start

\* They touch nothing but the policy and the place of the main thread.
LEMMA FenceFrame ==
  ASSUME Types, FenceStep
  PROVE  /\ actor[Main].pc = "idle"
         /\ \/ actor' = [actor EXCEPT ![Main].pc = "did_update"]
            \/ ~started_ /\ actor' = [actor EXCEPT ![Main].pc = "start"]
         /\ policy' \in {"all", "foreground", "none"}
         /\ num_fences_' \in Int /\ num_best_effort_fences_' \in Int
         /\ UNCHANGED <<posted, started_, workers_, worker, queue, runner>>
BY DEF FenceStep, BeginFence, EndFence, BeginBestEffortFence, EndBestEffortFence, Start,
       SetCanRunPolicy, UpdatedPolicy, Types

\* The worker of a runner is a worker.
LEMMA WorkerOfType == \A r \in Runners : WorkerOf[r] \in Workers /\ r \in RunnersOf(WorkerOf[r])
BY DEF Workers, RunnersOf

\* A worker's step to another place keeps its type.
LEMMA GoesType ==
  ASSUME Types, NEW w \in Workers, NEW pc \in WorkerPcs, WorkerGoes(w, pc)
  PROVE  worker' \in [Workers -> WorkerType]
BY DEF Types, WorkerType, WorkerGoes

\* So does setting worker_awake_.
LEMMA AwakeType ==
  ASSUME Types, NEW w \in Workers, worker' = [worker EXCEPT ![w].awake = TRUE]
  PROVE  worker' \in [Workers -> WorkerType]
BY DEF Types, WorkerType

\* What GetWork() does when it takes a source.
LEMMA GetWorkEffect ==
  ASSUME Types, Sequences, NEW w \in Workers, GetWork(w), CanRunNext(queue[w])
  PROVE  \E r \in queue[w] :
           /\ r \in RunnersOf(w) /\ runner[r].created
           /\ queue' = [queue EXCEPT ![w] = queue[w] \ {r}]
           /\ worker' = [worker EXCEPT ![w].pc = "run", ![w].source = {r}]
           /\ runner' = [runner EXCEPT ![r].has_worker = TRUE]
           /\ UNCHANGED <<fences, posted, started_, workers_, actor>>
<1>1. PICK r \in Tops(queue[w]) :
        /\ queue' = [queue EXCEPT ![w] = @ \ {r}]
        /\ runner' = [runner EXCEPT ![r].has_worker = TRUE]
        /\ worker' = [worker EXCEPT ![w].pc = "run", ![w].source = {r}]
  BY DEF GetWork
<1>2. r \in queue[w] /\ r \in RunnersOf(w) /\ r \in Runners
  BY DEF Tops, Sequences, RunnersOf
<1>3. runner[r].created
  BY <1>2 DEF Sequences, SelfReference
<1> QED
  BY <1>1, <1>2, <1>3 DEF GetWork

\* The records an actor's place is set to are of its type.
LEMMA ActorTypes ==
  /\ Idle \in ActorType
  /\ \A pc \in ClientPcs \cup MainPcs, w \in Workers : Busy(pc, w) \in ActorType
BY DEF Idle, Busy, ActorType, ClientPcs, MainPcs

\* Every step keeps the types.
LEMMA NextTypes == Types /\ Control /\ Sequences /\ Next => Types'
<1> SUFFICES ASSUME Types, Control, Sequences, Next PROVE Types'
  OBVIOUS
<1> USE Parameters DEF fences, Actors
<1>1. ASSUME NEW w \in Workers, WorkerSteps(w) PROVE Types'
  <2>1. CASE WaitForWork(w)
    BY <2>1 DEF WaitForWork, WorkerAt, Types, WorkerType, RunnerType, ActorType, WorkerPcs,
                ClientPcs, MainPcs, Control
  <2>2. CASE ShouldExit(w)
    <3>1. \E pc \in WorkerPcs : WorkerGoes(w, pc)
      BY <2>2 DEF ShouldExit, WorkerPcs
    <3>2. worker' \in [Workers -> WorkerType]
      BY <3>1, GoesType
    <3> QED
      BY <2>2, <3>2 DEF ShouldExit, Types
  <2>3. CASE GetWork(w)
    <3>1. CASE CanRunNext(queue[w])
      <4>1. PICK r \in Tops(queue[w]) :
              /\ queue' = [queue EXCEPT ![w] = @ \ {r}]
              /\ runner' = [runner EXCEPT ![r].has_worker = TRUE]
              /\ worker' = [worker EXCEPT ![w].pc = "run", ![w].source = {r}]
        BY <2>3, <3>1 DEF GetWork
      <4>2. r \in Runners
        BY DEF Tops, Types
      <4>3. worker' \in [Workers -> WorkerType]
        <5>1. {r} \in SUBSET Runners /\ "run" \in WorkerPcs
          BY <4>2 DEF WorkerPcs
        <5>2. worker \in [Workers -> WorkerType]
          BY DEF Types
        <5> QED
          BY <4>1, <5>1, <5>2 DEF WorkerType
      <4>4. runner' \in [Runners -> RunnerType]
        BY <4>1, <4>2 DEF Types, RunnerType
      <4> QED
        BY <2>3, <4>1, <4>3, <4>4 DEF GetWork, Types
    <3>2. CASE ~CanRunNext(queue[w])
      BY <2>3, <3>2 DEF GetWork, Types, WorkerType, WorkerPcs
    <3> QED
      BY <3>1, <3>2
  <2>4. CASE TakeTask(w)
    <3>1. worker' \in [Workers -> WorkerType]
      BY <2>4, GoesType DEF TakeTask, WorkerPcs
    <3>2. runner' \in [Runners -> RunnerType]
      BY <2>4 DEF TakeTask, Types, RunnerType
    <3> QED
      BY <2>4, <3>1, <3>2 DEF TakeTask, Types
  <2>5. CASE DidProcessTask(w)
    <3>1. PICK r \in worker[w].source : runner' = [runner EXCEPT ![r].has_worker = FALSE]
      BY <2>5 DEF DidProcessTask
    <3>2. \E pc \in WorkerPcs : WorkerGoes(w, pc)
      BY <2>5 DEF DidProcessTask, WorkerPcs
    <3>3. worker' \in [Workers -> WorkerType]
      BY <3>2, GoesType
    <3>4. runner' \in [Runners -> RunnerType]
      BY <3>1 DEF Types, RunnerType, WorkerType
    <3> QED
      BY <2>5, <3>3, <3>4 DEF DidProcessTask, Types
  <2>6. CASE UnregisterItself(w)
    BY <2>6 DEF UnregisterItself, WorkerAt, WorkerGoes, Types, WorkerType, RunnerType,
                ActorType, WorkerPcs, ClientPcs, MainPcs, Control
  <2>7. CASE CleanupItself(w)
    BY <2>7 DEF CleanupItself, WorkerAt, Types, WorkerType, RunnerType, ActorType, WorkerPcs,
                ClientPcs, MainPcs, Control
  <2>8. CASE Reenqueue(w)
    BY <2>8 DEF Reenqueue, WorkerAt, Types, WorkerType, RunnerType, ActorType, WorkerPcs,
                ClientPcs, MainPcs, Control
  <2>9. CASE ResetEvent(w)
    BY <2>9 DEF ResetEvent, WorkerAt, Types, WorkerType, RunnerType, ActorType, WorkerPcs,
                ClientPcs, MainPcs, Control
  <2> QED
    BY <1>1, <2>1, <2>2, <2>3, <2>4, <2>5, <2>6, <2>7, <2>8, <2>9 DEF WorkerSteps
<1>2. ASSUME NEW c \in Clients, ActorSteps(c) PROVE Types'
  <2>1. CASE WakeUp(c)
    <3>1. c # Main /\ actor' = [actor EXCEPT ![c] = Idle]
      BY <2>1 DEF WakeUp
    <3>2. actor' \in [Actors -> ActorType]
      BY <3>1, ActorTypes DEF Types
    <3>3. worker' \in [Workers -> WorkerType]
      BY <2>1 DEF WakeUp, Types, WorkerType
    <3> QED
      BY <2>1, <3>2, <3>3 DEF WakeUp, Types
  <2>2. CASE StartWorker(c)
    BY <2>2 DEF StartWorker, StartThread, Idle, Types, WorkerType, RunnerType, ActorType,
                WorkerPcs, ClientPcs, MainPcs, Control
  <2>3. CASE UnregisterWorkerThread(c)
    BY <2>3 DEF UnregisterWorkerThread, Types, WorkerType, RunnerType, ActorType, WorkerPcs,
                ClientPcs, MainPcs, Control
  <2>4. CASE Cleanup(c)
    <3>1. actor' \in [Actors -> ActorType]
      BY <2>4, ActorTypes DEF Cleanup, Types
    <3>2. worker' \in [Workers -> WorkerType]
      BY <2>4 DEF Cleanup, Types, WorkerType
    <3> QED
      BY <2>4, <3>1, <3>2 DEF Cleanup, Types
  <2> QED
    BY <1>2, <2>1, <2>2, <2>3, <2>4 DEF ActorSteps
<1>3. ASSUME NEW c \in Clients, NEW r \in Runners,
             CreateTaskRunner(c, r) \/ PostTaskNow(c, r) \/ DropReference(c, r)
      PROVE  Types'
  <2>1. CASE CreateTaskRunner(c, r)
    <3>1. actor' = actor \/ actor' = [actor EXCEPT ![c] = Busy("start", WorkerOf[r])]
      BY <2>1 DEF CreateTaskRunner
    <3>2. actor' \in [Actors -> ActorType]
      BY <3>1, ActorTypes, WorkerOfType DEF Types, ClientPcs
    <3>3. workers_' \subseteq Workers
      BY <2>1, WorkerOfType DEF CreateTaskRunner, Types
    <3>4. runner' \in [Runners -> RunnerType]
      BY <2>1 DEF CreateTaskRunner, Types, RunnerType
    <3> QED
      BY <2>1, <3>2, <3>3, <3>4 DEF CreateTaskRunner, Types
  <2>2. CASE PostTaskNow(c, r)
    <3>1. actor' = actor \/ actor' = [actor EXCEPT ![c] = Busy("wake", WorkerOf[r])]
      BY <2>2 DEF PostTaskNow
    <3>2. actor' \in [Actors -> ActorType]
      BY <3>1, ActorTypes, WorkerOfType DEF Types, ClientPcs
    <3>3. worker' = worker \/ worker' = [worker EXCEPT ![WorkerOf[r]].awake = TRUE]
      BY <2>2 DEF PostTaskNow
    <3>4. worker' \in [Workers -> WorkerType]
      BY <3>3, WorkerOfType, AwakeType DEF Types
    <3>5. runner' \in [Runners -> RunnerType]
      BY <2>2 DEF PostTaskNow, Types, RunnerType
    <3>6. queue' = queue \/ queue' = [queue EXCEPT ![WorkerOf[r]] = @ \cup {r}]
      BY <2>2 DEF PostTaskNow
    <3>7. queue' \in [Workers -> SUBSET Runners]
      BY <3>6 DEF Types
    <3>8. posted' \in 0..MaxTasks
      BY <2>2 DEF PostTaskNow, Types
    <3> QED
      BY <2>2, <3>2, <3>4, <3>5, <3>7, <3>8 DEF PostTaskNow, Types
  <2>3. CASE DropReference(c, r)
    <3>1. actor' = actor \/ actor' = [actor EXCEPT ![c] = Busy("unregister", WorkerOf[r])]
      BY <2>3 DEF DropReference
    <3>2. actor' \in [Actors -> ActorType]
      BY <3>1, ActorTypes, WorkerOfType DEF Types, ClientPcs
    <3>3. runner' \in [Runners -> RunnerType]
      BY <2>3 DEF DropReference, Types, RunnerType
    <3> QED
      BY <2>3, <3>2, <3>3 DEF DropReference, Types
  <2> QED
    BY <1>3, <2>1, <2>2, <2>3
<1>4. CASE MainSteps
  <2>1. CASE WakeUp(Main)
    <3>1. actor' = [actor EXCEPT ![Main].pc = "update"]
      BY <2>1 DEF WakeUp
    <3>2. actor' \in [Actors -> ActorType]
      BY <3>1 DEF Types, ActorType, MainPcs
    <3>3. worker' \in [Workers -> WorkerType]
      BY <2>1 DEF WakeUp, Types, WorkerType
    <3> QED
      BY <2>1, <3>2, <3>3 DEF WakeUp, Types
  <2>2. CASE DidUpdateCanRunPolicy
    BY <2>2 DEF DidUpdateCanRunPolicy, Idle, Types, WorkerType, RunnerType, ActorType,
                WorkerPcs, ClientPcs, MainPcs, Control
  <2>3. CASE StartManager
    BY <2>3 DEF StartManager, Idle, Types, WorkerType, RunnerType, ActorType, WorkerPcs,
                ClientPcs, MainPcs, Control
  <2>4. CASE MainIsDone
    BY <2>4 DEF MainIsDone, Idle, Types, WorkerType, RunnerType, ActorType, WorkerPcs,
                ClientPcs, MainPcs, Control
  <2>5. ASSUME NEW w \in Workers, UpdateWorker(w) PROVE Types'
    <3>1. actor[Main] \in ActorType
      BY DEF Types
    <3>2. \A pc \in MainPcs : [pc |-> pc, worker |-> w, todo |-> actor[Main].todo \ {w}] \in ActorType
      BY <3>1 DEF ActorType
    <3>3. actor' \in [Actors -> ActorType]
      BY <2>5, <3>2 DEF UpdateWorker, Types, MainPcs
    <3>4. worker' \in [Workers -> WorkerType]
      BY <2>5 DEF UpdateWorker, Types, WorkerType
    <3> QED
      BY <2>5, <3>3, <3>4 DEF UpdateWorker, Types
  <2>6. ASSUME NEW w \in Workers, StartWorkers(w) PROVE Types'
    <3>1. worker' = worker \/ WorkerGoes(w, "wait")
      BY <2>6 DEF StartWorkers, StartThread, WorkerGoes
    <3>2. worker' \in [Workers -> WorkerType]
      BY <3>1, GoesType DEF Types, WorkerPcs
    <3>3. actor' \in [Actors -> ActorType]
      BY <2>6 DEF StartWorkers, Types, ActorType
    <3> QED
      BY <2>6, <3>2, <3>3 DEF StartWorkers, Types
  <2> QED
    BY <1>4, <2>1, <2>2, <2>3, <2>4, <2>5, <2>6 DEF MainSteps
<1>5. CASE FenceStep
  BY <1>5, FenceFrame DEF Types, WorkerType, RunnerType, ActorType, WorkerPcs, ClientPcs, MainPcs,
                          Control
<1> QED
  BY <1>1, <1>2, <1>3, <1>4, <1>5 DEF Next, FenceStep

\* Every step keeps actors and workers at places they can be at.
LEMMA NextControl == Types /\ Control /\ Next => Control'
<1> SUFFICES ASSUME Types, Control, Next PROVE Control'
  OBVIOUS
<1> USE Parameters DEF fences, Actors
<1>1. ASSUME NEW w \in Workers, WorkerSteps(w) PROVE Control'
  <2>1. CASE WaitForWork(w)
    BY <2>1 DEF WaitForWork, WorkerAt, Types, WorkerType, RunnerType, ActorType, WorkerPcs,
                ClientPcs, MainPcs, Control, RunnersOf
  <2>2. CASE ShouldExit(w)
    BY <2>2 DEF ShouldExit, WorkerAt, WorkerGoes, Types, WorkerType, RunnerType, ActorType,
                WorkerPcs, ClientPcs, MainPcs, Control, RunnersOf
  <2>3. CASE GetWork(w)
    <3>1. started_
      BY <2>3 DEF GetWork, WorkerAt, Control
    <3>2. \A r \in Runners : runner'[r].holders = runner[r].holders
      <4>1. \/ UNCHANGED runner
            \/ \E r \in Tops(queue[w]) : runner' = [runner EXCEPT ![r].has_worker = TRUE]
        BY <2>3 DEF GetWork
      <4> QED
        BY <4>1 DEF Types, RunnerType
    <3> QED
      BY <2>3, <3>1, <3>2 DEF GetWork, Control, RunnersOf
  <2>4. CASE TakeTask(w)
    BY <2>4 DEF TakeTask, WorkerAt, WorkerGoes, Types, WorkerType, RunnerType, ActorType,
                WorkerPcs, ClientPcs, MainPcs, Control, RunnersOf
  <2>5. CASE DidProcessTask(w)
    BY <2>5 DEF DidProcessTask, WorkerAt, WorkerGoes, Types, WorkerType, RunnerType, ActorType,
                WorkerPcs, ClientPcs, MainPcs, Control, RunnersOf
  <2>6. CASE UnregisterItself(w)
    BY <2>6 DEF UnregisterItself, WorkerAt, WorkerGoes, Types, WorkerType, RunnerType,
                ActorType, WorkerPcs, ClientPcs, MainPcs, Control, RunnersOf
  <2>7. CASE CleanupItself(w)
    BY <2>7 DEF CleanupItself, WorkerAt, Types, WorkerType, RunnerType, ActorType, WorkerPcs,
                ClientPcs, MainPcs, Control, RunnersOf
  <2>8. CASE Reenqueue(w)
    BY <2>8 DEF Reenqueue, WorkerAt, Types, WorkerType, RunnerType, ActorType, WorkerPcs,
                ClientPcs, MainPcs, Control, RunnersOf
  <2>9. CASE ResetEvent(w)
    BY <2>9 DEF ResetEvent, WorkerAt, Types, WorkerType, RunnerType, ActorType, WorkerPcs,
                ClientPcs, MainPcs, Control, RunnersOf
  <2> QED
    BY <1>1, <2>1, <2>2, <2>3, <2>4, <2>5, <2>6, <2>7, <2>8, <2>9 DEF WorkerSteps
<1>2. ASSUME NEW c \in Clients, ActorSteps(c) PROVE Control'
  <2>1. CASE WakeUp(c)
    BY <2>1 DEF WakeUp, Idle, Types, WorkerType, RunnerType, ActorType, WorkerPcs, ClientPcs,
                MainPcs, Control, RunnersOf, WorkerAt
  <2>2. CASE StartWorker(c)
    BY <2>2 DEF StartWorker, StartThread, Idle, Types, WorkerType, RunnerType, ActorType,
                WorkerPcs, ClientPcs, MainPcs, Control, RunnersOf, WorkerAt
  <2>3. CASE UnregisterWorkerThread(c)
    BY <2>3 DEF UnregisterWorkerThread, Types, WorkerType, RunnerType, ActorType, WorkerPcs,
                ClientPcs, MainPcs, Control, RunnersOf, WorkerAt
  <2>4. CASE Cleanup(c)
    BY <2>4 DEF Cleanup, Idle, Types, WorkerType, RunnerType, ActorType, WorkerPcs, ClientPcs,
                MainPcs, Control, RunnersOf, WorkerAt
  <2> QED
    BY <1>2, <2>1, <2>2, <2>3, <2>4 DEF ActorSteps
<1>3. ASSUME NEW c \in Clients, NEW r \in Runners,
             CreateTaskRunner(c, r) \/ PostTaskNow(c, r) \/ DropReference(c, r)
      PROVE  Control'
  <2>1. CASE CreateTaskRunner(c, r)
    <3>1. actor' = actor \/ (started_ /\ actor' = [actor EXCEPT ![c] = Busy("start", WorkerOf[r])])
      BY <2>1 DEF CreateTaskRunner
    <3>2. \A d \in Clients : \A s \in Runners : d \in runner[s].holders => d \in runner'[s].holders
      BY <2>1 DEF CreateTaskRunner, Types, RunnerType
    <3>3. UNCHANGED <<started_, worker>>
      BY <2>1 DEF CreateTaskRunner
    <3>4. \A a \in Actors : a # c => actor'[a] = actor[a]
      BY <3>1 DEF Types
    <3>5. actor'[c] = actor[c] \/ (started_ /\ actor'[c] = Busy("start", WorkerOf[r]))
      BY <3>1 DEF Types
    <3> QED
      BY <3>2, <3>3, <3>4, <3>5, WorkerOfType DEF Control, Busy, ClientPcs, RunnersOf, WorkerAt
  <2>2. CASE PostTaskNow(c, r)
    <3>1. \/ actor' = actor
          \/ actor' = [actor EXCEPT ![c] = Busy("wake", WorkerOf[r])]
      BY <2>2 DEF PostTaskNow
    <3>2. \A s \in Runners : runner'[s].holders = runner[s].holders
      BY <2>2 DEF PostTaskNow, Types, RunnerType
    <3>3. /\ UNCHANGED started_ /\ c \in runner[r].holders
          /\ worker' = worker \/ worker' = [worker EXCEPT ![WorkerOf[r]].awake = TRUE]
      BY <2>2 DEF PostTaskNow
    <3>4. \A w \in Workers : worker'[w].pc = worker[w].pc
      BY <3>3 DEF Types, WorkerType
    <3>5. \A a \in Actors : a # c => actor'[a] = actor[a]
      BY <3>1 DEF Types
    <3>6. actor'[c] = actor[c] \/ actor'[c] = Busy("wake", WorkerOf[r])
      BY <3>1 DEF Types
    <3> QED
      BY <3>2, <3>3, <3>4, <3>5, <3>6, WorkerOfType DEF Control, Busy, ClientPcs, RunnersOf,
             WorkerAt
  <2>3. CASE DropReference(c, r)
    <3>1. \/ actor' = actor
          \/ actor' = [actor EXCEPT ![c] = Busy("unregister", WorkerOf[r])]
      BY <2>3 DEF DropReference
    <3>2. \A d \in Clients : \A s \in Runners :
            d # c /\ d \in runner[s].holders => d \in runner'[s].holders
      BY <2>3 DEF DropReference, Types, RunnerType
    <3>3. UNCHANGED <<started_, worker>> /\ actor[c].pc = "idle"
      BY <2>3 DEF DropReference
    <3>4. \A a \in Actors : a # c => actor'[a] = actor[a]
      BY <3>1 DEF Types
    <3>5. actor'[c] = actor[c] \/ actor'[c] = Busy("unregister", WorkerOf[r])
      BY <3>1 DEF Types
    <3> QED
      BY <3>2, <3>3, <3>4, <3>5, WorkerOfType DEF Control, Busy, ClientPcs, RunnersOf, WorkerAt
  <2> QED
    BY <1>3, <2>1, <2>2, <2>3
<1>4. CASE MainSteps
  <2>1. CASE WakeUp(Main)
    BY <2>1 DEF WakeUp, Idle, Types, WorkerType, RunnerType, ActorType, WorkerPcs, ClientPcs,
                MainPcs, Control, RunnersOf, WorkerAt
  <2>2. CASE DidUpdateCanRunPolicy
    BY <2>2 DEF DidUpdateCanRunPolicy, Idle, Types, WorkerType, RunnerType, ActorType,
                WorkerPcs, ClientPcs, MainPcs, Control, RunnersOf, WorkerAt
  <2>3. CASE StartManager
    BY <2>3 DEF StartManager, Idle, Types, WorkerType, RunnerType, ActorType, WorkerPcs,
                ClientPcs, MainPcs, Control, RunnersOf, WorkerAt
  <2>4. CASE MainIsDone
    BY <2>4 DEF MainIsDone, Idle, Types, WorkerType, RunnerType, ActorType, WorkerPcs,
                ClientPcs, MainPcs, Control, RunnersOf, WorkerAt
  <2>5. ASSUME NEW w \in Workers, UpdateWorker(w) PROVE Control'
    BY <2>5 DEF UpdateWorker, Types, WorkerType, RunnerType, ActorType, WorkerPcs, ClientPcs,
                MainPcs, Control, RunnersOf, WorkerAt
  <2>6. ASSUME NEW w \in Workers, StartWorkers(w) PROVE Control'
    BY <2>6 DEF StartWorkers, StartThread, Types, WorkerType, RunnerType, ActorType, WorkerPcs,
                ClientPcs, MainPcs, Control, RunnersOf, WorkerAt
  <2> QED
    BY <1>4, <2>1, <2>2, <2>3, <2>4, <2>5, <2>6 DEF MainSteps
<1>5. CASE FenceStep
  BY <1>5, FenceFrame DEF Types, WorkerType, RunnerType, ActorType, WorkerPcs, ClientPcs, MainPcs,
                          Control, RunnersOf, WorkerAt
<1> QED
  BY <1>1, <1>2, <1>3, <1>4, <1>5 DEF Next, FenceStep

\* Every step keeps queues, sources and Sequences in step.
LEMMA NextSequences == Types /\ Control /\ Sequences /\ Lifetime /\ Next => Sequences'
<1> SUFFICES ASSUME Types, Control, Sequences, Lifetime, Next PROVE Sequences'
  OBVIOUS
<1> USE Parameters DEF fences, Actors
<1>1. ASSUME NEW w \in Workers, WorkerSteps(w) PROVE Sequences'
  <2>1. CASE WaitForWork(w)
    BY <2>1 DEF WaitForWork, WorkerAt, Types, WorkerType, RunnerType, ActorType, WorkerPcs,
                ClientPcs, MainPcs, Control, Sequences, RunnersOf, SelfReference
  <2>2. CASE ShouldExit(w)
    BY <2>2 DEF ShouldExit, WorkerAt, WorkerGoes, Types, WorkerType, RunnerType, ActorType,
                WorkerPcs, ClientPcs, MainPcs, Control, Sequences, RunnersOf, SelfReference
  <2>3. CASE GetWork(w)
    <3>1. CASE CanRunNext(queue[w])
      <4>1. PICK r \in queue[w] :
              /\ r \in RunnersOf(w) /\ runner[r].created
              /\ queue' = [queue EXCEPT ![w] = queue[w] \ {r}]
              /\ worker' = [worker EXCEPT ![w].pc = "run", ![w].source = {r}]
              /\ runner' = [runner EXCEPT ![r].has_worker = TRUE]
              /\ posted' = posted
        BY <2>3, <3>1, GetWorkEffect
      <4>2. \A s \in Runners :
              /\ runner'[s].tasks = runner[s].tasks /\ runner'[s].created = runner[s].created
              /\ runner'[s].holders = runner[s].holders
              /\ s # r => runner'[s].has_worker = runner[s].has_worker
        BY <4>1 DEF Types, RunnerType, RunnersOf
      <4>3. runner'[r].has_worker /\ runner[r].tasks > 0
        BY <4>1 DEF Types, RunnerType, RunnersOf, Sequences
      <4>4. /\ \A v \in Workers : v # w => worker'[v] = worker[v] /\ queue'[v] = queue[v]
            /\ worker'[w].pc = "run" /\ worker'[w].source = {r} /\ queue'[w] = queue[w] \ {r}
        BY <4>1 DEF Types, WorkerType
      <4>5. \A v \in Workers : v # w => r \notin queue[v] /\ r \notin worker[v].source
        BY <4>1 DEF Sequences, RunnersOf
      <4> QED
        <5>1. \A s \in Runners :
                /\ 0 <= runner'[s].tasks /\ runner'[s].tasks <= posted'
                /\ ~runner'[s].created => runner'[s].holders = {} /\ ~SelfReference(s)'
          BY <4>1, <4>2 DEF Sequences, SelfReference
        <5>2. \A v \in Workers : /\ queue'[v] \subseteq RunnersOf(v)
                                 /\ worker'[v].source \subseteq RunnersOf(v)
                                 /\ \A q, s \in worker'[v].source : q = s
          <6> SUFFICES ASSUME NEW v \in Workers
                       PROVE  /\ queue'[v] \subseteq RunnersOf(v)
                              /\ worker'[v].source \subseteq RunnersOf(v)
                              /\ \A q, s \in worker'[v].source : q = s
            OBVIOUS
          <6>1. CASE v = w
            <7>1. queue'[w] \subseteq queue[w] /\ queue[w] \subseteq RunnersOf(w)
              BY <4>4 DEF Sequences
            <7>2. worker'[w].source \subseteq RunnersOf(w)
              BY <4>1, <4>4
            <7>3. \A q, s \in worker'[w].source : q = s
              BY <4>4
            <7> QED
              BY <6>1, <7>1, <7>2, <7>3
          <6>2. CASE v # w
            BY <4>4, <6>2 DEF Sequences
          <6> QED
            BY <6>1, <6>2
        <5>3. \A v \in Workers : \A s \in queue'[v] :
                s # r /\ s \in Runners /\ runner[s].tasks > 0 /\ ~runner[s].has_worker
          BY <4>4, <4>5 DEF Sequences, RunnersOf
        <5>4. \A v \in Workers : \A s \in worker'[v].source :
                /\ worker'[v].pc = "run" => runner'[s].tasks > 0 /\ runner'[s].has_worker
                /\ worker'[v].pc = "did_process" => runner'[s].has_worker
                /\ worker'[v].pc = "enqueue" => runner'[s].tasks > 0 /\ ~runner'[s].has_worker
          <6> SUFFICES ASSUME NEW v \in Workers, NEW s \in worker'[v].source
                       PROVE  /\ worker'[v].pc = "run" => runner'[s].tasks > 0 /\ runner'[s].has_worker
                              /\ worker'[v].pc = "did_process" => runner'[s].has_worker
                              /\ worker'[v].pc = "enqueue" =>
                                   runner'[s].tasks > 0 /\ ~runner'[s].has_worker
            OBVIOUS
          <6>1. CASE v = w
            <7>1. s = r /\ r \in Runners /\ worker'[v].pc = "run"
              BY <4>1, <4>4, <6>1 DEF RunnersOf
            <7> QED
              BY <4>2, <4>3, <7>1
          <6>2. CASE v # w
            <7>1. s \in Runners /\ s # r /\ s \in worker[v].source
              BY <4>4, <4>5, <6>2 DEF Sequences, RunnersOf
            <7> QED
              BY <4>2, <4>4, <6>2, <7>1 DEF Sequences, WorkerAt
          <6> QED
            BY <6>1, <6>2
        <5> QED
          BY <4>2, <5>1, <5>2, <5>3, <5>4 DEF Sequences, RunnersOf, WorkerAt
    <3>2. CASE ~CanRunNext(queue[w])
      <4>1. UNCHANGED <<queue, runner, posted>>
        BY <2>3, <3>2 DEF GetWork
      <4>2. \A v \in Workers : /\ worker'[v].source = worker[v].source
                               /\ v # w => worker'[v] = worker[v]
                               /\ worker'[w].pc = "no_work"
        BY <2>3, <3>2 DEF GetWork, Types, WorkerType
      <4> QED
        BY <4>1, <4>2 DEF Sequences, SelfReference, WorkerAt, RunnersOf
    <3> QED
      BY <3>1, <3>2
  <2>4. CASE TakeTask(w)
    <3>1. \A s \in Runners :
            /\ runner'[s].created = runner[s].created /\ runner'[s].holders = runner[s].holders
            /\ runner'[s].has_worker = runner[s].has_worker
            /\ s \notin worker[w].source => runner'[s].tasks = runner[s].tasks
            /\ s \in worker[w].source => runner'[s].tasks = runner[s].tasks - 1
      BY <2>4 DEF TakeTask, Types, RunnerType
    <3>2. /\ \A v \in Workers : worker'[v].source = worker[v].source
          /\ \A v \in Workers : v # w => worker'[v] = worker[v]
          /\ worker'[w].pc = "did_process" /\ worker[w].pc = "run"
          /\ UNCHANGED <<queue, posted>>
      BY <2>4 DEF TakeTask, Types, WorkerType, WorkerGoes, WorkerAt
    <3>3. \A s \in worker[w].source : runner[s].tasks > 0 /\ runner[s].has_worker /\ s \in RunnersOf(w)
      BY <3>2 DEF Sequences, WorkerAt
    <3>4. \A s \in Runners : runner[s].tasks \in Int /\ posted \in Int
      BY DEF Types, RunnerType
    <3>5. \A s \in Runners : /\ 0 <= runner'[s].tasks /\ runner'[s].tasks <= posted'
                             /\ ~runner'[s].created => runner'[s].holders = {} /\ ~SelfReference(s)'
      BY <3>1, <3>2, <3>3, <3>4 DEF Sequences, SelfReference
    <3>6. \A v \in Workers : \A s \in queue[v] : s \notin worker[w].source
      BY <3>3 DEF Sequences
    <3>7. \A v \in Workers : v # w => \A s \in worker[v].source : s \notin worker[w].source
      BY DEF Sequences, RunnersOf
    <3>8. \A v \in Workers : /\ queue'[v] \subseteq RunnersOf(v)
                             /\ worker'[v].source \subseteq RunnersOf(v)
                             /\ \A q, s \in worker'[v].source : q = s
      BY <3>2 DEF Sequences
    <3>9. \A v \in Workers : \A s \in queue'[v] : runner'[s].tasks > 0 /\ ~runner'[s].has_worker
      BY <3>1, <3>2, <3>6, <3>8 DEF Sequences, RunnersOf
    <3>10. \A v \in Workers : \A s \in worker'[v].source :
             /\ worker'[v].pc = "run" => runner'[s].tasks > 0 /\ runner'[s].has_worker
             /\ worker'[v].pc = "did_process" => runner'[s].has_worker
             /\ worker'[v].pc = "enqueue" => runner'[s].tasks > 0 /\ ~runner'[s].has_worker
      BY <3>1, <3>2, <3>3, <3>7, <3>8 DEF Sequences, RunnersOf, WorkerAt
    <3> QED
      BY <3>5, <3>8, <3>9, <3>10 DEF Sequences, WorkerAt, RunnersOf
  <2>5. CASE DidProcessTask(w)
    <3>1. PICK r \in worker[w].source :
            /\ runner' = [runner EXCEPT ![r].has_worker = FALSE]
            /\ WorkerGoes(w, IF runner[r].tasks > 0 THEN "enqueue"
                             ELSE IF ReleasesRunner(r) THEN "unregister" ELSE "reset")
      BY <2>5 DEF DidProcessTask
    <3>2. r \in Runners /\ r \in RunnersOf(w)
      BY DEF Sequences, RunnersOf
    <3>3. \A s \in Runners :
            /\ runner'[s].created = runner[s].created /\ runner'[s].holders = runner[s].holders
            /\ runner'[s].tasks = runner[s].tasks
            /\ s # r => runner'[s].has_worker = runner[s].has_worker
      BY <3>1 DEF Types, RunnerType
    <3>4. ~runner'[r].has_worker
      BY <3>1, <3>2 DEF Types, RunnerType
    <3>5. /\ \A v \in Workers : worker'[v].source = worker[v].source
          /\ \A v \in Workers : v # w => worker'[v] = worker[v]
          /\ worker'[w].pc \in {"enqueue", "unregister", "reset"}
          /\ worker'[w].pc = "enqueue" => runner[r].tasks > 0
      BY <3>1 DEF Types, WorkerType, WorkerGoes
    <3>6. UNCHANGED <<queue, posted>>
      BY <2>5 DEF DidProcessTask
    <3>7. \A v \in Workers : v # w => r \notin worker[v].source
      BY <3>2 DEF Sequences, RunnersOf
    <3> QED
      <4>1. \A s \in Runners :
              /\ 0 <= runner'[s].tasks /\ runner'[s].tasks <= posted'
              /\ ~runner'[s].created => runner'[s].holders = {} /\ ~SelfReference(s)'
        BY <3>2, <3>3, <3>4, <3>6 DEF Sequences, SelfReference
      <4>2. \A v \in Workers : /\ queue'[v] \subseteq RunnersOf(v)
                               /\ worker'[v].source \subseteq RunnersOf(v)
                               /\ \A q, s \in worker'[v].source : q = s
        BY <3>5, <3>6 DEF Sequences
      <4>3. \A v \in Workers : \A s \in queue'[v] : runner'[s].tasks > 0 /\ ~runner'[s].has_worker
        BY <3>3, <3>4, <3>6, <4>2 DEF Sequences, RunnersOf
      <4>4. \A s \in worker'[w].source : s = r
        BY <3>5 DEF Sequences
      <4>5. \A v \in Workers : \A s \in worker'[v].source :
              /\ worker'[v].pc = "run" => runner'[s].tasks > 0 /\ runner'[s].has_worker
              /\ worker'[v].pc = "did_process" => runner'[s].has_worker
              /\ worker'[v].pc = "enqueue" => runner'[s].tasks > 0 /\ ~runner'[s].has_worker
        BY <3>2, <3>3, <3>4, <3>5, <3>7, <4>2, <4>4 DEF Sequences, RunnersOf, WorkerAt
      <4> QED
        BY <4>1, <4>2, <4>3, <4>5 DEF Sequences, WorkerAt, RunnersOf
  <2>6. CASE UnregisterItself(w)
    BY <2>6 DEF UnregisterItself, WorkerAt, WorkerGoes, Types, WorkerType, RunnerType,
                ActorType, WorkerPcs, ClientPcs, MainPcs, Control, Sequences, RunnersOf,
                SelfReference
  <2>7. CASE CleanupItself(w)
    BY <2>7 DEF CleanupItself, WorkerAt, Types, WorkerType, RunnerType, ActorType, WorkerPcs,
                ClientPcs, MainPcs, Control, Sequences, RunnersOf, SelfReference
  <2>8. CASE Reenqueue(w)
    BY <2>8 DEF Reenqueue, WorkerAt, Types, WorkerType, RunnerType, ActorType, WorkerPcs,
                ClientPcs, MainPcs, Control, Sequences, RunnersOf, SelfReference
  <2>9. CASE ResetEvent(w)
    BY <2>9 DEF ResetEvent, WorkerAt, Types, WorkerType, RunnerType, ActorType, WorkerPcs,
                ClientPcs, MainPcs, Control, Sequences, RunnersOf, SelfReference
  <2> QED
    BY <1>1, <2>1, <2>2, <2>3, <2>4, <2>5, <2>6, <2>7, <2>8, <2>9 DEF WorkerSteps
<1>2. ASSUME NEW c \in Clients, ActorSteps(c) PROVE Sequences'
  <2>1. CASE WakeUp(c)
    BY <2>1 DEF WakeUp, Idle, Types, WorkerType, RunnerType, ActorType, WorkerPcs, ClientPcs,
                MainPcs, Control, Sequences, RunnersOf, WorkerAt, SelfReference
  <2>2. CASE StartWorker(c)
    BY <2>2 DEF StartWorker, StartThread, Idle, Types, WorkerType, RunnerType, ActorType,
                WorkerPcs, ClientPcs, MainPcs, Control, Sequences, RunnersOf, WorkerAt,
                SelfReference
  <2>3. CASE UnregisterWorkerThread(c)
    BY <2>3 DEF UnregisterWorkerThread, Types, WorkerType, RunnerType, ActorType, WorkerPcs,
                ClientPcs, MainPcs, Control, Sequences, RunnersOf, WorkerAt, SelfReference
  <2>4. CASE Cleanup(c)
    BY <2>4 DEF Cleanup, Idle, Types, WorkerType, RunnerType, ActorType, WorkerPcs, ClientPcs,
                MainPcs, Control, Sequences, RunnersOf, WorkerAt, SelfReference
  <2> QED
    BY <1>2, <2>1, <2>2, <2>3, <2>4 DEF ActorSteps
<1>3. ASSUME NEW c \in Clients, NEW r \in Runners,
             CreateTaskRunner(c, r) \/ PostTaskNow(c, r) \/ DropReference(c, r)
      PROVE  Sequences'
  <2>1. CASE CreateTaskRunner(c, r)
    BY <2>1 DEF CreateTaskRunner, Busy, Types, WorkerType, RunnerType, ActorType, WorkerPcs,
                ClientPcs, MainPcs, Control, Sequences, RunnersOf, WorkerAt, SelfReference
  <2>2. CASE PostTaskNow(c, r)
    BY <2>2 DEF PostTaskNow, Busy, Types, WorkerType, RunnerType, ActorType, WorkerPcs,
                ClientPcs, MainPcs, Control, Sequences, RunnersOf, WorkerAt, SelfReference
  <2>3. CASE DropReference(c, r)
    BY <2>3 DEF DropReference, Busy, Types, WorkerType, RunnerType, ActorType, WorkerPcs,
                ClientPcs, MainPcs, Control, Sequences, RunnersOf, WorkerAt, SelfReference
  <2> QED
    BY <1>3, <2>1, <2>2, <2>3
<1>4. CASE MainSteps
  <2>1. CASE WakeUp(Main)
    BY <2>1 DEF WakeUp, Idle, Types, WorkerType, RunnerType, ActorType, WorkerPcs, ClientPcs,
                MainPcs, Control, Sequences, RunnersOf, WorkerAt, SelfReference
  <2>2. CASE DidUpdateCanRunPolicy
    BY <2>2 DEF DidUpdateCanRunPolicy, Idle, Types, WorkerType, RunnerType, ActorType,
                WorkerPcs, ClientPcs, MainPcs, Control, Sequences, RunnersOf, WorkerAt,
                SelfReference
  <2>3. CASE StartManager
    BY <2>3 DEF StartManager, Idle, Types, WorkerType, RunnerType, ActorType, WorkerPcs,
                ClientPcs, MainPcs, Control, Sequences, RunnersOf, WorkerAt, SelfReference
  <2>4. CASE MainIsDone
    BY <2>4 DEF MainIsDone, Idle, Types, WorkerType, RunnerType, ActorType, WorkerPcs,
                ClientPcs, MainPcs, Control, Sequences, RunnersOf, WorkerAt, SelfReference
  <2>5. ASSUME NEW w \in Workers, UpdateWorker(w) PROVE Sequences'
    BY <2>5 DEF UpdateWorker, Types, WorkerType, RunnerType, ActorType, WorkerPcs, ClientPcs,
                MainPcs, Control, Sequences, RunnersOf, WorkerAt, SelfReference
  <2>6. ASSUME NEW w \in Workers, StartWorkers(w) PROVE Sequences'
    BY <2>6 DEF StartWorkers, StartThread, Types, WorkerType, RunnerType, ActorType, WorkerPcs,
                ClientPcs, MainPcs, Control, Sequences, RunnersOf, WorkerAt, SelfReference
  <2> QED
    BY <1>4, <2>1, <2>2, <2>3, <2>4, <2>5, <2>6 DEF MainSteps
<1>5. CASE FenceStep
  BY <1>5, FenceFrame DEF Types, WorkerType, RunnerType, ActorType, WorkerPcs, ClientPcs, MainPcs,
                          Control, Sequences, RunnersOf, WorkerAt, SelfReference
<1> QED
  BY <1>1, <1>2, <1>3, <1>4, <1>5 DEF Next, FenceStep

\* GetWork(), worker by worker and runner by runner.
LEMMA GetWorkPoints ==
  ASSUME Types, Sequences, NEW w \in Workers, GetWork(w)
  PROVE  /\ worker[w].pc = "get_work" /\ UNCHANGED <<fences, posted, started_, workers_, actor>>
         /\ \A v \in Workers : v # w => worker'[v] = worker[v] /\ queue'[v] = queue[v]
         /\ worker'[w].event = worker[w].event /\ worker'[w].should_exit = worker[w].should_exit
         /\ queue'[w] \subseteq queue[w]
         /\ \/ worker'[w].pc = "run" /\ worker'[w].awake = worker[w].awake
            \/ worker'[w].pc = "no_work" /\ ~worker'[w].awake /\ ~CanRunNext(queue[w]) /\ queue' = queue
         /\ \A s \in Runners : /\ runner'[s].created = runner[s].created
                               /\ runner'[s].holders = runner[s].holders
                               /\ SelfReference(s)' = SelfReference(s)
<1> USE DEF fences
<1>1. CASE CanRunNext(queue[w])
  <2>1. PICK r \in queue[w] :
          /\ r \in RunnersOf(w) /\ runner[r].created
          /\ queue' = [queue EXCEPT ![w] = queue[w] \ {r}]
          /\ worker' = [worker EXCEPT ![w].pc = "run", ![w].source = {r}]
          /\ runner' = [runner EXCEPT ![r].has_worker = TRUE]
          /\ UNCHANGED <<fences, posted, started_, workers_, actor>>
    BY <1>1, GetWorkEffect
  <2>2. \A s \in Runners : /\ runner'[s].created = runner[s].created
                           /\ runner'[s].holders = runner[s].holders
                           /\ SelfReference(s)' = SelfReference(s)
    <3>1. runner[r].tasks > 0 /\ r \in Runners
      BY <2>1 DEF Sequences, RunnersOf
    <3> QED
      BY <2>1, <3>1 DEF SelfReference, Types, RunnerType
  <2>3. worker[w].pc = "get_work"
    BY DEF GetWork, WorkerAt
  <2>4. /\ \A v \in Workers : v # w => worker'[v] = worker[v] /\ queue'[v] = queue[v]
        /\ queue'[w] = queue[w] \ {r}
    BY <2>1 DEF Types
  <2>5. /\ worker'[w].event = worker[w].event /\ worker'[w].should_exit = worker[w].should_exit
        /\ worker'[w].pc = "run" /\ worker'[w].awake = worker[w].awake
    BY <2>1 DEF Types, WorkerType
  <2> QED
    BY <2>1, <2>2, <2>3, <2>4, <2>5
<1>2. CASE ~CanRunNext(queue[w])
  <2>1. /\ UNCHANGED <<queue, runner, fences, posted, started_, workers_, actor>>
        /\ worker[w].pc = "get_work"
        /\ worker' = [worker EXCEPT ![w].pc = "no_work", ![w].awake = FALSE]
    BY <1>2 DEF GetWork, WorkerAt
  <2>2. \A v \in Workers : v # w => worker'[v] = worker[v]
    BY <2>1 DEF Types
  <2>3. /\ worker'[w].event = worker[w].event /\ worker'[w].should_exit = worker[w].should_exit
        /\ worker'[w].pc = "no_work" /\ ~worker'[w].awake
    BY <2>1 DEF Types, WorkerType
  <2> QED
    BY <1>2, <2>1, <2>2, <2>3 DEF SelfReference
<1> QED
  BY <1>1, <1>2

\* WorkerThread::Start().
LEMMA StartPoints ==
  ASSUME Types, NEW w \in Workers, StartThread(w)
  PROVE  /\ \A v \in Workers : v # w => worker'[v] = worker[v]
         /\ worker'[w].pc = IF worker[w].should_exit THEN worker[w].pc ELSE "wait"
         /\ \A v \in Workers : /\ worker'[v].awake = worker[v].awake
                               /\ worker'[v].event = worker[v].event
                               /\ worker'[v].should_exit = worker[v].should_exit
                               /\ worker'[v].source = worker[v].source
BY DEF StartThread, Types, WorkerType

\* DidProcessTask() of the Sequence.
LEMMA DidProcessPoints ==
  ASSUME Types, Sequences, NEW w \in Workers, DidProcessTask(w)
  PROVE  \E r \in RunnersOf(w) :
           /\ worker[w].pc = "did_process" /\ UNCHANGED <<fences, posted, started_, workers_, queue, actor>>
           /\ runner[r].has_worker /\ ~runner'[r].has_worker
           /\ \A s \in Runners : /\ runner'[s].created = runner[s].created
                                 /\ runner'[s].holders = runner[s].holders
                                 /\ runner'[s].tasks = runner[s].tasks
                                 /\ s # r => runner'[s].has_worker = runner[s].has_worker
           /\ worker'[w].pc = IF runner[r].tasks > 0 THEN "enqueue"
                              ELSE IF ReleasesRunner(r) THEN "unregister" ELSE "reset"
           /\ \A v \in Workers : /\ v # w => worker'[v] = worker[v]
                                 /\ worker'[v].event = worker[v].event
                                 /\ worker'[v].awake = worker[v].awake
                                 /\ worker'[v].should_exit = worker[v].should_exit
<1>1. PICK r \in worker[w].source :
        /\ runner' = [runner EXCEPT ![r].has_worker = FALSE]
        /\ WorkerGoes(w, IF runner[r].tasks > 0 THEN "enqueue"
                         ELSE IF ReleasesRunner(r) THEN "unregister" ELSE "reset")
  BY DEF DidProcessTask
<1>2. r \in Runners /\ r \in RunnersOf(w)
  BY DEF Sequences, RunnersOf
<1>3. worker[w].pc = "did_process" /\ runner[r].has_worker
  BY <1>1 DEF Sequences, WorkerAt, DidProcessTask
<1>4. \A s \in Runners : /\ runner'[s].created = runner[s].created
                         /\ runner'[s].holders = runner[s].holders
                         /\ runner'[s].tasks = runner[s].tasks
                         /\ s # r => runner'[s].has_worker = runner[s].has_worker
  BY <1>1 DEF Types, RunnerType
<1>5. ~runner'[r].has_worker
  BY <1>1, <1>2 DEF Types, RunnerType
<1> DEFINE pc == IF runner[r].tasks > 0 THEN "enqueue"
                 ELSE IF ReleasesRunner(r) THEN "unregister" ELSE "reset"
<1>6. worker' = [worker EXCEPT ![w].pc = pc]
  BY <1>1 DEF WorkerGoes
<1> HIDE DEF pc
<1>7. /\ worker'[w].pc = pc
      /\ \A v \in Workers : /\ v # w => worker'[v] = worker[v]
                            /\ worker'[v].event = worker[v].event
                            /\ worker'[v].awake = worker[v].awake
                            /\ worker'[v].should_exit = worker[v].should_exit
  BY <1>6 DEF Types, WorkerType
<1> QED
  BY <1>2, <1>3, <1>4, <1>5, <1>7 DEF DidProcessTask, fences, pc

\* PostTaskNow(): whether or not the caller must wake up the worker.
LEMMA PostPoints ==
  ASSUME Types, NEW c \in Clients, NEW r \in Runners, PostTaskNow(c, r)
  PROVE  /\ UNCHANGED <<fences, started_, workers_>> /\ posted' = posted + 1
         /\ actor[c].pc = "idle" /\ c \in runner[r].holders
         /\ \A s \in Runners : /\ runner'[s].created = runner[s].created
                               /\ runner'[s].holders = runner[s].holders
                               /\ runner'[s].has_worker = runner[s].has_worker
                               /\ s # r => runner'[s].tasks = runner[s].tasks
         /\ runner'[r].tasks = runner[r].tasks + 1
         /\ \A v \in Workers : v # WorkerOf[r] => queue'[v] = queue[v] /\ worker'[v] = worker[v]
         /\ queue'[WorkerOf[r]] = IF SelfReference(r) THEN queue[WorkerOf[r]]
                                  ELSE queue[WorkerOf[r]] \cup {r}
         /\ \/ /\ ~(~SelfReference(r) /\ MustWakeUp(WorkerOf[r], queue'[WorkerOf[r]]))
               /\ UNCHANGED <<worker, actor>>
            \/ /\ ~SelfReference(r) /\ MustWakeUp(WorkerOf[r], queue'[WorkerOf[r]])
               /\ worker' = [worker EXCEPT ![WorkerOf[r]].awake = TRUE]
               /\ actor' = [actor EXCEPT ![c] = Busy("wake", WorkerOf[r])]
<1> DEFINE w == WorkerOf[r]
<1>1. w \in Workers
  BY WorkerOfType
<1>2. /\ UNCHANGED <<fences, started_, workers_>> /\ posted' = posted + 1
      /\ actor[c].pc = "idle" /\ c \in runner[r].holders
      /\ runner' = [runner EXCEPT ![r].tasks = @ + 1]
      /\ queue' = IF SelfReference(r) THEN queue ELSE [queue EXCEPT ![w] = queue[w] \cup {r}]
  BY DEF PostTaskNow
<1>3. /\ \A v \in Workers : v # w => queue'[v] = queue[v]
      /\ queue'[w] = IF SelfReference(r) THEN queue[w] ELSE queue[w] \cup {r}
  BY <1>1, <1>2 DEF Types
<1>4. \/ /\ ~(~SelfReference(r) /\ MustWakeUp(w, queue[w] \cup {r}))
         /\ UNCHANGED <<worker, actor>>
      \/ /\ ~SelfReference(r) /\ MustWakeUp(w, queue[w] \cup {r})
         /\ worker' = [worker EXCEPT ![w].awake = TRUE]
         /\ actor' = [actor EXCEPT ![c] = Busy("wake", w)]
  BY DEF PostTaskNow
<1>5. /\ \A s \in Runners : /\ runner'[s].created = runner[s].created
                            /\ runner'[s].holders = runner[s].holders
                            /\ runner'[s].has_worker = runner[s].has_worker
                            /\ s # r => runner'[s].tasks = runner[s].tasks
      /\ runner'[r].tasks = runner[r].tasks + 1
  BY <1>2 DEF Types, RunnerType
<1>6. \A v \in Workers : v # w => worker'[v] = worker[v]
  BY <1>4 DEF Types
<1> QED
  BY <1>2, <1>3, <1>4, <1>5, <1>6

\* Whether a worker was created and is orphaned depends on its runners only.
LEMMA OrphanedFrame ==
  ASSUME \A s \in Runners : /\ runner'[s].created = runner[s].created
                            /\ runner'[s].holders = runner[s].holders
                            /\ SelfReference(s)' = SelfReference(s)
  PROVE  \A w \in Workers : (Orphaned(w)' <=> Orphaned(w)) /\ (Created(w)' <=> Created(w))
BY DEF Orphaned, Created, RunnersOf

\* Every step keeps workers registered until they are orphaned, and cleans up only those.
LEMMA NextLifetime == Types /\ Control /\ Sequences /\ Lifetime /\ Starts /\ Next => Lifetime'
<1> SUFFICES ASSUME Types, Control, Sequences, Lifetime, Starts, Next PROVE Lifetime'
  OBVIOUS
<1> USE Parameters DEF fences, Actors
<1>1. ASSUME NEW w \in Workers, WorkerSteps(w) PROVE Lifetime'
  <2>1. CASE WaitForWork(w)
    BY <2>1 DEF WaitForWork, WorkerAt, Types, WorkerType, RunnerType, ActorType, WorkerPcs,
                ClientPcs, MainPcs, Control, Sequences, Lifetime, Starts, RunnersOf,
                SelfReference, Orphaned, Releasing, Created
  <2>2. CASE ShouldExit(w)
    BY <2>2 DEF ShouldExit, WorkerAt, WorkerGoes, Types, WorkerType, RunnerType, ActorType,
                WorkerPcs, ClientPcs, MainPcs, Control, Sequences, Lifetime, Starts, RunnersOf,
                SelfReference, Orphaned, Releasing, Created
  <2>3. CASE GetWork(w)
    <3>1. \A v \in Workers : (Orphaned(v)' <=> Orphaned(v)) /\ (Created(v)' <=> Created(v))
      BY <2>3, GetWorkPoints, OrphanedFrame
    <3>2. /\ UNCHANGED <<workers_, actor>> /\ worker[w].pc = "get_work"
          /\ worker'[w].pc \in {"run", "no_work"} /\ worker'[w].should_exit = worker[w].should_exit
          /\ \A v \in Workers : v # w => worker'[v] = worker[v]
      BY <2>3, GetWorkPoints
    <3>3. \A v \in Workers : (Releasing(v)' <=> Releasing(v))
      BY <3>2 DEF Releasing
    <3> QED
      BY <3>1, <3>2, <3>3 DEF Lifetime, WorkerAt
  <2>4. CASE TakeTask(w)
    BY <2>4 DEF TakeTask, WorkerAt, WorkerGoes, Types, WorkerType, RunnerType, ActorType,
                WorkerPcs, ClientPcs, MainPcs, Control, Sequences, Lifetime, Starts, RunnersOf,
                SelfReference, Orphaned, Releasing, Created
  <2>5. CASE DidProcessTask(w)
    <3>1. PICK r \in RunnersOf(w) :
            /\ worker[w].pc = "did_process" /\ UNCHANGED <<fences, posted, started_, workers_, queue, actor>>
            /\ runner[r].has_worker /\ ~runner'[r].has_worker
            /\ \A s \in Runners : /\ runner'[s].created = runner[s].created
                                  /\ runner'[s].holders = runner[s].holders
                                  /\ runner'[s].tasks = runner[s].tasks
                                  /\ s # r => runner'[s].has_worker = runner[s].has_worker
            /\ worker'[w].pc = IF runner[r].tasks > 0 THEN "enqueue"
                               ELSE IF ReleasesRunner(r) THEN "unregister" ELSE "reset"
            /\ \A v \in Workers : /\ v # w => worker'[v] = worker[v]
                                  /\ worker'[v].event = worker[v].event
                                  /\ worker'[v].awake = worker[v].awake
                                  /\ worker'[v].should_exit = worker[v].should_exit
      BY <2>5, DidProcessPoints
    <3>2. r \in Runners /\ WorkerOf[r] = w /\ runner[r].created
      BY <3>1 DEF RunnersOf, Sequences, SelfReference
    <3>3. \A v \in Workers : v # w =>
            /\ (Orphaned(v)' <=> Orphaned(v)) /\ (Releasing(v)' <=> Releasing(v))
      BY <3>1, <3>2 DEF Orphaned, Releasing, RunnersOf, SelfReference
    <3>4. \A v \in Workers : Created(v)' <=> Created(v)
      BY <3>1 DEF Created, RunnersOf
    <3>5. ~Orphaned(w) /\ ~worker[w].should_exit /\ ~Releasing(w) /\ w \in workers_
      <4>1. ~Orphaned(w) /\ Created(w)
        BY <3>1, <3>2 DEF Orphaned, SelfReference, RunnersOf, Created
      <4> QED
        BY <4>1 DEF Lifetime
    <3>6. Orphaned(w)' <=> worker'[w].pc = "unregister"
      <4>1. \A s \in RunnersOf(w) : Dedicated(w) => s = r
        BY <3>2 DEF RunnersOf, Dedicated
      <4>2. runner[r].tasks \in Int /\ runner[r].tasks >= 0
        BY <3>2 DEF Types, RunnerType, Sequences
      <4>3. worker'[w].pc = "unregister" <=>
              Dedicated(w) /\ runner[r].tasks = 0 /\ runner[r].holders = {}
        BY <3>1, <3>2, <4>2 DEF ReleasesRunner
      <4>4. Orphaned(w)' <=> Dedicated(w) /\ runner[r].tasks = 0 /\ runner[r].holders = {}
        BY <3>1, <3>2, <4>1, <4>2 DEF Orphaned, SelfReference, RunnersOf
      <4> QED
        BY <4>3, <4>4
    <3>7. Releasing(w)' <=> worker'[w].pc = "unregister"
      BY <3>1, <3>5 DEF Releasing
    <3>8. worker'[w].pc \notin {"cleanup", "wait"}
      BY <3>1
    <3>9. ~\E c \in Clients : actor[c].worker = w /\ actor[c].pc = "cleanup"
      BY <3>5 DEF Releasing
    <3> QED
      BY <3>1, <3>3, <3>4, <3>5, <3>6, <3>7, <3>8, <3>9 DEF Lifetime, WorkerAt
  <2>6. CASE UnregisterItself(w)
    BY <2>6 DEF UnregisterItself, WorkerAt, WorkerGoes, Types, WorkerType, RunnerType,
                ActorType, WorkerPcs, ClientPcs, MainPcs, Control, Sequences, Lifetime, Starts,
                RunnersOf, SelfReference, Orphaned, Releasing, Created
  <2>7. CASE CleanupItself(w)
    BY <2>7 DEF CleanupItself, WorkerAt, Types, WorkerType, RunnerType, ActorType, WorkerPcs,
                ClientPcs, MainPcs, Control, Sequences, Lifetime, Starts, RunnersOf,
                SelfReference, Orphaned, Releasing, Created
  <2>8. CASE Reenqueue(w)
    BY <2>8 DEF Reenqueue, WorkerAt, Types, WorkerType, RunnerType, ActorType, WorkerPcs,
                ClientPcs, MainPcs, Control, Sequences, Lifetime, Starts, RunnersOf,
                SelfReference, Orphaned, Releasing, Created
  <2>9. CASE ResetEvent(w)
    BY <2>9 DEF ResetEvent, WorkerAt, Types, WorkerType, RunnerType, ActorType, WorkerPcs,
                ClientPcs, MainPcs, Control, Sequences, Lifetime, Starts, RunnersOf,
                SelfReference, Orphaned, Releasing, Created
  <2> QED
    BY <1>1, <2>1, <2>2, <2>3, <2>4, <2>5, <2>6, <2>7, <2>8, <2>9 DEF WorkerSteps
<1>2. ASSUME NEW c \in Clients, ActorSteps(c) PROVE Lifetime'
  <2>1. CASE WakeUp(c)
    BY <2>1 DEF WakeUp, Idle, Types, WorkerType, RunnerType, ActorType, WorkerPcs, ClientPcs,
                MainPcs, Control, Sequences, Lifetime, Starts, RunnersOf, WorkerAt,
                SelfReference, Orphaned, Releasing, Created
  <2>2. CASE StartWorker(c)
    <3>1. actor[c].worker \in Workers
      BY <2>2 DEF StartWorker, Control
    <3> DEFINE w == actor[c].worker
    <3>2. /\ \A v \in Workers : v # w => worker'[v] = worker[v]
          /\ worker'[w].pc = IF worker[w].should_exit THEN worker[w].pc ELSE "wait"
          /\ \A v \in Workers : /\ worker'[v].event = worker[v].event
                                /\ worker'[v].should_exit = worker[v].should_exit
      BY <2>2, <3>1, StartPoints DEF StartWorker
    <3>3. /\ UNCHANGED <<runner, workers_>> /\ worker[w].pc = "none"
          /\ \A d \in Clients : d # c => actor'[d] = actor[d]
          /\ actor[c].pc = "start" /\ actor'[c].pc = "idle"
      BY <2>2, <3>1 DEF StartWorker, Types, Idle, Starts, ToBeStarted, WorkerAt
    <3>4. \A v \in Workers : (Releasing(v)' <=> Releasing(v))
      BY <3>2, <3>3 DEF Releasing
    <3>5. \A v \in Workers : (Orphaned(v)' <=> Orphaned(v)) /\ (Created(v)' <=> Created(v))
      BY <3>3, OrphanedFrame DEF SelfReference
    <3> QED
      BY <3>2, <3>3, <3>4, <3>5 DEF Lifetime, WorkerAt
  <2>3. CASE UnregisterWorkerThread(c)
    BY <2>3 DEF UnregisterWorkerThread, Types, WorkerType, RunnerType, ActorType, WorkerPcs,
                ClientPcs, MainPcs, Control, Sequences, Lifetime, Starts, RunnersOf, WorkerAt,
                SelfReference, Orphaned, Releasing, Created
  <2>4. CASE Cleanup(c)
    BY <2>4 DEF Cleanup, Idle, Types, WorkerType, RunnerType, ActorType, WorkerPcs, ClientPcs,
                MainPcs, Control, Sequences, Lifetime, Starts, RunnersOf, WorkerAt,
                SelfReference, Orphaned, Releasing, Created
  <2> QED
    BY <1>2, <2>1, <2>2, <2>3, <2>4 DEF ActorSteps
<1>3. ASSUME NEW c \in Clients, NEW r \in Runners,
             CreateTaskRunner(c, r) \/ PostTaskNow(c, r) \/ DropReference(c, r)
      PROVE  Lifetime'
  <2>1. CASE CreateTaskRunner(c, r)
    BY <2>1 DEF CreateTaskRunner, Busy, Types, WorkerType, RunnerType, ActorType, WorkerPcs,
                ClientPcs, MainPcs, Control, Sequences, Lifetime, Starts, RunnersOf, WorkerAt,
                SelfReference, Orphaned, Releasing, Created
  <2>2. CASE PostTaskNow(c, r)
    <3> DEFINE w == WorkerOf[r]
    <3>1. /\ UNCHANGED workers_ /\ actor[c].pc = "idle" /\ c \in runner[r].holders
          /\ \A s \in Runners : /\ runner'[s].created = runner[s].created
                                /\ runner'[s].holders = runner[s].holders
                                /\ s # r => /\ runner'[s].tasks = runner[s].tasks
                                            /\ runner'[s].has_worker = runner[s].has_worker
          /\ \A v \in Workers : v # w => worker'[v] = worker[v]
          /\ actor' = actor \/ actor' = [actor EXCEPT ![c] = Busy("wake", w)]
          /\ worker' = worker \/ worker' = [worker EXCEPT ![w].awake = TRUE]
      BY <2>2, PostPoints
    <3>2. \A v \in Workers : Orphaned(v)' <=> Orphaned(v)
      BY <3>1 DEF Orphaned, RunnersOf, SelfReference
    <3>3. \A v \in Workers : Created(v)' <=> Created(v)
      BY <3>1 DEF Created, RunnersOf
    <3>4. \A v \in Workers : /\ worker'[v].pc = worker[v].pc /\ worker'[v].event = worker[v].event
                             /\ worker'[v].should_exit = worker[v].should_exit
      BY <3>1 DEF Types, WorkerType
    <3>5. \A d \in Clients : \/ actor'[d] = actor[d]
                             \/ actor[d].pc = "idle" /\ actor'[d].pc = "wake"
      BY <3>1 DEF Types, Busy
    <3>6. \A v \in Workers : (Releasing(v)' <=> Releasing(v))
      BY <3>4, <3>5 DEF Releasing
    <3> QED
      BY <3>1, <3>2, <3>3, <3>4, <3>5, <3>6 DEF Lifetime, WorkerAt
  <2>3. CASE DropReference(c, r)
    <3> DEFINE w == WorkerOf[r]
    <3>1. /\ Dedicated(w) /\ actor[c].pc = "idle" /\ c \in runner[r].holders
          /\ UNCHANGED <<workers_, worker>>
          /\ runner' = [runner EXCEPT ![r].holders = @ \ {c}]
          /\ actor' = IF runner[r].holders = {c} /\ ~SelfReference(r)
                      THEN [actor EXCEPT ![c] = Busy("unregister", w)] ELSE actor
      BY <2>3 DEF DropReference
    <3>2. w \in Workers /\ r \in RunnersOf(w) /\ \A s \in RunnersOf(w) : s = r
      BY <3>1, WorkerOfType DEF RunnersOf, Dedicated
    <3>3. /\ runner'[r].holders = runner[r].holders \ {c}
          /\ \A s \in Runners : /\ runner'[s].created = runner[s].created
                                /\ runner'[s].tasks = runner[s].tasks
                                /\ runner'[s].has_worker = runner[s].has_worker
                                /\ s # r => runner'[s].holders = runner[s].holders
      BY <3>1 DEF Types, RunnerType
    <3>4. \A v \in Workers : v # w => (Orphaned(v)' <=> Orphaned(v))
      BY <3>3 DEF Orphaned, RunnersOf, SelfReference
    <3>5. \A v \in Workers : Created(v)' <=> Created(v)
      BY <3>3 DEF Created, RunnersOf
    <3>6. ~Orphaned(w) /\ Created(w) /\ runner[r].created
      BY <3>1, <3>2 DEF Orphaned, Created, Sequences
    <3>7. ~worker[w].should_exit /\ ~Releasing(w)
      BY <3>2, <3>6 DEF Lifetime
    <3>8. Orphaned(w)' <=> runner[r].holders = {c} /\ ~SelfReference(r)
      <4>1. SelfReference(r)' <=> SelfReference(r)
        BY <3>3 DEF SelfReference
      <4>2. RunnersOf(w) = {r}
        BY <3>2
      <4>3. Orphaned(w)' <=> runner'[r].created /\ runner'[r].holders = {} /\ ~SelfReference(r)'
        BY <3>1, <4>2 DEF Orphaned
      <4>4. runner'[r].holders = {} <=> runner[r].holders = {c}
        BY <3>1, <3>3
      <4> QED
        BY <3>3, <3>6, <4>1, <4>3, <4>4
    <3>9. CASE runner[r].holders = {c} /\ ~SelfReference(r)
      <4>1. /\ actor'[c].pc = "unregister" /\ actor'[c].worker = w
            /\ \A d \in Clients : d # c => actor'[d] = actor[d]
        BY <3>1, <3>9 DEF Types, Busy
      <4>2. /\ \A v \in Workers : v # w => (Releasing(v)' <=> Releasing(v))
            /\ Releasing(w)'
        BY <3>1, <4>1 DEF Releasing
      <4> QED
        BY <3>1, <3>4, <3>5, <3>7, <3>8, <3>9, <4>1, <4>2 DEF Lifetime, WorkerAt
    <3>10. CASE ~(runner[r].holders = {c} /\ ~SelfReference(r))
      <4>1. actor' = actor /\ \A v \in Workers : (Releasing(v)' <=> Releasing(v))
        BY <3>1, <3>10 DEF Releasing
      <4> QED
        BY <3>1, <3>4, <3>5, <3>6, <3>7, <3>8, <3>10, <4>1 DEF Lifetime, WorkerAt
    <3> QED
      BY <3>9, <3>10
  <2> QED
    BY <1>3, <2>1, <2>2, <2>3
<1>4. CASE MainSteps
  <2>1. CASE WakeUp(Main)
    BY <2>1 DEF WakeUp, Idle, Types, WorkerType, RunnerType, ActorType, WorkerPcs, ClientPcs,
                MainPcs, Control, Sequences, Lifetime, Starts, RunnersOf, WorkerAt,
                SelfReference, Orphaned, Releasing, Created
  <2>2. CASE DidUpdateCanRunPolicy
    BY <2>2 DEF DidUpdateCanRunPolicy, Idle, Types, WorkerType, RunnerType, ActorType,
                WorkerPcs, ClientPcs, MainPcs, Control, Sequences, Lifetime, Starts, RunnersOf,
                WorkerAt, SelfReference, Orphaned, Releasing, Created
  <2>3. CASE StartManager
    BY <2>3 DEF StartManager, Idle, Types, WorkerType, RunnerType, ActorType, WorkerPcs,
                ClientPcs, MainPcs, Control, Sequences, Lifetime, Starts, RunnersOf, WorkerAt,
                SelfReference, Orphaned, Releasing, Created
  <2>4. CASE MainIsDone
    BY <2>4 DEF MainIsDone, Idle, Types, WorkerType, RunnerType, ActorType, WorkerPcs,
                ClientPcs, MainPcs, Control, Sequences, Lifetime, Starts, RunnersOf, WorkerAt,
                SelfReference, Orphaned, Releasing, Created
  <2>5. ASSUME NEW w \in Workers, UpdateWorker(w) PROVE Lifetime'
    BY <2>5 DEF UpdateWorker, Types, WorkerType, RunnerType, ActorType, WorkerPcs, ClientPcs,
                MainPcs, Control, Sequences, Lifetime, Starts, RunnersOf, WorkerAt,
                SelfReference, Orphaned, Releasing, Created
  <2>6. ASSUME NEW w \in Workers, StartWorkers(w) PROVE Lifetime'
    <3>1. /\ \A v \in Workers : v # w => worker'[v] = worker[v]
          /\ worker'[w].pc = IF worker[w].should_exit THEN worker[w].pc ELSE "wait"
          /\ \A v \in Workers : /\ worker'[v].event = worker[v].event
                                /\ worker'[v].should_exit = worker[v].should_exit
      BY <2>6, StartPoints DEF StartWorkers
    <3>2. /\ UNCHANGED <<runner, workers_>> /\ worker[w].pc = "none"
          /\ \A d \in Clients : actor'[d] = actor[d]
      BY <2>6 DEF StartWorkers, Types, Starts, ToBeStarted, WorkerAt
    <3>3. \A v \in Workers : (Releasing(v)' <=> Releasing(v))
      BY <3>1, <3>2 DEF Releasing
    <3>4. \A v \in Workers : (Orphaned(v)' <=> Orphaned(v)) /\ (Created(v)' <=> Created(v))
      BY <3>2, OrphanedFrame DEF SelfReference
    <3> QED
      BY <3>1, <3>2, <3>3, <3>4 DEF Lifetime, WorkerAt
  <2> QED
    BY <1>4, <2>1, <2>2, <2>3, <2>4, <2>5, <2>6 DEF MainSteps
<1>5. CASE FenceStep
  <2>1. UNCHANGED <<workers_, worker, queue, runner>> /\ \A c \in Clients : actor'[c] = actor[c]
    BY <1>5, FenceFrame DEF Types
  <2>2. \A v \in Workers : (Releasing(v)' <=> Releasing(v))
    BY <2>1 DEF Releasing
  <2>3. \A v \in Workers : (Orphaned(v)' <=> Orphaned(v)) /\ (Created(v)' <=> Created(v))
    BY <2>1, OrphanedFrame DEF SelfReference
  <2> QED
    BY <2>1, <2>2, <2>3 DEF Lifetime, WorkerAt
<1> QED
  BY <1>1, <1>2, <1>3, <1>4, <1>5 DEF Next, FenceStep

\* Every step gives a worker at most one starter.
LEMMA NextStarts == Types /\ Control /\ Sequences /\ Lifetime /\ Starts /\ Next => Starts'
<1> SUFFICES ASSUME Types, Control, Sequences, Lifetime, Starts, Next PROVE Starts'
  OBVIOUS
<1> USE Parameters DEF fences, Actors
<1>1. ASSUME NEW w \in Workers, WorkerSteps(w) PROVE Starts'
  <2>1. CASE WaitForWork(w)
    BY <2>1 DEF WaitForWork, WorkerAt, Types, WorkerType, RunnerType, ActorType, WorkerPcs,
                ClientPcs, MainPcs, Control, Starts, Created, ToBeStarted, RunnersOf
  <2>2. CASE ShouldExit(w)
    BY <2>2 DEF ShouldExit, WorkerAt, WorkerGoes, Types, WorkerType, RunnerType, ActorType,
                WorkerPcs, ClientPcs, MainPcs, Control, Starts, Created, ToBeStarted, RunnersOf
  <2>3. CASE GetWork(w)
    <3>1. /\ UNCHANGED <<workers_, actor>> /\ worker[w].pc = "get_work" /\ worker'[w].pc # "none"
          /\ \A v \in Workers : v # w => worker'[v] = worker[v]
          /\ \A v \in Workers : Created(v)' <=> Created(v)
      BY <2>3, GetWorkPoints, OrphanedFrame
    <3>2. \A v \in Workers : ToBeStarted(v)' <=> ToBeStarted(v)
      BY <3>1 DEF ToBeStarted
    <3> QED
      BY <3>1, <3>2 DEF Starts, WorkerAt
  <2>4. CASE TakeTask(w)
    BY <2>4 DEF TakeTask, WorkerAt, WorkerGoes, Types, WorkerType, RunnerType, ActorType,
                WorkerPcs, ClientPcs, MainPcs, Control, Starts, Created, ToBeStarted, RunnersOf
  <2>5. CASE DidProcessTask(w)
    BY <2>5 DEF DidProcessTask, WorkerAt, WorkerGoes, Types, WorkerType, RunnerType, ActorType,
                WorkerPcs, ClientPcs, MainPcs, Control, Starts, Created, ToBeStarted, RunnersOf
  <2>6. CASE UnregisterItself(w)
    BY <2>6 DEF UnregisterItself, WorkerAt, WorkerGoes, Types, WorkerType, RunnerType,
                ActorType, WorkerPcs, ClientPcs, MainPcs, Control, Starts, Created, ToBeStarted,
                RunnersOf
  <2>7. CASE CleanupItself(w)
    BY <2>7 DEF CleanupItself, WorkerAt, Types, WorkerType, RunnerType, ActorType, WorkerPcs,
                ClientPcs, MainPcs, Control, Starts, Created, ToBeStarted, RunnersOf
  <2>8. CASE Reenqueue(w)
    BY <2>8 DEF Reenqueue, WorkerAt, Types, WorkerType, RunnerType, ActorType, WorkerPcs,
                ClientPcs, MainPcs, Control, Starts, Created, ToBeStarted, RunnersOf
  <2>9. CASE ResetEvent(w)
    BY <2>9 DEF ResetEvent, WorkerAt, Types, WorkerType, RunnerType, ActorType, WorkerPcs,
                ClientPcs, MainPcs, Control, Starts, Created, ToBeStarted, RunnersOf
  <2> QED
    BY <1>1, <2>1, <2>2, <2>3, <2>4, <2>5, <2>6, <2>7, <2>8, <2>9 DEF WorkerSteps
<1>2. ASSUME NEW c \in Clients, ActorSteps(c) PROVE Starts'
  <2>1. CASE WakeUp(c)
    BY <2>1 DEF WakeUp, Idle, Types, WorkerType, RunnerType, ActorType, WorkerPcs, ClientPcs,
                MainPcs, Control, Starts, Created, ToBeStarted, RunnersOf, WorkerAt
  <2>2. CASE StartWorker(c)
    BY <2>2 DEF StartWorker, StartThread, Idle, Types, WorkerType, RunnerType, ActorType,
                WorkerPcs, ClientPcs, MainPcs, Control, Starts, Created, ToBeStarted, RunnersOf,
                WorkerAt
  <2>3. CASE UnregisterWorkerThread(c)
    BY <2>3 DEF UnregisterWorkerThread, Types, WorkerType, RunnerType, ActorType, WorkerPcs,
                ClientPcs, MainPcs, Control, Starts, Created, ToBeStarted, RunnersOf, WorkerAt
  <2>4. CASE Cleanup(c)
    BY <2>4 DEF Cleanup, Idle, Types, WorkerType, RunnerType, ActorType, WorkerPcs, ClientPcs,
                MainPcs, Control, Starts, Created, ToBeStarted, RunnersOf, WorkerAt
  <2> QED
    BY <1>2, <2>1, <2>2, <2>3, <2>4 DEF ActorSteps
<1>3. ASSUME NEW c \in Clients, NEW r \in Runners,
             CreateTaskRunner(c, r) \/ PostTaskNow(c, r) \/ DropReference(c, r)
      PROVE  Starts'
  <2>1. CASE CreateTaskRunner(c, r)
    <3> DEFINE w == WorkerOf[r]
               new == \A s \in RunnersOf(w) : ~runner[s].created
    <3>1. /\ actor[c].pc = "idle" /\ ~runner[r].created /\ UNCHANGED worker
          /\ runner' = [runner EXCEPT ![r].created = TRUE, ![r].holders = Clients]
          /\ workers_' \subseteq workers_ \cup {w}
          /\ actor' = IF new /\ started_ THEN [actor EXCEPT ![c] = Busy("start", w)] ELSE actor
      BY <2>1 DEF CreateTaskRunner
    <3>2. w \in Workers /\ r \in RunnersOf(w)
      BY WorkerOfType
    <3>3. runner'[r].created /\ \A s \in Runners : runner[s].created => runner'[s].created
      BY <3>1 DEF Types, RunnerType
    <3>4. Created(w)' /\ \A v \in Workers : Created(v) => Created(v)'
      BY <3>2, <3>3 DEF Created, RunnersOf
    <3>5. CASE new /\ started_
      <4>1. ~Created(w)
        BY <3>5 DEF Created
      <4>2. ~ToBeStarted(w) /\ WorkerAt(w, "none")
        BY <3>2, <4>1 DEF Starts
      <4>3. /\ actor'[c].pc = "start" /\ actor'[c].worker = w
            /\ \A a \in Actors : a # c => actor'[a] = actor[a]
        BY <3>1, <3>5 DEF Types, Busy
      <4>4. \A v \in Workers : ToBeStarted(v)' => v = w \/ ToBeStarted(v)
        BY <4>3 DEF ToBeStarted
      <4>5. \A d \in Clients : d # c /\ actor[d].pc = "start" => actor[d].worker # w
        BY <4>2 DEF ToBeStarted
      <4>6. ~(actor[Main].pc = "start_workers" /\ w \in actor[Main].todo)
        BY <4>2 DEF ToBeStarted
      <4> QED
        BY <3>1, <3>4, <4>2, <4>3, <4>4, <4>5, <4>6 DEF Starts, WorkerAt
    <3>6. CASE ~(new /\ started_)
      <4>1. actor' = actor /\ \A v \in Workers : ToBeStarted(v)' <=> ToBeStarted(v)
        BY <3>1, <3>6 DEF ToBeStarted
      <4> QED
        BY <3>1, <3>4, <4>1 DEF Starts, WorkerAt
    <3> QED
      BY <3>5, <3>6
  <2>2. CASE PostTaskNow(c, r)
    BY <2>2 DEF PostTaskNow, Busy, Types, WorkerType, RunnerType, ActorType, WorkerPcs,
                ClientPcs, MainPcs, Control, Starts, Created, ToBeStarted, RunnersOf, WorkerAt
  <2>3. CASE DropReference(c, r)
    BY <2>3 DEF DropReference, Busy, Types, WorkerType, RunnerType, ActorType, WorkerPcs,
                ClientPcs, MainPcs, Control, Starts, Created, ToBeStarted, RunnersOf, WorkerAt
  <2> QED
    BY <1>3, <2>1, <2>2, <2>3
<1>4. CASE MainSteps
  <2>1. CASE WakeUp(Main)
    BY <2>1 DEF WakeUp, Idle, Types, WorkerType, RunnerType, ActorType, WorkerPcs, ClientPcs,
                MainPcs, Control, Starts, Created, ToBeStarted, RunnersOf, WorkerAt
  <2>2. CASE DidUpdateCanRunPolicy
    BY <2>2 DEF DidUpdateCanRunPolicy, Idle, Types, WorkerType, RunnerType, ActorType,
                WorkerPcs, ClientPcs, MainPcs, Control, Starts, Created, ToBeStarted, RunnersOf,
                WorkerAt
  <2>3. CASE StartManager
    BY <2>3 DEF StartManager, Idle, Types, WorkerType, RunnerType, ActorType, WorkerPcs,
                ClientPcs, MainPcs, Control, Starts, Created, ToBeStarted, RunnersOf, WorkerAt
  <2>4. CASE MainIsDone
    BY <2>4 DEF MainIsDone, Idle, Types, WorkerType, RunnerType, ActorType, WorkerPcs,
                ClientPcs, MainPcs, Control, Starts, Created, ToBeStarted, RunnersOf, WorkerAt
  <2>5. ASSUME NEW w \in Workers, UpdateWorker(w) PROVE Starts'
    BY <2>5 DEF UpdateWorker, Types, WorkerType, RunnerType, ActorType, WorkerPcs, ClientPcs,
                MainPcs, Control, Starts, Created, ToBeStarted, RunnersOf, WorkerAt
  <2>6. ASSUME NEW w \in Workers, StartWorkers(w) PROVE Starts'
    <3>1. /\ \A v \in Workers : v # w => worker'[v] = worker[v]
          /\ UNCHANGED <<runner, workers_>> /\ actor[Main].pc = "start_workers"
          /\ w \in actor[Main].todo
      BY <2>6, StartPoints DEF StartWorkers
    <3>2. /\ \A c \in Clients : actor'[c] = actor[c]
          /\ actor'[Main].pc = "start_workers" /\ actor'[Main].todo = actor[Main].todo \ {w}
      BY <2>6, <3>1 DEF StartWorkers, Types, ActorType
    <3>3. ToBeStarted(w) /\ ~ToBeStarted(w)'
      BY <3>1, <3>2 DEF ToBeStarted, Starts
    <3>4. \A v \in Workers : v # w => (ToBeStarted(v)' <=> ToBeStarted(v))
      BY <3>1, <3>2 DEF ToBeStarted
    <3>5. \A v \in Workers : Created(v)' <=> Created(v)
      BY <3>1 DEF Created, RunnersOf
    <3> QED
      BY <3>1, <3>2, <3>3, <3>4, <3>5 DEF Starts, WorkerAt
  <2> QED
    BY <1>4, <2>1, <2>2, <2>3, <2>4, <2>5, <2>6 DEF MainSteps
<1>5. CASE FenceStep
  BY <1>5, FenceFrame DEF Types, WorkerType, RunnerType, ActorType, WorkerPcs, ClientPcs, MainPcs,
                          Control, Starts, Created, ToBeStarted, RunnersOf, WorkerAt
<1> QED
  BY <1>1, <1>2, <1>3, <1>4, <1>5 DEF Next, FenceStep

\* Calls of WakeUp() under way depend on the actors at "wake" only.
LEMMA WakingFrame ==
  ASSUME \A a \in Actors : /\ actor'[a].pc = "wake" <=> actor[a].pc = "wake"
                           /\ actor[a].pc = "wake" => actor'[a].worker = actor[a].worker
  PROVE  \A w \in Workers : WakingUp(w)' = WakingUp(w)
BY DEF WakingUp

\* Nobody wakes up a worker whose runner is gone, and nothing is left in its queue.
LEMMA OrphanedIsQuiet ==
  ASSUME Types, Control, Sequences, WakeUps, NEW w \in Workers, Orphaned(w)
  PROVE  WakingUp(w) = {} /\ queue[w] = {}
<1>1. queue[w] = {}
  BY DEF Orphaned, Sequences, SelfReference
<1>2. \A c \in Clients : ~(actor[c].pc = "wake" /\ actor[c].worker = w)
  BY DEF Orphaned, Control
<1>3. ~(actor[Main].pc = "wake" /\ actor[Main].worker = w)
  BY <1>1 DEF WakeUps
<1> QED
  BY <1>1, <1>2, <1>3 DEF WakingUp, Actors

\* A worker that is awake, and not to be waited for, is woken up by nobody.
LEMMA RunningIsQuiet ==
  ASSUME Types, WakeUps, NEW w \in Workers, worker[w].pc \notin {"none", "wait", "no_work"}
  PROVE  WakingUp(w) = {}
BY DEF WakeUps

\* Every step keeps worker_awake_ exact.
LEMMA NextWakeUps == Types /\ Control /\ Sequences /\ Lifetime /\ Starts /\ WakeUps /\ Next => WakeUps'
<1> SUFFICES ASSUME Types, Control, Sequences, Lifetime, Starts, WakeUps, Next PROVE WakeUps'
  OBVIOUS
<1> USE Parameters DEF fences, Actors
<1>1. ASSUME NEW w \in Workers, WorkerSteps(w) PROVE WakeUps'
  <2>1. CASE WaitForWork(w)
    BY <2>1 DEF WaitForWork, WorkerAt, Types, WorkerType, RunnerType, ActorType, WorkerPcs,
                ClientPcs, MainPcs, Control, Sequences, WakeUps, WakingUp, RunnersOf
  <2>2. CASE ShouldExit(w)
    <3>1. /\ UNCHANGED <<queue, actor>> /\ worker[w].pc \in {"loop", "no_work"}
          /\ \A v \in Workers : v # w => worker'[v] = worker[v]
          /\ worker'[w].awake = worker[w].awake /\ worker'[w].event = worker[w].event
          /\ worker'[w].should_exit = worker[w].should_exit
          /\ worker'[w].pc = IF worker[w].should_exit THEN "exited"
                             ELSE IF worker[w].pc = "loop" THEN "get_work" ELSE "wait"
      BY <2>2 DEF ShouldExit, WorkerAt, WorkerGoes, Types, WorkerType
    <3>2. \A v \in Workers : WakingUp(v)' = WakingUp(v)
      BY <3>1, WakingFrame
    <3> QED
      BY <3>1, <3>2 DEF WakeUps
  <2>3. CASE GetWork(w)
    <3>1. /\ UNCHANGED actor /\ worker[w].pc = "get_work"
          /\ \A v \in Workers : v # w => worker'[v] = worker[v] /\ queue'[v] = queue[v]
          /\ worker'[w].event = worker[w].event /\ worker'[w].should_exit = worker[w].should_exit
          /\ \/ worker'[w].pc = "run" /\ worker'[w].awake = worker[w].awake
             \/ worker'[w].pc = "no_work" /\ ~worker'[w].awake
      BY <2>3, GetWorkPoints
    <3>2. WakingUp(w) = {}
      BY <3>1, RunningIsQuiet
    <3>3. \A v \in Workers : WakingUp(v)' = WakingUp(v)
      BY <3>1, WakingFrame
    <3>4. actor[Main].pc = "wake" => actor[Main].worker # w
      BY <3>2 DEF WakingUp
    <3>5. actor'[Main].pc = "wake" => queue'[actor'[Main].worker] # {}
      BY <3>1, <3>4 DEF WakeUps, Control
    <3> QED
      BY <3>1, <3>2, <3>3, <3>5 DEF WakeUps
  <2>4. CASE TakeTask(w)
    <3>1. /\ UNCHANGED <<queue, actor>> /\ worker[w].pc = "run"
          /\ worker' = [worker EXCEPT ![w].pc = "did_process"]
      BY <2>4 DEF TakeTask, WorkerAt, WorkerGoes
    <3>2. \A v \in Workers : WakingUp(v)' = WakingUp(v)
      BY <3>1, WakingFrame
    <3> QED
      BY <3>1, <3>2 DEF WakeUps, Types, WorkerType
  <2>5. CASE DidProcessTask(w)
    <3>1. /\ UNCHANGED <<queue, actor>> /\ worker[w].pc = "did_process"
          /\ worker'[w].pc \in {"enqueue", "unregister", "reset"}
          /\ \A v \in Workers : /\ v # w => worker'[v] = worker[v]
                                /\ worker'[v].event = worker[v].event
                                /\ worker'[v].awake = worker[v].awake
                                /\ worker'[v].should_exit = worker[v].should_exit
      BY <2>5, DidProcessPoints
    <3>2. \A v \in Workers : WakingUp(v)' = WakingUp(v)
      BY <3>1, WakingFrame
    <3> QED
      BY <3>1, <3>2 DEF WakeUps
  <2>6. CASE UnregisterItself(w)
    <3>1. /\ UNCHANGED <<queue, actor>> /\ worker[w].pc = "unregister"
          /\ worker' = [worker EXCEPT ![w].pc = "cleanup"]
      BY <2>6 DEF UnregisterItself, WorkerAt, WorkerGoes
    <3>2. \A v \in Workers : WakingUp(v)' = WakingUp(v)
      BY <3>1, WakingFrame
    <3> QED
      BY <3>1, <3>2 DEF WakeUps, Types, WorkerType
  <2>7. CASE CleanupItself(w)
    BY <2>7 DEF CleanupItself, WorkerAt, Types, WorkerType, RunnerType, ActorType, WorkerPcs,
                ClientPcs, MainPcs, Control, Sequences, WakeUps, WakingUp, RunnersOf
  <2>8. CASE Reenqueue(w)
    BY <2>8 DEF Reenqueue, WorkerAt, Types, WorkerType, RunnerType, ActorType, WorkerPcs,
                ClientPcs, MainPcs, Control, Sequences, WakeUps, WakingUp, RunnersOf
  <2>9. CASE ResetEvent(w)
    BY <2>9 DEF ResetEvent, WorkerAt, Types, WorkerType, RunnerType, ActorType, WorkerPcs,
                ClientPcs, MainPcs, Control, Sequences, WakeUps, WakingUp, RunnersOf
  <2> QED
    BY <1>1, <2>1, <2>2, <2>3, <2>4, <2>5, <2>6, <2>7, <2>8, <2>9 DEF WorkerSteps
<1>2. ASSUME NEW c \in Clients, ActorSteps(c) PROVE WakeUps'
  <2>1. CASE WakeUp(c)
    <3>1. PICK w \in Workers : w = actor[c].worker /\ actor[c].pc = "wake" /\ UNCHANGED queue
      BY <2>1 DEF WakeUp, Control
    <3>2. c \in WakingUp(w)
      BY <3>1 DEF WakingUp
    <3>3. ~worker[w].should_exit /\ worker[w].pc \in {"none", "wait", "no_work"}
      BY <3>1, <3>2 DEF WakeUps
    <3>4. worker[w].awake /\ WakingUp(w) = {c}
      BY <3>1, <3>2, <3>3 DEF WakeUps
    <3>5. /\ \A v \in Workers : v # w => worker'[v] = worker[v]
          /\ worker'[w].event /\ worker'[w].awake = worker[w].awake
          /\ worker'[w].pc = worker[w].pc /\ worker'[w].should_exit = worker[w].should_exit
      BY <2>1, <3>1 DEF WakeUp, Types, WorkerType
    <3>6. actor'[c].pc = "idle" /\ \A a \in Actors : a # c => actor'[a] = actor[a]
      BY <2>1 DEF WakeUp, Types, Idle
    <3>7. WakingUp(w)' = {} /\ \A v \in Workers : v # w => WakingUp(v)' = WakingUp(v)
      <4>1. \A a \in Actors : a # c => ~(actor[a].pc = "wake" /\ actor[a].worker = w)
        BY <3>4 DEF WakingUp
      <4>2. WakingUp(w)' = {}
        BY <3>6, <4>1 DEF WakingUp
      <4>3. \A v \in Workers : v # w => WakingUp(v)' = WakingUp(v)
        BY <3>1, <3>6 DEF WakingUp
      <4> QED
        BY <4>2, <4>3
    <3> QED
      <4>1. actor'[Main].pc = "wake" => queue'[actor'[Main].worker] # {}
        BY <3>1, <3>6 DEF WakeUps
      <4>2. \A v \in Workers : v # w => worker'[v] = worker[v] /\ WakingUp(v)' = WakingUp(v)
        BY <3>5, <3>7
      <4> QED
        <5>1. \A v \in Workers : v # w =>
                /\ worker'[v].should_exit => WakingUp(v)' = {}
                /\ worker'[v].pc = "get_work" => worker'[v].awake
          BY <4>2 DEF WakeUps
        <5> QED
          BY <3>3, <3>4, <3>5, <3>7, <4>1, <4>2, <5>1 DEF WakeUps
  <2>2. CASE StartWorker(c)
    <3> DEFINE w == actor[c].worker
    <3>1. w \in Workers /\ WorkerAt(w, "none")
      BY <2>2 DEF StartWorker, Control, Starts, ToBeStarted
    <3>2. /\ \A v \in Workers : v # w => worker'[v] = worker[v]
          /\ worker'[w].pc = IF worker[w].should_exit THEN worker[w].pc ELSE "wait"
          /\ \A v \in Workers : /\ worker'[v].awake = worker[v].awake
                                /\ worker'[v].event = worker[v].event
                                /\ worker'[v].should_exit = worker[v].should_exit
      BY <2>2, <3>1, StartPoints DEF StartWorker
    <3>3. /\ UNCHANGED queue /\ \A a \in Actors : a # c => actor'[a] = actor[a]
          /\ actor[c].pc = "start" /\ actor'[c].pc = "idle"
      BY <2>2 DEF StartWorker, Types, Idle
    <3>4. \A v \in Workers : WakingUp(v)' = WakingUp(v)
      BY <3>3, WakingFrame
    <3> QED
      BY <3>1, <3>2, <3>3, <3>4 DEF WakeUps, WorkerAt
  <2>3. CASE UnregisterWorkerThread(c)
    <3>1. /\ UNCHANGED <<worker, queue>> /\ \A a \in Actors : a # c => actor'[a] = actor[a]
          /\ actor[c].pc = "unregister" /\ actor'[c].pc = "cleanup"
      BY <2>3 DEF UnregisterWorkerThread, Types, ActorType
    <3>2. \A v \in Workers : WakingUp(v)' = WakingUp(v)
      BY <3>1, WakingFrame
    <3> QED
      BY <3>1, <3>2 DEF WakeUps
  <2>4. CASE Cleanup(c)
    <3> DEFINE w == actor[c].worker
    <3>1. w \in Workers /\ actor[c].pc = "cleanup" /\ UNCHANGED queue
      BY <2>4 DEF Cleanup, Control
    <3>2. WakingUp(w) = {}
      BY <3>1, OrphanedIsQuiet DEF Lifetime, Releasing
    <3>3. /\ \A v \in Workers : v # w => worker'[v] = worker[v]
          /\ worker'[w].should_exit /\ worker'[w].pc = worker[w].pc
          /\ worker'[w].awake = worker[w].awake
      BY <2>4, <3>1 DEF Cleanup, Types, WorkerType
    <3>4. actor'[c].pc = "idle" /\ \A a \in Actors : a # c => actor'[a] = actor[a]
      BY <2>4 DEF Cleanup, Types, Idle
    <3>5. \A v \in Workers : WakingUp(v)' = WakingUp(v)
      BY <3>1, <3>4, WakingFrame
    <3> QED
      BY <3>1, <3>2, <3>3, <3>4, <3>5 DEF WakeUps
  <2> QED
    BY <1>2, <2>1, <2>2, <2>3, <2>4 DEF ActorSteps
<1>3. ASSUME NEW c \in Clients, NEW r \in Runners,
             CreateTaskRunner(c, r) \/ PostTaskNow(c, r) \/ DropReference(c, r)
      PROVE  WakeUps'
  <2>1. CASE CreateTaskRunner(c, r)
    BY <2>1 DEF CreateTaskRunner, Busy, Types, WorkerType, RunnerType, ActorType, WorkerPcs,
                ClientPcs, MainPcs, Control, Sequences, WakeUps, WakingUp, RunnersOf, WorkerAt
  <2>2. CASE PostTaskNow(c, r)
    <3> DEFINE w == WorkerOf[r]
    <3>1. /\ actor[c].pc = "idle" /\ c \in runner[r].holders
          /\ \A v \in Workers : v # w => queue'[v] = queue[v]
          /\ queue[w] \subseteq queue'[w]
      BY <2>2, PostPoints
    <3>2. w \in Workers /\ r \in RunnersOf(w)
      BY WorkerOfType
    <3>3. \A v \in Workers : queue[v] # {} => queue'[v] # {}
      BY <3>1
    <3>4. CASE UNCHANGED <<worker, actor>>
      <4>1. \A v \in Workers : WakingUp(v)' = WakingUp(v)
        BY <3>4, WakingFrame
      <4> QED
        BY <3>3, <3>4, <4>1 DEF WakeUps, Control
    <3>5. CASE /\ MustWakeUp(w, queue'[w])
               /\ worker' = [worker EXCEPT ![w].awake = TRUE]
               /\ actor' = [actor EXCEPT ![c] = Busy("wake", w)]
      <4>1. ~worker[w].should_exit /\ ~worker[w].awake
        <5>1. ~Orphaned(w)
          BY <3>1, <3>2 DEF Orphaned
        <5> QED
          BY <3>2, <3>5, <5>1 DEF Lifetime, MustWakeUp
      <4>2. worker[w].pc \in {"none", "wait", "no_work"} /\ ~worker[w].event /\ WakingUp(w) = {}
        BY <3>2, <4>1 DEF WakeUps
      <4>3. /\ \A v \in Workers : v # w => worker'[v] = worker[v]
            /\ worker'[w].awake /\ worker'[w].event = worker[w].event
            /\ worker'[w].pc = worker[w].pc /\ worker'[w].should_exit = worker[w].should_exit
        BY <3>2, <3>5 DEF Types, WorkerType
      <4>4. /\ actor'[c].pc = "wake" /\ actor'[c].worker = w
            /\ \A a \in Actors : a # c => actor'[a] = actor[a]
        BY <3>5 DEF Types, Busy
      <4>5. WakingUp(w)' = {c} /\ \A v \in Workers : v # w => WakingUp(v)' = WakingUp(v)
        <5>1. \A a \in Actors : ~(actor[a].pc = "wake" /\ actor[a].worker = w)
          BY <4>2 DEF WakingUp
        <5>2. WakingUp(w)' = {c}
          BY <4>4, <5>1 DEF WakingUp
        <5>3. \A v \in Workers : v # w => WakingUp(v)' = WakingUp(v)
          BY <3>1, <4>4 DEF WakingUp
        <5> QED
          BY <5>2, <5>3
      <4>6. actor'[Main].pc = "wake" => queue'[actor'[Main].worker] # {}
        BY <3>3, <4>4 DEF WakeUps, Control
      <4> QED
        BY <4>1, <4>2, <4>3, <4>5, <4>6 DEF WakeUps
    <3> QED
      BY <2>2, <3>4, <3>5, PostPoints
  <2>3. CASE DropReference(c, r)
    <3>1. /\ UNCHANGED <<worker, queue>> /\ \A a \in Actors : a # c => actor'[a] = actor[a]
          /\ actor[c].pc = "idle" /\ actor'[c].pc # "wake"
      BY <2>3 DEF DropReference, Types, Busy
    <3>2. \A v \in Workers : WakingUp(v)' = WakingUp(v)
      BY <3>1, WakingFrame
    <3> QED
      BY <3>1, <3>2 DEF WakeUps
  <2> QED
    BY <1>3, <2>1, <2>2, <2>3
<1>4. CASE MainSteps
  <2>1. CASE WakeUp(Main)
    BY <2>1 DEF WakeUp, Idle, Types, WorkerType, RunnerType, ActorType, WorkerPcs, ClientPcs,
                MainPcs, Control, Sequences, WakeUps, WakingUp, RunnersOf, WorkerAt
  <2>2. CASE DidUpdateCanRunPolicy
    <3>1. /\ UNCHANGED <<queue, worker>> /\ actor[Main].pc = "did_update"
          /\ actor'[Main].pc # "wake" /\ \A a \in Actors : a # Main => actor'[a] = actor[a]
      BY <2>2 DEF DidUpdateCanRunPolicy, Idle, Types
    <3>2. \A v \in Workers : WakingUp(v)' = WakingUp(v)
      BY <3>1, WakingFrame
    <3> QED
      BY <3>1, <3>2 DEF WakeUps
  <2>3. CASE StartManager
    BY <2>3 DEF StartManager, Idle, Types, WorkerType, RunnerType, ActorType, WorkerPcs,
                ClientPcs, MainPcs, Control, Sequences, WakeUps, WakingUp, RunnersOf, WorkerAt
  <2>4. CASE MainIsDone
    BY <2>4 DEF MainIsDone, Idle, Types, WorkerType, RunnerType, ActorType, WorkerPcs,
                ClientPcs, MainPcs, Control, Sequences, WakeUps, WakingUp, RunnersOf, WorkerAt
  <2>5. ASSUME NEW w \in Workers, UpdateWorker(w) PROVE WakeUps'
    <3>1. /\ UNCHANGED queue /\ actor[Main].pc = "update"
          /\ \A a \in Actors : a # Main => actor'[a] = actor[a]
      BY <2>5 DEF UpdateWorker, Types
    <3>2. CASE ~MustWakeUp(w, queue[w])
      <4>1. worker' = worker /\ actor'[Main].pc = "update"
        BY <2>5, <3>2 DEF UpdateWorker, Types
      <4>2. \A v \in Workers : WakingUp(v)' = WakingUp(v)
        BY <3>1, <4>1, WakingFrame
      <4> QED
        BY <3>1, <4>1, <4>2 DEF WakeUps
    <3>3. CASE MustWakeUp(w, queue[w])
      <4>1. /\ worker' = [worker EXCEPT ![w].awake = TRUE]
            /\ actor'[Main].pc = "wake" /\ actor'[Main].worker = w
        BY <2>5, <3>3 DEF UpdateWorker, Types
      <4>2. queue[w] # {}
        BY <3>3 DEF MustWakeUp, CanRunNext, Tops
      <4>3. ~worker[w].should_exit /\ ~worker[w].awake
        BY <3>3, <4>2, OrphanedIsQuiet DEF MustWakeUp, Lifetime
      <4>4. worker[w].pc \in {"none", "wait", "no_work"} /\ ~worker[w].event /\ WakingUp(w) = {}
        BY <4>3 DEF WakeUps
      <4>5. /\ \A v \in Workers : v # w => worker'[v] = worker[v]
            /\ worker'[w].awake /\ worker'[w].event = worker[w].event
            /\ worker'[w].pc = worker[w].pc /\ worker'[w].should_exit = worker[w].should_exit
        BY <4>1 DEF Types, WorkerType
      <4>6. WakingUp(w)' = {Main} /\ \A v \in Workers : v # w => WakingUp(v)' = WakingUp(v)
        <5>1. \A a \in Actors : ~(actor[a].pc = "wake" /\ actor[a].worker = w)
          BY <4>4 DEF WakingUp
        <5>2. WakingUp(w)' = {Main}
          BY <3>1, <4>1, <5>1 DEF WakingUp
        <5>3. \A v \in Workers : v # w => WakingUp(v)' = WakingUp(v)
          BY <3>1, <4>1 DEF WakingUp
        <5> QED
          BY <5>2, <5>3
      <4> QED
        BY <3>1, <4>1, <4>2, <4>3, <4>4, <4>5, <4>6 DEF WakeUps
    <3> QED
      BY <3>2, <3>3
  <2>6. ASSUME NEW w \in Workers, StartWorkers(w) PROVE WakeUps'
    <3>1. WorkerAt(w, "none")
      BY <2>6 DEF StartWorkers, Starts, ToBeStarted
    <3>2. /\ \A v \in Workers : v # w => worker'[v] = worker[v]
          /\ worker'[w].pc = IF worker[w].should_exit THEN worker[w].pc ELSE "wait"
          /\ \A v \in Workers : /\ worker'[v].awake = worker[v].awake
                                /\ worker'[v].event = worker[v].event
                                /\ worker'[v].should_exit = worker[v].should_exit
      BY <2>6, StartPoints DEF StartWorkers
    <3>3. /\ UNCHANGED queue /\ \A a \in Actors : a # Main => actor'[a] = actor[a]
          /\ actor[Main].pc = "start_workers" /\ actor'[Main].pc = "start_workers"
      BY <2>6 DEF StartWorkers, Types, ActorType
    <3>4. \A v \in Workers : WakingUp(v)' = WakingUp(v)
      BY <3>3, WakingFrame
    <3> QED
      BY <3>1, <3>2, <3>3, <3>4 DEF WakeUps, WorkerAt
  <2> QED
    BY <1>4, <2>1, <2>2, <2>3, <2>4, <2>5, <2>6 DEF MainSteps
<1>5. CASE FenceStep
  BY <1>5, FenceFrame DEF Types, WorkerType, RunnerType, ActorType, WorkerPcs, ClientPcs, MainPcs,
                          Control, Sequences, WakeUps, WakingUp, RunnersOf, WorkerAt
<1> QED
  BY <1>1, <1>2, <1>3, <1>4, <1>5 DEF Next, FenceStep

\* A queue that holds a runnable source has one on top.
LEMMA RunnableOnTop ==
  ASSUME NEW q \in SUBSET Runners, NEW r \in q, CanRunPriority(r)
  PROVE  CanRunNext(q)
BY DEF CanRunPriority, CanRunNext, Tops

\* A worker with a queue is registered.
LEMMA QueuedIsRegistered ==
  ASSUME Sequences, Lifetime, NEW w \in Workers, queue[w] # {}
  PROVE  w \in workers_ /\ ~worker[w].should_exit /\ ~Releasing(w)
<1>1. PICK r \in RunnersOf(w) : runner[r].tasks > 0
  BY DEF Sequences
<1>2. ~Orphaned(w) /\ Created(w)
  BY <1>1 DEF Orphaned, Created, Sequences, SelfReference, RunnersOf
<1> QED
  BY <1>2 DEF Lifetime

\* Every step keeps runnable work with workers that are awake.
LEMMA NextPolicy == Types /\ Control /\ Sequences /\ Lifetime /\ Policy /\ Next => Policy'
<1> SUFFICES ASSUME Types, Control, Sequences, Lifetime, Policy, Next PROVE Policy'
  OBVIOUS
<1> USE Parameters DEF fences, Actors
<1>1. ASSUME NEW w \in Workers, WorkerSteps(w) PROVE Policy'
  <2>1. CASE WaitForWork(w)
    BY <2>1 DEF WaitForWork, WorkerAt, Types, WorkerType, RunnerType, ActorType, WorkerPcs,
                ClientPcs, MainPcs, Control, Sequences, Policy, NoForgottenWork,
                PolicyUpdateOnItsWay, CanRunPriority, RunnersOf
  <2>2. CASE ShouldExit(w)
    BY <2>2 DEF ShouldExit, WorkerAt, WorkerGoes, Types, WorkerType, RunnerType, ActorType,
                WorkerPcs, ClientPcs, MainPcs, Control, Sequences, Policy, NoForgottenWork,
                PolicyUpdateOnItsWay, CanRunPriority, RunnersOf
  <2>3. CASE GetWork(w)
    <3>1. /\ UNCHANGED <<policy, num_fences_, num_best_effort_fences_, started_, workers_, actor>>
          /\ \A v \in Workers : v # w => worker'[v] = worker[v] /\ queue'[v] = queue[v]
          /\ queue'[w] \subseteq queue[w]
          /\ \/ worker'[w].awake = worker[w].awake
             \/ ~CanRunNext(queue[w]) /\ queue' = queue
      BY <2>3, GetWorkPoints
    <3>2. ~CanRunNext(queue[w]) => \A r \in queue[w] : ~CanRunPriority(r)
      BY RunnableOnTop DEF Types
    <3> QED
      BY <3>1, <3>2 DEF Policy, NoForgottenWork, PolicyUpdateOnItsWay, CanRunPriority, UpdatedPolicy
  <2>4. CASE TakeTask(w)
    BY <2>4 DEF TakeTask, WorkerAt, WorkerGoes, Types, WorkerType, RunnerType, ActorType,
                WorkerPcs, ClientPcs, MainPcs, Control, Sequences, Policy, NoForgottenWork,
                PolicyUpdateOnItsWay, CanRunPriority, RunnersOf
  <2>5. CASE DidProcessTask(w)
    BY <2>5 DEF DidProcessTask, WorkerAt, WorkerGoes, Types, WorkerType, RunnerType, ActorType,
                WorkerPcs, ClientPcs, MainPcs, Control, Sequences, Policy, NoForgottenWork,
                PolicyUpdateOnItsWay, CanRunPriority, RunnersOf
  <2>6. CASE UnregisterItself(w)
    <3>1. /\ UNCHANGED <<policy, num_fences_, num_best_effort_fences_, started_, queue, actor>>
          /\ worker[w].pc = "unregister" /\ workers_' = workers_ \ {w}
          /\ \A v \in Workers : worker'[v].awake = worker[v].awake
      BY <2>6 DEF UnregisterItself, WorkerAt, WorkerGoes, Types, WorkerType
    <3>2. queue[w] = {}
      BY <3>1, QueuedIsRegistered DEF Releasing
    <3> QED
      BY <3>1, <3>2 DEF Policy, NoForgottenWork, PolicyUpdateOnItsWay, CanRunPriority, UpdatedPolicy
  <2>7. CASE CleanupItself(w)
    BY <2>7 DEF CleanupItself, WorkerAt, Types, WorkerType, RunnerType, ActorType, WorkerPcs,
                ClientPcs, MainPcs, Control, Sequences, Policy, NoForgottenWork,
                PolicyUpdateOnItsWay, CanRunPriority, RunnersOf
  <2>8. CASE Reenqueue(w)
    BY <2>8 DEF Reenqueue, WorkerAt, Types, WorkerType, RunnerType, ActorType, WorkerPcs,
                ClientPcs, MainPcs, Control, Sequences, Policy, NoForgottenWork,
                PolicyUpdateOnItsWay, CanRunPriority, RunnersOf
  <2>9. CASE ResetEvent(w)
    BY <2>9 DEF ResetEvent, WorkerAt, Types, WorkerType, RunnerType, ActorType, WorkerPcs,
                ClientPcs, MainPcs, Control, Sequences, Policy, NoForgottenWork,
                PolicyUpdateOnItsWay, CanRunPriority, RunnersOf
  <2> QED
    BY <1>1, <2>1, <2>2, <2>3, <2>4, <2>5, <2>6, <2>7, <2>8, <2>9 DEF WorkerSteps
<1>2. ASSUME NEW c \in Clients, ActorSteps(c) PROVE Policy'
  <2>1. CASE WakeUp(c)
    BY <2>1 DEF WakeUp, Idle, Types, WorkerType, RunnerType, ActorType, WorkerPcs, ClientPcs,
                MainPcs, Control, Sequences, Policy, NoForgottenWork, PolicyUpdateOnItsWay,
                CanRunPriority, RunnersOf, WorkerAt
  <2>2. CASE StartWorker(c)
    BY <2>2 DEF StartWorker, StartThread, Idle, Types, WorkerType, RunnerType, ActorType,
                WorkerPcs, ClientPcs, MainPcs, Control, Sequences, Policy, NoForgottenWork,
                PolicyUpdateOnItsWay, CanRunPriority, RunnersOf, WorkerAt
  <2>3. CASE UnregisterWorkerThread(c)
    <3>1. PICK w \in Workers :
            /\ actor[c].worker = w /\ actor[c].pc = "unregister" /\ workers_' = workers_ \ {w}
            /\ UNCHANGED <<policy, num_fences_, num_best_effort_fences_, started_, queue, worker>>
            /\ actor'[Main] = actor[Main]
      BY <2>3 DEF UnregisterWorkerThread, Types, Control
    <3>2. queue[w] = {}
      BY <3>1, QueuedIsRegistered DEF Releasing
    <3> QED
      BY <3>1, <3>2 DEF Policy, NoForgottenWork, PolicyUpdateOnItsWay, CanRunPriority, UpdatedPolicy
  <2>4. CASE Cleanup(c)
    BY <2>4 DEF Cleanup, Idle, Types, WorkerType, RunnerType, ActorType, WorkerPcs, ClientPcs,
                MainPcs, Control, Sequences, Policy, NoForgottenWork, PolicyUpdateOnItsWay,
                CanRunPriority, RunnersOf, WorkerAt
  <2> QED
    BY <1>2, <2>1, <2>2, <2>3, <2>4 DEF ActorSteps
<1>3. ASSUME NEW c \in Clients, NEW r \in Runners,
             CreateTaskRunner(c, r) \/ PostTaskNow(c, r) \/ DropReference(c, r)
      PROVE  Policy'
  <2>1. CASE CreateTaskRunner(c, r)
    BY <2>1 DEF CreateTaskRunner, Busy, Types, WorkerType, RunnerType, ActorType, WorkerPcs,
                ClientPcs, MainPcs, Control, Sequences, Policy, NoForgottenWork,
                PolicyUpdateOnItsWay, CanRunPriority, RunnersOf, WorkerAt
  <2>2. CASE PostTaskNow(c, r)
    <3> DEFINE w == WorkerOf[r]
    <3>1. /\ UNCHANGED <<policy, num_fences_, num_best_effort_fences_, started_, workers_>>
          /\ \A v \in Workers : v # w => queue'[v] = queue[v] /\ worker'[v] = worker[v]
          /\ queue'[w] = IF SelfReference(r) THEN queue[w] ELSE queue[w] \cup {r}
      BY <2>2, PostPoints
    <3>2. w \in Workers /\ actor'[Main] = actor[Main]
      BY <2>2, WorkerOfType, PostPoints DEF Types
    <3>3. \/ /\ ~(~SelfReference(r) /\ MustWakeUp(w, queue'[w])) /\ UNCHANGED worker
          \/ worker' = [worker EXCEPT ![w].awake = TRUE]
      BY <2>2, PostPoints
    <3>4. /\ worker[w].awake => worker'[w].awake
          /\ queue'[w] # queue[w] => worker'[w].awake \/ ~CanRunNext(queue'[w])
      <4>1. CASE worker' = [worker EXCEPT ![w].awake = TRUE]
        BY <3>2, <4>1 DEF Types, WorkerType
      <4>2. CASE ~(~SelfReference(r) /\ MustWakeUp(w, queue'[w])) /\ UNCHANGED worker
        BY <3>1, <4>2 DEF MustWakeUp
      <4> QED
        BY <3>3, <4>1, <4>2
    <3>5. ~CanRunNext(queue'[w]) => \A s \in queue'[w] : ~CanRunPriority(s)
      BY <3>1, <3>2, RunnableOnTop DEF Types
    <3> QED
      BY <3>1, <3>2, <3>4, <3>5
         DEF Policy, NoForgottenWork, PolicyUpdateOnItsWay, CanRunPriority, UpdatedPolicy
  <2>3. CASE DropReference(c, r)
    BY <2>3 DEF DropReference, Busy, Types, WorkerType, RunnerType, ActorType, WorkerPcs,
                ClientPcs, MainPcs, Control, Sequences, Policy, NoForgottenWork,
                PolicyUpdateOnItsWay, CanRunPriority, RunnersOf, WorkerAt
  <2> QED
    BY <1>3, <2>1, <2>2, <2>3
<1>4. CASE MainSteps
  <2>1. CASE WakeUp(Main)
    BY <2>1 DEF WakeUp, Idle, Types, WorkerType, RunnerType, ActorType, WorkerPcs, ClientPcs,
                MainPcs, Control, Sequences, Policy, NoForgottenWork, PolicyUpdateOnItsWay,
                CanRunPriority, RunnersOf, WorkerAt
  <2>2. CASE DidUpdateCanRunPolicy
    BY <2>2 DEF DidUpdateCanRunPolicy, Idle, Types, WorkerType, RunnerType, ActorType,
                WorkerPcs, ClientPcs, MainPcs, Control, Sequences, Policy, NoForgottenWork,
                PolicyUpdateOnItsWay, CanRunPriority, RunnersOf, WorkerAt
  <2>3. CASE StartManager
    BY <2>3 DEF StartManager, Idle, Types, WorkerType, RunnerType, ActorType, WorkerPcs,
                ClientPcs, MainPcs, Control, Sequences, Policy, NoForgottenWork,
                PolicyUpdateOnItsWay, CanRunPriority, RunnersOf, WorkerAt
  <2>4. CASE MainIsDone
    BY <2>4 DEF MainIsDone, Idle, Types, WorkerType, RunnerType, ActorType, WorkerPcs,
                ClientPcs, MainPcs, Control, Sequences, Policy, NoForgottenWork,
                PolicyUpdateOnItsWay, CanRunPriority, RunnersOf, WorkerAt
  <2>5. ASSUME NEW w \in Workers, UpdateWorker(w) PROVE Policy'
    <3>1. /\ UNCHANGED <<policy, num_fences_, num_best_effort_fences_, started_, workers_, queue>>
          /\ actor'[Main].todo = actor[Main].todo \ {w} /\ actor[Main].pc = "update"
          /\ actor'[Main].pc \in {"update", "wake"}
      BY <2>5 DEF UpdateWorker, Types
    <3>2. \A v \in Workers : worker[v].awake => worker'[v].awake
      BY <2>5 DEF UpdateWorker, Types, WorkerType
    <3>3. worker'[w].awake \/ ~CanRunNext(queue[w])
      BY <2>5 DEF UpdateWorker, MustWakeUp, Types, WorkerType
    <3>4. ~CanRunNext(queue[w]) => \A s \in queue[w] : ~CanRunPriority(s)
      BY RunnableOnTop DEF Types
    <3> QED
      BY <3>1, <3>2, <3>3, <3>4
         DEF Policy, NoForgottenWork, PolicyUpdateOnItsWay, CanRunPriority, UpdatedPolicy
  <2>6. ASSUME NEW w \in Workers, StartWorkers(w) PROVE Policy'
    BY <2>6 DEF StartWorkers, StartThread, Types, WorkerType, RunnerType, ActorType, WorkerPcs,
                ClientPcs, MainPcs, Control, Sequences, Policy, NoForgottenWork,
                PolicyUpdateOnItsWay, CanRunPriority, RunnersOf, WorkerAt
  <2> QED
    BY <1>4, <2>1, <2>2, <2>3, <2>4, <2>5, <2>6 DEF MainSteps
<1>5. CASE FenceStep
  <2> SUFFICES ASSUME ~FencesBeforeStart
               PROVE  /\ ~started_' => /\ num_fences_' = 0 /\ num_best_effort_fences_' = 0
                                       /\ policy' = "all" \/ policy' = UpdatedPolicy(0, 0)
                      /\ actor'[Main].pc = "did_update" => started_'
                      /\ NoForgottenWork'
    BY DEF Policy
  <2>1. UNCHANGED <<started_, workers_, worker, queue>>
    BY <1>5, FenceFrame
  <2>2. CASE started_
    <3>1. actor'[Main].pc = "did_update"
      <4>1. actor' = [actor EXCEPT ![Main].pc = "did_update"]
        BY <1>5, <2>2, FenceFrame
      <4> QED
        BY <4>1 DEF Types, ActorType
    <3>2. \A v \in Workers : queue[v] # {} => v \in workers_
      BY QueuedIsRegistered
    <3> QED
      BY <2>1, <2>2, <3>1, <3>2 DEF NoForgottenWork, PolicyUpdateOnItsWay
  <2>3. CASE ~started_
    <3>1. Start
      BY <1>5, <2>3 DEF FenceStep, BeginFence, EndFence, BeginBestEffortFence, EndBestEffortFence,
                        MayBegin, Policy
    <3>2. /\ num_fences_' = 0 /\ num_best_effort_fences_' = 0 /\ policy' = UpdatedPolicy(0, 0)
          /\ actor'[Main].pc = "start"
      BY <2>3, <3>1 DEF Start, SetCanRunPolicy, Policy, Types, ActorType
    <3>3. \A r \in Runners : CanRunPriority(r)' => CanRunPriority(r)
      BY <2>3, <3>2 DEF CanRunPriority, UpdatedPolicy, Policy
    <3>4. \A v \in Workers : ~PolicyUpdateOnItsWay(v)
      BY <1>5, <2>3, FenceFrame DEF PolicyUpdateOnItsWay
    <3> QED
      BY <2>1, <2>3, <3>2, <3>3, <3>4 DEF NoForgottenWork, Policy, Types
  <2> QED
    BY <2>2, <2>3 DEF Types
<1> QED
  BY <1>1, <1>2, <1>3, <1>4, <1>5 DEF Next, FenceStep

\* Init satisfies the invariant.
LEMMA InitInd == Init => IndInv
<1> SUFFICES ASSUME Init PROVE IndInv
  OBVIOUS
<1> USE Parameters DEF Actors
<1>1. Types
  <2>1. worker \in [Workers -> WorkerType]
    BY DEF Init, WorkerType, WorkerPcs
  <2>2. queue \in [Workers -> SUBSET Runners] /\ runner \in [Runners -> RunnerType]
    BY DEF Init, RunnerType
  <2>3. actor \in [Actors -> ActorType]
    BY ActorTypes DEF Init
  <2>4. /\ num_fences_ \in Int /\ num_best_effort_fences_ \in Int /\ posted \in 0..MaxTasks
        /\ policy \in {"all", "foreground", "none"}
    BY DEF Init
  <2>5. started_ \in BOOLEAN /\ workers_ \subseteq Workers
    BY Zenon DEF Init
  <2> QED
    BY <2>1, <2>2, <2>3, <2>4, <2>5 DEF Types
<1>2. \A a \in Actors : actor[a].pc = "idle"
  BY DEF Init, Idle
<1>3. \A w \in Workers : /\ worker[w].pc = "none" /\ ~worker[w].awake /\ ~worker[w].event
                         /\ ~worker[w].should_exit /\ worker[w].source = {} /\ queue[w] = {}
  BY DEF Init
<1>4. \A r \in Runners : /\ ~runner[r].created /\ runner[r].holders = {} /\ runner[r].tasks = 0
                         /\ ~runner[r].has_worker
  BY DEF Init
<1>5. Control
  BY <1>2, <1>3 DEF Control, ClientPcs, MainPcs, Init, WorkerAt
<1>6. Sequences
  BY <1>3, <1>4 DEF Sequences, SelfReference, Init, WorkerAt
<1>7. Lifetime
  <2>1. \A w \in Workers : \E r \in RunnersOf(w) : ~runner[r].created
    BY <1>4 DEF Workers, RunnersOf
  <2>2. \A w \in Workers : ~Orphaned(w)
    BY <2>1 DEF Orphaned
  <2>3. \A w \in Workers : ~Created(w) /\ ~Releasing(w)
    BY <1>2, <1>3, <1>4 DEF Created, Releasing, RunnersOf
  <2> QED
    BY <1>2, <1>3, <2>2, <2>3 DEF Lifetime, WorkerAt
<1>8. Starts
  BY <1>2, <1>3 DEF Starts, ToBeStarted, Init, WorkerAt
<1>9. WakeUps
  <2>1. \A w \in Workers : WakingUp(w) = {}
    BY <1>2 DEF WakingUp
  <2> QED
    BY <1>2, <1>3, <2>1 DEF WakeUps
<1>10. Policy
  BY <1>2, <1>3 DEF Policy, NoForgottenWork, Init
<1> QED
  BY <1>1, <1>5, <1>6, <1>7, <1>8, <1>9, <1>10 DEF IndInv

\* Every step, and every stuttering step, keeps the invariant.
LEMMA NextInd == IndInv /\ [Next]_vars => IndInv'
<1> SUFFICES ASSUME IndInv, [Next]_vars PROVE IndInv'
  OBVIOUS
<1>1. CASE Next
  BY <1>1, NextTypes, NextControl, NextSequences, NextLifetime, NextStarts, NextWakeUps, NextPolicy
     DEF IndInv
<1>2. CASE UNCHANGED vars
  BY <1>2 DEF IndInv, vars, Types, Control, Sequences, Lifetime, Starts, WakeUps, Policy, WorkerAt,
              SelfReference, Orphaned, Releasing, Created, ToBeStarted, WakingUp, NoForgottenWork,
              PolicyUpdateOnItsWay, CanRunPriority
<1> QED
  BY <1>1, <1>2

\* The inductive invariant holds in every state of the manager.
THEOREM Invariance == Spec => []IndInv
BY InitInd, NextInd, PTL DEF Spec

\* Every piece of the manager's state keeps its type.
THEOREM TypeCorrect == Spec => []TypeOK
<1>1. IndInv => TypeOK
  <2> SUFFICES ASSUME IndInv PROVE TypeOK
    OBVIOUS
  <2>1. \A r \in Runners : runner[r].tasks \in 0..MaxTasks
    BY Parameters DEF IndInv, Types, RunnerType, Sequences
  <2>2. \A w \in Workers : worker[w].pc \in WorkerPcs
    BY DEF IndInv, Types, WorkerType
  <2>3. \A a \in Actors : actor[a].worker \in Workers \cup {NoWorker}
    BY DEF IndInv, Types, ActorType
  <2> QED
    BY <2>1, <2>2, <2>3 DEF IndInv, Types, Sequences, TypeOK, WorkerPcs
<1> QED
  BY <1>1, Invariance, PTL

\* worker_awake_ is set exactly while the worker runs or its one WakeUp() is in the event or
\* about to be called: EnqueueTaskSource() and the policy update never signal twice and
\* GetWork() is never called by a worker that counts as asleep.
THEOREM AwakeHolds == Spec => []AwakeIsExact
<1>1. IndInv /\ TypeOK => AwakeIsExact
  <2> SUFFICES ASSUME IndInv, NEW w \in Workers
               PROVE  /\ WorkerAt(w, "get_work") => worker[w].awake
                      /\ Asleep(w) /\ ~worker[w].should_exit =>
                           Cardinality(WakingUp(w)) + (IF worker[w].event THEN 1 ELSE 0)
                             = (IF worker[w].awake THEN 1 ELSE 0)
    BY DEF AwakeIsExact
  <2>1. WorkerAt(w, "get_work") => worker[w].awake
    BY DEF IndInv, WakeUps, WorkerAt
  <2>2. ASSUME Asleep(w), ~worker[w].should_exit
        PROVE  Cardinality(WakingUp(w)) + (IF worker[w].event THEN 1 ELSE 0)
                 = (IF worker[w].awake THEN 1 ELSE 0)
    <3>1. worker[w].pc \in {"none", "wait", "no_work"}
      BY <2>2 DEF Asleep
    <3>2. CASE ~worker[w].awake
      <4>1. ~worker[w].event /\ WakingUp(w) = {}
        BY <2>2, <3>1, <3>2 DEF IndInv, WakeUps
      <4>2. Cardinality(WakingUp(w)) = 0
        BY <4>1, FS_EmptySet
      <4> QED
        BY <3>2, <4>1, <4>2
    <3>3. CASE worker[w].awake /\ worker[w].event
      <4>1. WakingUp(w) = {}
        BY <2>2, <3>1, <3>3 DEF IndInv, WakeUps
      <4>2. Cardinality(WakingUp(w)) = 0
        BY <4>1, FS_EmptySet
      <4> QED
        BY <3>3, <4>2
    <3>4. CASE worker[w].awake /\ ~worker[w].event
      <4>1. PICK a \in Actors : WakingUp(w) = {a}
        BY <2>2, <3>1, <3>4 DEF IndInv, WakeUps
      <4>2. Cardinality(WakingUp(w)) = 1
        BY <4>1, FS_Singleton
      <4> QED
        BY <3>4, <4>2
    <3> QED
      BY <3>2, <3>3, <3>4
  <2> QED
    BY <2>1, <2>2
<1> QED
  BY <1>1, Invariance, TypeCorrect, PTL

\* A worker is cleaned up exactly when its runner is gone: it is then unregistered, has nothing
\* queued, is woken up by nobody, and, if it sleeps, finds its event set; and a worker has one
\* starter at most.
THEOREM CleanupHolds == Spec => []CleanupIsExact
<1>1. IndInv => CleanupIsExact
  <2> SUFFICES ASSUME IndInv, NEW w \in Workers
               PROVE  /\ Orphaned(w) => worker[w].should_exit \/ Releasing(w)
                      /\ worker[w].should_exit =>
                           /\ WakingUp(w) = {} /\ queue[w] = {} /\ w \notin workers_
                           /\ WorkerAt(w, "wait") => worker[w].event
                      /\ ToBeStarted(w) => WorkerAt(w, "none")
    BY DEF CleanupIsExact, ToBeStarted
  <2>1. worker[w].should_exit => WakingUp(w) = {} /\ queue[w] = {}
    BY OrphanedIsQuiet DEF IndInv, Lifetime
  <2> QED
    BY <2>1 DEF IndInv, Lifetime, Starts
<1> QED
  BY <1>1, Invariance, PTL

\* When no fence begins before Start(), a source that the policy allows is never left in the
\* queue of a worker that sleeps: the worker is awake, or the policy update is on its way to it.
\* The run st_fence shows why fences before Start() are excluded.
THEOREM NoWorkForgotten == ~FencesBeforeStart => (Spec => []NoForgottenWork)
<1>1. IndInv /\ ~FencesBeforeStart => NoForgottenWork
  BY DEF IndInv, Policy
<1>2. ASSUME ~FencesBeforeStart PROVE IndInv => NoForgottenWork
  BY <1>1, <1>2
<1> SUFFICES ASSUME ~FencesBeforeStart PROVE Spec => []NoForgottenWork
  OBVIOUS
<1> QED
  BY <1>2, Invariance, PTL

=============================================================================
