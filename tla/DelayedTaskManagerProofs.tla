---------------------- MODULE DelayedTaskManagerProofs ----------------------
(***************************************************************************)
(* Machine-checked proofs about DelayedTaskManager: the ripest task always *)
(* has a wake-up coming, one closure is posted per mark scheduled_, and    *)
(* every step is one that DelayedForwarding allows, for any number of      *)
(* tasks and any run times.                                                *)
(***************************************************************************)
EXTENDS DelayedTaskManager, FiniteSetTheorems, WellFoundedInduction, TLAPS

\* Where the threads are, and what has not happened before Start().
Control ==
  /\ pc[Service] \in {"serve", "schedule", "run"}
  /\ \A a \in Threads \ {Service} : pc[a] \in {"new", "schedule", "done"}
  /\ started <=> pc[Starter] # "new"
  /\ ~started => /\ scheduled = {} /\ pc[Service] = "serve"
                 /\ \A a \in Threads : pc[a] # "schedule"
                 /\ \A d \in 0..MaxTime : wakeups[d] = 0
  /\ pc[Service] = "serve" => ripe = {}

\* A task is in the heap, ripe or forwarded, in this order and only once.
Places ==
  /\ \A t \in Tasks : pc[t] = "new" => t \notin queue \cup ripe \cup forwarded \cup scheduled
  /\ queue \cap ripe = {} /\ (queue \cup ripe) \cap forwarded = {}
  /\ \A t \in ripe : RunTime[t] <= now

\* The threads about to post a closure.
Posting == {a \in Threads : pc[a] = "schedule" /\ time[a] # Never}

Marks == posted + Cardinality(Posting) = Cardinality(scheduled)

\* Closures that wake the service thread up in time for t.  One that is due only when t is
\* cannot be the one that is consumed while t stays in the heap.
WakeUpFor(t) ==
  IF RunTime[t] > now THEN wakeups[RunTime[t]] > 0
  ELSE \E d \in 0..MaxTime : d <= now /\ wakeups[d] > 0

Covered(t) ==
  \/ WakeUpFor(t)
  \/ \E a \in Threads : pc[a] = "schedule" /\ time[a] = RunTime[t]

\* Each marked task is covered by itself, not by a riper one.
Coverage ==
  /\ started /\ queue # {} => Ripest(queue) \in scheduled
  /\ \A t \in queue \cap scheduled : Covered(t)

IndInv == TypeOK /\ Control /\ Places /\ Marks /\ Coverage

-----------------------------------------------------------------------------
(***************************************************************************)
(* The heap.                                                               *)
(***************************************************************************)

\* The order of the natural numbers is well-founded.
LEMMA NaturalOrder ==
  \E R : IsWellFoundedOn(R, Nat) /\ \A x, y \in Nat : y < x => <<y, x>> \in R
<1>1. \A x, y \in Nat : y < x => <<y, x>> \in OpToRel(<, Nat)
  BY DEF OpToRel
<1> QED
  BY <1>1, NatLessThanWellFounded, Zenon

\* A non-empty set of natural numbers has a least element.
LEMMA LeastNatural ==
  ASSUME NEW T, T \subseteq Nat, T # {}
  PROVE  \E x \in T : \A y \in T : x <= y
<1>1. PICK R : IsWellFoundedOn(R, Nat) /\ \A x, y \in Nat : y < x => <<y, x>> \in R
  BY NaturalOrder, Zenon
<1>2. PICK x \in T : \A y \in T : ~(<<y, x>> \in R)
  BY <1>1, WFMin
<1>3. ASSUME NEW y \in T PROVE x <= y
  <2>1. x \in Nat /\ y \in Nat
    OBVIOUS
  <2>2. ~(y < x)
    BY <1>1, <1>2, <2>1, Zenon
  <2> QED
    BY <2>1, <2>2
<1> QED
  BY <1>3

\* delayed_task_queue_.Min() is in the queue, and before every other task of it.
LEMMA RipestIsMin ==
  ASSUME NEW S, S \subseteq Tasks, S # {}
  PROVE  Ripest(S) \in S /\ \A t \in S : RunTime[Ripest(S)] <= RunTime[t]
<1>1. \A t \in Tasks : RunTime[t] \in Nat /\ RunTime[t] \in 0..MaxTime /\ SequenceNum[t] \in Nat
  BY TasksAssumption
<1> DEFINE times == {RunTime[t] : t \in S}
<1>2. PICK s \in S : \A t \in S : RunTime[s] <= RunTime[t]
  <2>1. times \subseteq Nat /\ times # {}
    BY <1>1
  <2>2. \E x \in times : \A y \in times : x <= y
    BY <2>1, LeastNatural
  <2> QED
    BY <2>2
<1> DEFINE nums == {SequenceNum[t] : t \in {u \in S : RunTime[u] = RunTime[s]}}
<1>3. PICK r \in S : /\ RunTime[r] = RunTime[s]
                     /\ \A t \in S : RunTime[t] = RunTime[s] => SequenceNum[r] <= SequenceNum[t]
  <2>1. nums \subseteq Nat /\ nums # {}
    BY <1>1
  <2>2. \E x \in nums : \A y \in nums : x <= y
    BY <2>1, LeastNatural
  <2> QED
    BY <2>2
<1>4. \A t \in S : Before(r, t)
  BY <1>1, <1>2, <1>3 DEF Before
<1>5. Ripest(S) \in S /\ \A t \in S : Before(Ripest(S), t)
  BY <1>4 DEF Ripest
<1> QED
  BY <1>1, <1>5 DEF Before

\* The delay of a closure is never negative.
LEMMA MaxOfTwo ==
  ASSUME NEW a \in Int, NEW b \in Int
  PROVE  Max({a, b}) = IF a >= b THEN a ELSE b
<1>1. \E x \in {a, b} : \A y \in {a, b} : x >= y
  OBVIOUS
<1>2. Max({a, b}) \in {a, b} /\ \A y \in {a, b} : Max({a, b}) >= y
  BY <1>1 DEF Max
<1> QED
  BY <1>2

\* What is known of the constants.
LEMMA Constants ==
  /\ MaxTime \in Nat /\ Never = MaxTime + 1
  /\ \A t \in Tasks : RunTime[t] \in 0..MaxTime /\ t \in Threads /\ t # Starter /\ t # Service
  /\ Starter \in Threads /\ Service \in Threads /\ Starter # Service
  /\ IsFiniteSet(Tasks) /\ IsFiniteSet(Threads)
<1>1. IsFiniteSet(Tasks \cup {Starter, Service})
  <2>1. IsFiniteSet({Starter}) /\ IsFiniteSet({Service})
    BY FS_Singleton
  <2>2. IsFiniteSet(Tasks \cup {Starter}) /\ Tasks \cup {Starter, Service} = (Tasks \cup {Starter}) \cup {Service}
    BY <2>1, TasksAssumption, FS_Union
  <2> QED
    BY <2>1, <2>2, FS_Union
<1> QED
  BY <1>1, TasksAssumption DEF Threads, Never

\* GetTimeToScheduleProcessRipeTasksLockRequired() marks the ripest task unless it is marked.
LEMMA GetTimePoints ==
  ASSUME TypeOK, NEW a \in Threads, NEW S, S \subseteq Tasks, GetTimeToSchedule(a, S)
  PROVE  /\ time' \in [Threads -> 0..Never] /\ scheduled' \subseteq Tasks
         /\ \A b \in Threads : b # a => time'[b] = time[b]
         /\ S # {} => Ripest(S) \in S /\ Ripest(S) \in scheduled'
         /\ \/ time'[a] = Never /\ scheduled' = scheduled
            \/ /\ S # {} /\ time'[a] = RunTime[Ripest(S)] /\ time'[a] # Never
               /\ Ripest(S) \notin scheduled /\ scheduled' = scheduled \cup {Ripest(S)}
<1>1. MaxTime \in Nat /\ Never = MaxTime + 1 /\ \A t \in Tasks : RunTime[t] \in 0..MaxTime
  BY Constants
<1>2. S # {} => Ripest(S) \in S
  BY RipestIsMin
<1>3. CASE NeedsScheduling(S)
  BY <1>1, <1>2, <1>3 DEF GetTimeToSchedule, NeedsScheduling, TypeOK
<1>4. CASE ~NeedsScheduling(S)
  BY <1>1, <1>2, <1>4 DEF GetTimeToSchedule, NeedsScheduling, TypeOK
<1> QED
  BY <1>3, <1>4

\* Every step keeps the types.
LEMMA NextTypes == TypeOK /\ Next => TypeOK'
<1> SUFFICES ASSUME TypeOK, Next PROVE TypeOK'
  OBVIOUS
<1>1. CASE Start
  <2>1. time' \in [Threads -> 0..Never] /\ scheduled' \subseteq Tasks
    BY <1>1, GetTimePoints, Constants DEF Start, TypeOK
  <2> QED
    BY <1>1, <2>1, Constants DEF Start, TypeOK
<1>2. ASSUME NEW t \in Tasks, AddDelayedTask(t) PROVE TypeOK'
  <2>1. time' \in [Threads -> 0..Never] /\ scheduled' \subseteq Tasks
    <3>1. queue \cup {t} \subseteq Tasks /\ t \in Threads
      BY Constants DEF TypeOK
    <3> QED
      BY <1>2, <3>1, GetTimePoints DEF AddDelayedTask, TypeOK
  <2>2. pc' \in [Threads -> {"new", "schedule", "done", "serve", "run"}]
    BY <1>2 DEF AddDelayedTask, TypeOK
  <2> QED
    BY <1>2, <2>1, <2>2 DEF AddDelayedTask, TypeOK
<1>3. ASSUME NEW a \in Threads, Schedule(a) PROVE TypeOK'
  <2>1. wakeups' \in [0..MaxTime -> Nat] /\ posted' \in Nat
    <3>1. CASE time[a] = Never
      BY <1>3, <3>1 DEF Schedule, TypeOK
    <3>2. CASE time[a] # Never
      <4>1. time[a] \in 0..MaxTime /\ now \in 0..MaxTime /\ MaxTime \in Nat
        BY <3>2, Constants DEF TypeOK
      <4>2. Max({time[a], now}) \in 0..MaxTime
        BY <4>1, MaxOfTwo
      <4>3. /\ wakeups' = [wakeups EXCEPT ![Max({time[a], now})] = @ + 1] /\ posted' = posted + 1
        BY <1>3, <3>2 DEF Schedule
      <4> QED
        BY <4>2, <4>3 DEF TypeOK
    <3> QED
      BY <3>1, <3>2
  <2>2. pc' \in [Threads -> {"new", "schedule", "done", "serve", "run"}]
    BY <1>3 DEF Schedule, TypeOK
  <2> QED
    BY <1>3, <2>1, <2>2 DEF Schedule, TypeOK
<1>4. CASE ProcessRipeTasks
  <2>1. time' \in [Threads -> 0..Never] /\ scheduled' \subseteq Tasks
    <3>1. queue \ Ripe \subseteq Tasks /\ Service \in Threads
      BY Constants DEF TypeOK
    <3> QED
      BY <1>4, <3>1, GetTimePoints DEF ProcessRipeTasks
  <2>2. wakeups' \in [0..MaxTime -> Nat]
    <3>1. PICK d \in 0..MaxTime : wakeups[d] > 0 /\ wakeups' = [wakeups EXCEPT ![d] = @ - 1]
      BY <1>4 DEF ProcessRipeTasks, ClosureDue
    <3>2. wakeups[d] - 1 \in Nat
      BY <3>1 DEF TypeOK
    <3> QED
      BY <3>1, <3>2 DEF TypeOK
  <2> QED
    BY <1>4, <2>1, <2>2, Constants DEF ProcessRipeTasks, TypeOK, Ripe
<1>5. CASE RunCallback
  <2>1. ripe # {} => Ripest(ripe) \in ripe
    BY RipestIsMin DEF TypeOK
  <2> QED
    BY <1>5, <2>1, Constants DEF RunCallback, TypeOK
<1>6. CASE Tick
  BY <1>6, Constants DEF Tick, TypeOK
<1> QED
  BY <1>1, <1>2, <1>3, <1>4, <1>5, <1>6 DEF Next

\* Every step keeps the places of the threads in order.
LEMMA NextControl == TypeOK /\ Control /\ Next => Control'
<1> SUFFICES ASSUME TypeOK, Control, Next PROVE Control'
  OBVIOUS
<1>1. CASE Start
  BY <1>1, Constants DEF Start, TypeOK, Control
<1>2. ASSUME NEW t \in Tasks, AddDelayedTask(t) PROVE Control'
  <2>1. t \in Threads /\ t # Starter /\ t # Service /\ pc[t] = "new"
    BY <1>2, Constants DEF AddDelayedTask
  <2>2. /\ pc'[t] = IF started THEN "schedule" ELSE "done"
        /\ \A a \in Threads : a # t => pc'[a] = pc[a]
    BY <1>2, <2>1 DEF AddDelayedTask, TypeOK
  <2> QED
    BY <1>2, <2>1, <2>2, Constants DEF AddDelayedTask, Control
<1>3. ASSUME NEW a \in Threads, Schedule(a) PROVE Control'
  <2>1. started /\ pc[a] = "schedule"
    BY <1>3 DEF Schedule, Control
  <2>2. /\ pc'[a] = IF a = Service THEN "run" ELSE "done"
        /\ \A b \in Threads : b # a => pc'[b] = pc[b]
    BY <1>3 DEF Schedule, TypeOK
  <2> QED
    BY <1>3, <2>1, <2>2, Constants DEF Schedule, Control
<1>4. CASE ProcessRipeTasks
  <2>1. started
    BY <1>4 DEF ProcessRipeTasks, ClosureDue, Control
  <2>2. pc'[Service] = "schedule" /\ \A b \in Threads : b # Service => pc'[b] = pc[b]
    BY <1>4, Constants DEF ProcessRipeTasks, TypeOK
  <2> QED
    BY <1>4, <2>1, <2>2, Constants DEF ProcessRipeTasks, Control
<1>5. CASE RunCallback
  <2>1. started /\ pc[Service] = "run"
    BY <1>5 DEF RunCallback, Control
  <2>2. /\ \A b \in Threads : b # Service => pc'[b] = pc[b]
        /\ (ripe = {} /\ pc'[Service] = "serve" /\ ripe' = ripe) \/ pc' = pc
    BY <1>5, Constants DEF RunCallback, TypeOK
  <2> QED
    BY <1>5, <2>1, <2>2, Constants DEF RunCallback, Control
<1>6. CASE Tick
  BY <1>6 DEF Tick, Control
<1> QED
  BY <1>1, <1>2, <1>3, <1>4, <1>5, <1>6 DEF Next

\* Every step moves tasks forward only.
LEMMA NextPlaces == TypeOK /\ Control /\ Places /\ Next => Places'
<1> SUFFICES ASSUME TypeOK, Control, Places, Next PROVE Places'
  OBVIOUS
<1>1. CASE Start
  <2>1. \A t \in Tasks : pc'[t] = pc[t]
    BY <1>1, Constants DEF Start, TypeOK
  <2>2. scheduled' \subseteq scheduled \cup queue
    BY <1>1, GetTimePoints, Constants DEF Start, TypeOK
  <2> QED
    BY <1>1, <2>1, <2>2 DEF Start, Places
<1>2. ASSUME NEW t \in Tasks, AddDelayedTask(t) PROVE Places'
  <2>1. t \notin queue \cup ripe \cup forwarded
    BY <1>2 DEF AddDelayedTask, Places
  <2>2. pc'[t] # "new" /\ \A u \in Tasks : u # t => pc'[u] = pc[u]
    BY <1>2, Constants DEF AddDelayedTask, TypeOK
  <2>3. scheduled' \subseteq scheduled \cup (queue \cup {t})
    <3>1. t \in Threads /\ queue \cup {t} \subseteq Tasks
      BY Constants DEF TypeOK
    <3> QED
      BY <1>2, <3>1, GetTimePoints DEF AddDelayedTask
  <2> QED
    BY <1>2, <2>1, <2>2, <2>3 DEF AddDelayedTask, Places
<1>3. ASSUME NEW a \in Threads, Schedule(a) PROVE Places'
  <2>1. \A t \in Tasks : pc'[t] = "new" => pc[t] = "new"
    BY <1>3 DEF Schedule, TypeOK
  <2> QED
    BY <1>3, <2>1 DEF Schedule, Places
<1>4. CASE ProcessRipeTasks
  <2>1. \A t \in Tasks : pc'[t] = pc[t]
    BY <1>4, Constants DEF ProcessRipeTasks, TypeOK
  <2>2. ripe = {}
    BY <1>4 DEF ProcessRipeTasks, Control
  <2>3. scheduled' \subseteq scheduled \cup queue
    <3>1. queue \ Ripe \subseteq Tasks
      BY DEF TypeOK
    <3> QED
      BY <1>4, <3>1, GetTimePoints, Constants DEF ProcessRipeTasks
  <2> QED
    BY <1>4, <2>1, <2>2, <2>3 DEF ProcessRipeTasks, Places, Ripe
<1>5. CASE RunCallback
  <2>1. \A t \in Tasks : pc'[t] = pc[t]
    BY <1>5, Constants DEF RunCallback, TypeOK
  <2>2. ripe # {} => Ripest(ripe) \in ripe
    BY RipestIsMin DEF TypeOK
  <2> QED
    BY <1>5, <2>1, <2>2 DEF RunCallback, Places
<1>6. CASE Tick
  <2>1. now \in Int /\ \A t \in ripe : RunTime[t] \in Int
    BY Constants DEF TypeOK
  <2> QED
    BY <1>6, <2>1 DEF Tick, Places
<1> QED
  BY <1>1, <1>2, <1>3, <1>4, <1>5, <1>6 DEF Next

\* A thread other than those that post sets out to post, or does not: in the first case a task
\* was marked.
LEMMA MarksStep ==
  ASSUME TypeOK, Marks, NEW a \in Threads, NEW S, S \subseteq Tasks, GetTimeToSchedule(a, S),
         pc[a] # "schedule", pc'[a] = "schedule", \A b \in Threads : b # a => pc'[b] = pc[b],
         UNCHANGED posted
  PROVE  Marks'
<1>1. IsFiniteSet(Posting) /\ IsFiniteSet(scheduled)
  BY Constants, FS_Subset DEF Posting, TypeOK
<1>2. /\ \A b \in Threads : b # a => time'[b] = time[b]
      /\ \/ time'[a] = Never /\ scheduled' = scheduled
         \/ /\ S # {} /\ time'[a] # Never
            /\ Ripest(S) \notin scheduled /\ scheduled' = scheduled \cup {Ripest(S)}
  BY GetTimePoints, Zenon
<1>3. Cardinality(Posting) \in Nat /\ Cardinality(scheduled) \in Nat /\ posted \in Nat
  BY <1>1, FS_CardinalityType DEF TypeOK
<1>4. CASE time'[a] = Never /\ scheduled' = scheduled
  <2>1. Posting' = Posting
    BY <1>2, <1>4 DEF Posting
  <2> QED
    BY <1>4, <2>1 DEF Marks
<1>5. CASE /\ S # {} /\ time'[a] # Never
           /\ Ripest(S) \notin scheduled /\ scheduled' = scheduled \cup {Ripest(S)}
  <2>1. Posting' = Posting \cup {a} /\ a \notin Posting
    BY <1>2, <1>5 DEF Posting
  <2>2. Cardinality(Posting') = Cardinality(Posting) + 1
    BY <1>1, <2>1, FS_AddElement
  <2>3. Cardinality(scheduled') = Cardinality(scheduled) + 1
    BY <1>1, <1>5, FS_AddElement
  <2> QED
    BY <1>3, <2>2, <2>3 DEF Marks
<1> QED
  BY <1>2, <1>4, <1>5

\* A thread marks the ripest task of the heap and sets out to post its closure; the tasks that
\* stay in the heap keep the closures they had.
LEMMA CoverageStep ==
  ASSUME TypeOK, Coverage, NEW a \in Threads, queue' \subseteq Tasks,
         GetTimeToSchedule(a, queue'), pc[a] # "schedule", pc'[a] = "schedule",
         \A b \in Threads : b # a => pc'[b] = pc[b],
         \A t \in queue' \cap scheduled : t \in queue /\ (WakeUpFor(t) => WakeUpFor(t)')
  PROVE  Coverage'
<1>1. /\ \A b \in Threads : b # a => time'[b] = time[b]
      /\ queue' # {} => Ripest(queue') \in scheduled'
      /\ scheduled' = scheduled
           \/ (time'[a] = RunTime[Ripest(queue')] /\ scheduled' = scheduled \cup {Ripest(queue')})
  BY GetTimePoints, Zenon
<1>2. (started /\ queue # {} => Ripest(queue) \in scheduled)'
  BY <1>1
<1>3. ASSUME NEW t \in queue' \cap scheduled' PROVE Covered(t)'
  <2>1. CASE t \in scheduled
    <3>1. Covered(t) /\ (WakeUpFor(t) => WakeUpFor(t)')
      BY <2>1 DEF Coverage
    <3>2. CASE \E b \in Threads : pc[b] = "schedule" /\ time[b] = RunTime[t]
      BY <1>1, <3>2 DEF Covered
    <3> QED
      BY <3>1, <3>2 DEF Covered
  <2>2. CASE t \notin scheduled
    <3>1. time'[a] = RunTime[t]
      BY <1>1, <2>2
    <3> QED
      BY <3>1 DEF Covered
  <2> QED
    BY <2>1, <2>2
<1> QED
  BY <1>2, <1>3 DEF Coverage

\* Every step posts what was marked.
LEMMA NextMarks == TypeOK /\ Marks /\ Next => Marks'
<1> SUFFICES ASSUME TypeOK, Marks, Next PROVE Marks'
  OBVIOUS
<1>1. CASE Start
  BY <1>1, MarksStep, Constants DEF Start, TypeOK
<1>2. ASSUME NEW t \in Tasks, AddDelayedTask(t) PROVE Marks'
  <2>1. CASE started
    <3>1. t \in Threads /\ queue \cup {t} \subseteq Tasks
      BY Constants DEF TypeOK
    <3> QED
      BY <1>2, <2>1, <3>1, MarksStep DEF AddDelayedTask, TypeOK
  <2>2. CASE ~started
    <3>1. Posting' = Posting
      BY <1>2, <2>2 DEF AddDelayedTask, Posting, TypeOK
    <3> QED
      BY <1>2, <2>2, <3>1 DEF AddDelayedTask, Marks
  <2> QED
    BY <2>1, <2>2
<1>3. ASSUME NEW a \in Threads, Schedule(a) PROVE Marks'
  <2>1. /\ \A b \in Threads : b # a => pc'[b] = pc[b]
        /\ pc[a] = "schedule" /\ pc'[a] # "schedule" /\ UNCHANGED <<time, scheduled>>
    BY <1>3 DEF Schedule, TypeOK
  <2>2. IsFiniteSet(Posting) /\ posted \in Nat
    BY Constants, FS_Subset DEF Posting, TypeOK
  <2>3. CASE time[a] = Never
    <3>1. Posting' = Posting /\ posted' = posted
      BY <1>3, <2>1, <2>3 DEF Schedule, Posting
    <3> QED
      BY <2>1, <3>1 DEF Marks
  <2>4. CASE time[a] # Never
    <3>1. Posting' = Posting \ {a} /\ a \in Posting /\ posted' = posted + 1
      BY <1>3, <2>1, <2>4 DEF Schedule, Posting
    <3>2. /\ Cardinality(Posting') = Cardinality(Posting) - 1 /\ Cardinality(Posting) \in Nat
      BY <2>2, <3>1, FS_RemoveElement, FS_CardinalityType
    <3> QED
      BY <2>1, <2>2, <3>1, <3>2 DEF Marks
  <2> QED
    BY <2>3, <2>4
<1>4. CASE ProcessRipeTasks
  <2>1. queue \ Ripe \subseteq Tasks
    BY DEF TypeOK
  <2> QED
    BY <1>4, <2>1, MarksStep, Constants DEF ProcessRipeTasks, TypeOK
<1>5. CASE RunCallback
  <2>1. Posting' = Posting
    BY <1>5 DEF RunCallback, Posting, TypeOK
  <2> QED
    BY <1>5, <2>1 DEF RunCallback, Marks
<1>6. CASE Tick
  BY <1>6 DEF Tick, Marks, Posting
<1> QED
  BY <1>1, <1>2, <1>3, <1>4, <1>5, <1>6 DEF Next

\* Every step leaves marked tasks with a closure of their own.
LEMMA NextCoverage == TypeOK /\ Control /\ Places /\ Coverage /\ Next => Coverage'
<1> SUFFICES ASSUME TypeOK, Control, Places, Coverage, Next PROVE Coverage'
  OBVIOUS
<1>1. CASE Start
  <2>1. \A t \in queue' \cap scheduled : t \in queue /\ (WakeUpFor(t) => WakeUpFor(t)')
    BY <1>1 DEF Start, WakeUpFor
  <2>2. queue' = queue /\ queue \subseteq Tasks
    BY <1>1 DEF Start, TypeOK
  <2> QED
    BY <1>1, <2>1, <2>2, CoverageStep, Constants DEF Start, TypeOK
<1>2. ASSUME NEW t \in Tasks, AddDelayedTask(t) PROVE Coverage'
  <2>1. \A u \in Tasks : WakeUpFor(u) => WakeUpFor(u)'
    BY <1>2 DEF AddDelayedTask, WakeUpFor
  <2>2. CASE started
    <3>1. t \in Threads /\ queue' \subseteq Tasks /\ queue' = queue \cup {t}
      BY <1>2, Constants DEF AddDelayedTask, TypeOK
    <3>2. CASE t \notin scheduled
      BY <1>2, <2>1, <2>2, <3>1, <3>2, CoverageStep DEF AddDelayedTask, TypeOK
    <3> QED
      BY <1>2, <3>2 DEF AddDelayedTask, Places
  <2>3. CASE ~started
    <3>1. scheduled' = scheduled /\ started' = started /\ scheduled = {}
      BY <1>2, <2>3 DEF AddDelayedTask, Control
    <3> QED
      BY <2>3, <3>1 DEF Coverage
  <2> QED
    BY <2>2, <2>3
<1>3. ASSUME NEW a \in Threads, Schedule(a) PROVE Coverage'
  <2>1. /\ \A b \in Threads : b # a => pc'[b] = pc[b]
        /\ pc[a] = "schedule" /\ UNCHANGED <<started, queue, scheduled, time, now>>
    BY <1>3 DEF Schedule, TypeOK
  <2>2. now \in 0..MaxTime /\ MaxTime \in Nat /\ \A d \in 0..MaxTime : wakeups[d] \in Nat
    BY Constants DEF TypeOK
  <2>3. \A d \in 0..MaxTime : wakeups'[d] \in Nat /\ wakeups'[d] >= wakeups[d]
    <3>1. wakeups' = wakeups \/ \E d \in 0..MaxTime : wakeups' = [wakeups EXCEPT ![d] = @ + 1]
      <4>1. time[a] # Never => Max({time[a], now}) \in 0..MaxTime
        BY <2>2, MaxOfTwo, Constants DEF TypeOK
      <4> QED
        BY <1>3, <4>1 DEF Schedule
    <3> QED
      BY <2>2, <3>1 DEF TypeOK
  <2>4. ASSUME NEW t \in queue \cap scheduled PROVE Covered(t)'
    <3>1. t \in Tasks /\ RunTime[t] \in 0..MaxTime /\ Covered(t)
      BY Constants DEF TypeOK, Coverage
    <3>2. WakeUpFor(t) => WakeUpFor(t)'
      BY <2>1, <2>2, <2>3, <3>1 DEF WakeUpFor
    <3>3. ASSUME time[a] = RunTime[t] PROVE WakeUpFor(t)'
      <4>1. time[a] # Never /\ time[a] \in 0..MaxTime
        BY <2>2, <3>1, <3>3, Constants
      <4> DEFINE d == Max({time[a], now})
      <4>2. d = IF time[a] >= now THEN time[a] ELSE now
        BY <2>2, <4>1, MaxOfTwo
      <4>3. d \in 0..MaxTime
        BY <2>2, <4>1, <4>2
      <4>4. wakeups'[d] = wakeups[d] + 1
        BY <1>3, <4>1, <4>3 DEF Schedule, TypeOK
      <4> HIDE DEF d
      <4>5. wakeups'[d] > 0
        BY <2>2, <4>3, <4>4
      <4> QED
        BY <2>1, <2>2, <3>1, <3>3, <4>2, <4>3, <4>5 DEF WakeUpFor
    <3>4. CASE \E b \in Threads : b # a /\ pc[b] = "schedule" /\ time[b] = RunTime[t]
      BY <2>1, <3>4 DEF Covered
    <3> QED
      BY <3>1, <3>2, <3>3, <3>4 DEF Covered
  <2> QED
    BY <2>1, <2>4 DEF Coverage
<1>4. CASE ProcessRipeTasks
  <2>1. PICK d \in 0..MaxTime : d <= now /\ wakeups' = [wakeups EXCEPT ![d] = @ - 1]
    BY <1>4 DEF ProcessRipeTasks, ClosureDue
  <2>2. queue' = queue \ Ripe /\ queue' \subseteq Tasks /\ now' = now
    BY <1>4 DEF ProcessRipeTasks, TypeOK
  <2>3. ASSUME NEW t \in queue' \cap scheduled, WakeUpFor(t) PROVE WakeUpFor(t)'
    <3>1. t \in queue /\ RunTime[t] \in 0..MaxTime /\ now \in 0..MaxTime /\ MaxTime \in Nat
      BY <2>2, Constants DEF TypeOK
    <3>2. RunTime[t] > now
      BY <2>2, <3>1 DEF Ripe
    <3>3. wakeups'[RunTime[t]] = wakeups[RunTime[t]]
      BY <2>1, <3>1, <3>2 DEF TypeOK
    <3> QED
      BY <2>2, <2>3, <3>2, <3>3 DEF WakeUpFor
  <2>4. \A t \in queue' \cap scheduled : t \in queue /\ (WakeUpFor(t) => WakeUpFor(t)')
    BY <2>2, <2>3
  <2>5. GetTimeToSchedule(Service, queue') /\ pc[Service] # "schedule"
    BY <1>4, <2>2 DEF ProcessRipeTasks
  <2>6. pc'[Service] = "schedule" /\ \A b \in Threads : b # Service => pc'[b] = pc[b]
    BY <1>4, Constants DEF ProcessRipeTasks, TypeOK
  <2> QED
    BY <2>2, <2>4, <2>5, <2>6, CoverageStep, Constants
<1>5. CASE RunCallback
  <2>1. \A a \in Threads : pc[a] = "schedule" => pc'[a] = "schedule"
    BY <1>5, Constants DEF RunCallback, TypeOK
  <2> QED
    BY <1>5, <2>1 DEF RunCallback, Coverage, Covered, WakeUpFor
<1>6. CASE Tick
  <2>1. now \in 0..MaxTime /\ MaxTime \in Nat /\ now' = now + 1
    BY <1>6, Constants DEF Tick, TypeOK
  <2>2. ASSUME NEW t \in queue \cap scheduled PROVE Covered(t)'
    <3>1. RunTime[t] \in 0..MaxTime /\ Covered(t)
      BY Constants DEF TypeOK, Coverage
    <3>2. ASSUME WakeUpFor(t) PROVE WakeUpFor(t)'
      <4>1. CASE RunTime[t] > now + 1
        BY <1>6, <2>1, <3>1, <3>2, <4>1 DEF Tick, WakeUpFor
      <4>2. CASE ~(RunTime[t] > now + 1)
        <5>1. \E d \in 0..MaxTime : d <= now + 1 /\ wakeups[d] > 0
          BY <2>1, <3>1, <3>2, <4>2 DEF WakeUpFor
        <5> QED
          BY <1>6, <2>1, <4>2, <5>1 DEF Tick, WakeUpFor
      <4> QED
        BY <4>1, <4>2
    <3> QED
      BY <1>6, <3>1, <3>2 DEF Tick, Covered
  <2> QED
    BY <1>6, <2>2 DEF Tick, Coverage
<1> QED
  BY <1>1, <1>2, <1>3, <1>4, <1>5, <1>6 DEF Next

-----------------------------------------------------------------------------
(***************************************************************************)
(* The theorems.                                                           *)
(***************************************************************************)

\* Nothing is added, marked or posted at first.
LEMMA InitInd == Init => IndInv
<1> SUFFICES ASSUME Init PROVE IndInv
  OBVIOUS
<1>1. TypeOK /\ Control /\ Places /\ Coverage
  <2>1. TypeOK
    <3>1. Never \in 0..Never /\ 0 \in 0..MaxTime
      BY Constants
    <3>2. time \in [Threads -> 0..Never] /\ wakeups \in [0..MaxTime -> Nat]
      BY <3>1 DEF Init
    <3>3. pc \in [Threads -> {"new", "schedule", "done", "serve", "run"}]
      BY DEF Init
    <3> QED
      BY <3>1, <3>2, <3>3 DEF Init, TypeOK
  <2>2. Control
    BY Constants DEF Init, Control
  <2> QED
    BY <2>1, <2>2 DEF Init, Places, Coverage
<1>2. Posting = {} /\ scheduled = {} /\ posted = 0
  BY DEF Init, Posting
<1>3. Marks
  BY <1>2, FS_EmptySet DEF Marks
<1> QED
  BY <1>1, <1>3 DEF IndInv

\* IndInv is inductive.
LEMMA NextInd == IndInv /\ [Next]_vars => IndInv'
<1>1. ASSUME IndInv, Next PROVE IndInv'
  BY <1>1, NextTypes, NextControl, NextPlaces, NextMarks, NextCoverage DEF IndInv
<1>2. ASSUME IndInv, UNCHANGED vars PROVE IndInv'
  BY <1>2 DEF vars, IndInv, TypeOK, Control, Places, Marks, Posting, Coverage, Covered, WakeUpFor
<1> QED
  BY <1>1, <1>2

\* In every behaviour, marks, closures and the places of tasks and threads agree.
THEOREM Invariance == Spec => []IndInv
<1>1. Init => IndInv
  BY InitInd
<1>2. IndInv /\ [Next]_vars => IndInv'
  BY NextInd
<1> QED
  BY <1>1, <1>2, PTL DEF Spec

\* Exactly one ProcessRipeTasks() closure is posted for each task that
\* GetTimeToScheduleProcessRipeTasksLockRequired() marks, whatever happens between the mark and
\* the post.
THEOREM OneWakeUpHolds == Spec => []OneWakeUpPerTask
<1>1. IndInv => OneWakeUpPerTask
  BY DEF IndInv, Marks, Posting, OneWakeUpPerTask
<1> QED
  BY <1>1, Invariance, PTL

\* Once the manager is started, a closure that is due when the ripest task is, or before, is
\* pending or about to be posted, although only the ripest task is ever scheduled.
THEOREM RipestCovered == Spec => []RipestIsCovered
<1>1. IndInv => RipestIsCovered
  <2> SUFFICES ASSUME IndInv, started, queue # {}
               PROVE  LET due == RunTime[Ripest(queue)]
                      IN  \/ \E d \in 0..MaxTime : wakeups[d] > 0 /\ (d <= due \/ d <= now)
                          \/ \E a \in Threads : pc[a] = "schedule" /\ time[a] <= due
    BY DEF RipestIsCovered
  <2>1. PICK r \in queue \cap scheduled : r = Ripest(queue) /\ Covered(r)
    <3>1. Ripest(queue) \in queue
      BY RipestIsMin DEF IndInv, TypeOK
    <3> QED
      BY <3>1 DEF IndInv, Coverage
  <2>2. RunTime[r] \in 0..MaxTime /\ MaxTime \in Nat
    BY <2>1, Constants DEF IndInv, TypeOK
  <2> QED
    BY <2>1, <2>2 DEF Covered, WakeUpFor
<1> QED
  BY <1>1, Invariance, PTL

\* The safety half of the promise of delayed_task_manager.h: every step of the manager is one
\* of DelayedForwarding or changes nothing there, so a task is forwarded once, after Start() and
\* not before it is ripe.
THEOREM Refinement == Spec => Promise!SafeSpec
<1>1. Init => Promise!Init
  BY DEF Init, Promise!Init
<1>2. IndInv /\ [Next]_vars => [Promise!Next]_(Promise!vars)
  <2> SUFFICES ASSUME IndInv, [Next]_vars PROVE [Promise!Next]_(Promise!vars)
    OBVIOUS
  <2> USE DEF IndInv
  <2>1. CASE Start
    <3>1. ~started
      BY <2>1 DEF Start, Control
    <3>2. Promise!Start
      BY <2>1, <3>1 DEF Start, Promise!Start
    <3> QED
      BY <3>2 DEF Promise!Next
  <2>2. ASSUME NEW t \in Tasks, AddDelayedTask(t) PROVE [Promise!Next]_(Promise!vars)
    <3>1. t \notin (queue \cup ripe) \cup forwarded
      BY <2>2 DEF AddDelayedTask, Places
    <3>2. queue' \cup ripe' = (queue \cup ripe) \cup {t}
      BY <2>2 DEF AddDelayedTask
    <3>3. Promise!Add(t)
      BY <2>2, <3>1, <3>2 DEF AddDelayedTask, Promise!Add
    <3> QED
      BY <3>3 DEF Promise!Next
  <2>3. ASSUME NEW a \in Threads, Schedule(a) PROVE [Promise!Next]_(Promise!vars)
    BY <2>3 DEF Schedule, Promise!vars
  <2>4. CASE ProcessRipeTasks
    <3>1. ripe = {}
      BY <2>4 DEF ProcessRipeTasks, Control
    <3>2. queue' \cup ripe' = queue \cup ripe
      BY <2>4, <3>1 DEF ProcessRipeTasks, Ripe
    <3> QED
      BY <2>4, <3>2 DEF ProcessRipeTasks, Promise!vars
  <2>5. CASE RunCallback
    <3>1. CASE ripe = {}
      BY <2>5, <3>1 DEF RunCallback, Promise!vars
    <3>2. CASE ripe # {}
      <4>1. PICK t \in ripe : t = Ripest(ripe)
        BY <3>2, RipestIsMin DEF TypeOK
      <4>2. t \in Tasks /\ RunTime[t] <= now /\ t \notin queue
        BY DEF TypeOK, Places
      <4>3. started
        BY <2>5 DEF RunCallback, Control
      <4>4. queue' \cup ripe' = (queue \cup ripe) \ {t} /\ forwarded' = forwarded \cup {t}
        BY <2>5, <3>2, <4>1, <4>2 DEF RunCallback
      <4>5. Promise!Forward(t)
        BY <2>5, <4>2, <4>3, <4>4 DEF RunCallback, Promise!Forward
      <4> QED
        BY <4>2, <4>5 DEF Promise!Next
    <3> QED
      BY <3>1, <3>2
  <2>6. CASE Tick
    <3>1. Promise!Tick
      BY <2>6 DEF Tick, Promise!Tick
    <3> QED
      BY <3>1 DEF Promise!Next
  <2>7. CASE UNCHANGED vars
    BY <2>7 DEF vars, Promise!vars
  <2> QED
    BY <2>1, <2>2, <2>3, <2>4, <2>5, <2>6, <2>7 DEF Next
<1> QED
  BY <1>1, <1>2, Invariance, PTL DEF Spec, Promise!SafeSpec

=============================================================================
