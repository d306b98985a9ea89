----------------------- MODULE ThreadGroupImplProofs -----------------------
(***************************************************************************)
(* Machine-checked proofs about ThreadGroupImpl: the counters of the group *)
(* agree with what its workers do, the idle stack with who sleeps, one     *)
(* AdjustMaxTasks() is under way when one is said to be, jobs are told to  *)
(* yield to waiting foreground sources, tasks start within the limits and  *)
(* the workers are not all asleep while there is work for them. For any    *)
(* number of workers, tasks, blocking calls and policies.                  *)
(*                                                                         *)
(* A critical section may call several operations on the members h of the  *)
(* group and the caller's executor before it ends, so the parts of the     *)
(* invariant are stated of any members h, executors X, places P and        *)
(* signaled events E, and not of the variables only.                       *)
(***************************************************************************)
EXTENDS ThreadGroupImpl, FiniteSetTheorems, SequenceTheorems, TLAPS

WorkerPcs == {"none", "sleep", "get", "get2", "running", "upgrade", "reset", "exited"}
Pcs == WorkerPcs \cup {"post", "serve", "start", "up", "updating"}
Scopes == {"none", "MAY_BLOCK", "WILL_BLOCK"}

\* Group without the sign of what is counted.
Members ==
  [workers : SUBSET Pool, created : SUBSET Pool, idle : Seq(Pool), unused : SUBSET Pool,
   queue : [Priorities -> Nat], max : Int, max_be : Int, running : Int, running_be : Int,
   unresolved : Int, unresolved_be : Int, adjust_posted : BOOLEAN, min_allowed : Priorities]

Executors == [wake : Seq(Pool), start : Seq(Pool), adjust : BOOLEAN]

Elems(s) == {s[i] : i \in 1..Len(s)}
Distinct(s) == \A i, j \in 1..Len(s) : s[i] = s[j] => i = j

\* What a worker's place, its task and its ScopedBlockingCall say of each other.
TaskOf(w) ==
  /\ task[w] # None <=> pc[w] \in {"running", "upgrade"}
  /\ scope[w] # "none" => pc[w] \in {"running", "upgrade"}
  /\ scope[w] = "none" => w \notin may_block \cup incremented
  /\ scope[w] = "MAY_BLOCK" /\ pc[w] = "running" => w \in may_block
  /\ scope[w] = "WILL_BLOCK" => w \in incremented /\ pc[w] = "running"
  /\ pc[w] = "upgrade" => /\ scope[w] = "MAY_BLOCK" /\ w \notin may_block \cup incremented
                          /\ Flushed(w)

Tasks == \A w \in Pool : TaskOf(w)

\* The group before and after Start(), and executors that must be empty.
Control ==
  /\ pc[Main] = "start" <=> g.max = 0
  /\ g.max = 0 => g.created = {} /\ g.max_be = 0
  /\ pc[Main] \in {"start", "updating"} => Flushed(Main)

\* The other variables have their types.
Places(P) ==
  /\ P \in [Actors -> Pcs] /\ \A w \in Pool : P[w] \in WorkerPcs
  /\ P[Poster] = "post" /\ P[Service] = "serve" /\ P[Main] \in {"start", "up", "updating"}

Typed ==
  /\ policy \in 1..Len(Policies) /\ Places(pc)
  /\ task \in [Pool -> Priorities \cup {None}] /\ scope \in [Pool -> Scopes]
  /\ may_block \in SUBSET Pool /\ aged \in SUBSET may_block
  /\ incremented \in SUBSET Pool /\ event \in SUBSET Pool /\ adjust_tasks \in Nat
  /\ posts \in [Priorities -> Nat] /\ blockings \in 0..MaxBlocking

\* The counters of members h, with T the tasks of the workers, M those with a
\* may_block_start_time and I those that have incremented the limits.
BestEffort(T, S) == {w \in S : T[w] = "BE"}
Busy(T) == {w \in Pool : T[w] # None}

Counters(h, T, M, I) ==
  /\ h.running = Cardinality(Busy(T)) /\ h.running_be = Cardinality(BestEffort(T, Busy(T)))
  /\ h.max # 0 => /\ h.max = InitialMax + Cardinality(I)
                  /\ h.max_be = InitialMaxBE + Cardinality(BestEffort(T, I))
  /\ h.unresolved = Cardinality(M \ I) /\ h.unresolved_be = Cardinality(BestEffort(T, M \ I))

\* The idle stack: who is on it, and who is unused.
StackOK(h) ==
  /\ Distinct(h.idle) /\ Elems(h.idle) \subseteq h.workers
  /\ h.workers \subseteq h.created /\ h.unused \subseteq h.created
  /\ \A w \in h.workers : w \in h.unused <=> w \in Elems(h.idle) /\ w # Top(h.idle)
  /\ Cardinality(h.workers) <= KMaxNumberOfWorkers
  /\ Cardinality(h.created \ h.workers) <= MaxCleanups

\* The life of a worker. One that waits is on the stack or somebody wakes it up.
Waking(w, X) == \E a \in Actors : w \in Elems(X[a].wake)

LifeOf(w, h, X, P, E) ==
  /\ w \notin h.created => P[w] = "none"
  /\ w \in h.workers <=> w \in h.created /\ P[w] # "exited"
  /\ w \in h.workers /\ P[w] \in {"none", "sleep"} =>
       w \in Elems(h.idle) \/ w \in E \/ Waking(w, X)
  /\ w \in Elems(h.idle) => P[w] \in {"none", "sleep", "get", "get2"}

Life(h, X, P, E) == \A w \in Pool : LifeOf(w, h, X, P, E)

\* A worker is started once, by the actor that created it.
StartOf(w, a, h, X, P) ==
  /\ P[w] = "none" /\ w \in h.created
  /\ \A b \in Actors : w \in Elems(X[b].start) => b = a

Starts(h, X, P) ==
  \A a \in Actors :
    /\ Distinct(X[a].start)
    /\ \A w \in Elems(X[a].start) : StartOf(w, a, h, X, P)

\* One AdjustMaxTasks() is under way iff adjust_max_tasks_posted_; n are queued.
Adjusting(X) == {a \in Actors : X[a].adjust}
Adjusts(h, X, n) ==
  n + Cardinality(Adjusting(X)) = IF h.adjust_posted THEN 1 ELSE 0

\* The value UpdateMinAllowedPriorityLockRequired() computes: the one stored is not lower.
MinOf(h) == IF QueueEmpty(h) \/ h.running < h.max THEN "BE" ELSE TopPriority(h)
Threshold(h) == h.max # 0 /\ MinOf(h) = "FG" => h.min_allowed = "FG"

Shape(h, X, P, E, n) ==
  /\ h \in Members /\ X \in [Actors -> Executors]
  /\ StackOK(h) /\ Life(h, X, P, E) /\ Starts(h, X, P) /\ Adjusts(h, X, n) /\ Threshold(h)

IndInv ==
  /\ Typed /\ Control /\ Tasks /\ Counters(g, task, may_block, incremented)
  /\ Shape(g, exec, pc, event, adjust_tasks)

-----------------------------------------------------------------------------
(***************************************************************************)
(* The members of the group, and what each operation does to them.         *)
(***************************************************************************)
SameLimits(h, k) == k.max = h.max /\ k.max_be = h.max_be
SameRunning(h, k) == k.running = h.running /\ k.running_be = h.running_be
SameUnresolved(h, k) == k.unresolved = h.unresolved /\ k.unresolved_be = h.unresolved_be
SameCounters(h, k) ==
  k.queue = h.queue /\ SameLimits(h, k) /\ SameRunning(h, k) /\ SameUnresolved(h, k)
SameStack(h, k) ==
  k.workers = h.workers /\ k.created = h.created /\ k.idle = h.idle /\ k.unused = h.unused
SameFlags(h, k) == k.adjust_posted = h.adjust_posted /\ k.min_allowed = h.min_allowed

\* The top of a stack is one of its workers.
LEMMA TopType ==
  ASSUME NEW s \in Seq(Pool), s # <<>>
  PROVE  Top(s) \in Pool /\ Len(s) \in Nat \ {0} /\ Len(s) \in 1..Len(s)
BY DEF Top

\* Assignments to members, two by two.
WithRunning(h, a, b) == [h EXCEPT !.running = a, !.running_be = b]
WithLimits(h, a, b) == [h EXCEPT !.max = a, !.max_be = b]
WithUnresolved(h, a, b) == [h EXCEPT !.unresolved = a, !.unresolved_be = b]
WithIdle(h, s, u) == [h EXCEPT !.idle = s, !.unused = u]

\* They change these members and no other.
LEMMA SetRunning ==
  ASSUME NEW h \in Members, NEW a \in Int, NEW b \in Int, NEW k,
         k = WithRunning(h, a, b)
  PROVE  /\ k \in Members /\ k.running = a /\ k.running_be = b /\ k.queue = h.queue
         /\ SameLimits(h, k) /\ SameUnresolved(h, k) /\ SameStack(h, k) /\ SameFlags(h, k)
BY DEF WithRunning, Members, SameLimits, SameUnresolved, SameStack, SameFlags

\* The limits change and nothing else.
LEMMA SetLimits ==
  ASSUME NEW h \in Members, NEW a \in Int, NEW b \in Int, NEW k,
         k = WithLimits(h, a, b)
  PROVE  /\ k \in Members /\ k.max = a /\ k.max_be = b /\ k.queue = h.queue
         /\ SameRunning(h, k) /\ SameUnresolved(h, k) /\ SameStack(h, k) /\ SameFlags(h, k)
BY DEF WithLimits, Members, SameRunning, SameUnresolved, SameStack, SameFlags

\* The unresolved MAY_BLOCKs change and nothing else.
LEMMA SetUnresolved ==
  ASSUME NEW h \in Members, NEW a \in Int, NEW b \in Int, NEW k,
         k = WithUnresolved(h, a, b)
  PROVE  /\ k \in Members /\ k.unresolved = a /\ k.unresolved_be = b /\ k.queue = h.queue
         /\ SameLimits(h, k) /\ SameRunning(h, k) /\ SameStack(h, k) /\ SameFlags(h, k)
BY DEF WithUnresolved, Members, SameLimits, SameRunning, SameStack, SameFlags

\* The idle stack and the unused workers change and nothing else.
LEMMA SetIdle ==
  ASSUME NEW h \in Members, NEW s \in Seq(Pool), NEW u \in SUBSET Pool, NEW k,
         k = WithIdle(h, s, u)
  PROVE  /\ k \in Members /\ k.idle = s /\ k.unused = u
         /\ k.workers = h.workers /\ k.created = h.created
         /\ SameCounters(h, k) /\ SameFlags(h, k)
BY DEF WithIdle, Members, SameCounters, SameLimits, SameRunning, SameUnresolved, SameFlags

\* adjust_max_tasks_posted_ changes and nothing else.
LEMMA SetFlags ==
  ASSUME NEW h \in Members, NEW a \in BOOLEAN, NEW k,
         k = [h EXCEPT !.adjust_posted = a]
  PROVE  /\ k \in Members /\ k.adjust_posted = a /\ k.min_allowed = h.min_allowed
         /\ SameCounters(h, k) /\ SameStack(h, k)
BY DEF Members, SameStack, SameCounters, SameLimits, SameRunning, SameUnresolved

\* Push().
LEMMA PushIdleFields ==
  ASSUME NEW h \in Members, NEW w \in Pool
  PROVE  /\ PushIdle(h, w) \in Members
         /\ PushIdle(h, w).idle = Append(h.idle, w)
         /\ PushIdle(h, w).unused = IF h.idle = <<>> THEN h.unused ELSE h.unused \cup {Top(h.idle)}
         /\ PushIdle(h, w).workers = h.workers /\ PushIdle(h, w).created = h.created
         /\ SameCounters(h, PushIdle(h, w)) /\ SameFlags(h, PushIdle(h, w))
<1>1. h.idle # <<>> => Top(h.idle) \in Pool
  BY TopType DEF Members
<1> DEFINE u == IF h.idle = <<>> THEN h.unused ELSE h.unused \cup {Top(h.idle)}
           s == Append(h.idle, w)
<1>4. u \in SUBSET Pool /\ s \in Seq(Pool)
  BY <1>1 DEF Members
<1>5. PushIdle(h, w) = WithIdle(h, s, u)
  BY DEF PushIdle, WithIdle
<1> HIDE DEF u, s
<1>6. PICK k : k = WithIdle(h, s, u)
  OBVIOUS
<1>7. /\ k \in Members /\ k.idle = s /\ k.unused = u
      /\ k.workers = h.workers /\ k.created = h.created
      /\ SameCounters(h, k) /\ SameFlags(h, k)
  BY <1>4, <1>6, SetIdle
<1> QED
  BY <1>5, <1>6, <1>7 DEF u, s

\* Pop().
LEMMA PopIdleFields ==
  ASSUME NEW h \in Members, h.idle # <<>>
  PROVE  LET rest == SubSeq(h.idle, 1, Len(h.idle) - 1) IN
         /\ rest \in Seq(Pool)
         /\ PopIdle(h) \in Members
         /\ PopIdle(h).idle = rest
         /\ PopIdle(h).unused = IF rest = <<>> THEN h.unused ELSE h.unused \ {Top(rest)}
         /\ PopIdle(h).workers = h.workers /\ PopIdle(h).created = h.created
         /\ SameCounters(h, PopIdle(h)) /\ SameFlags(h, PopIdle(h))
<1> DEFINE rest == SubSeq(h.idle, 1, Len(h.idle) - 1)
<1>1. rest \in Seq(Pool)
  <2>1. h.idle \in Seq(Pool)
    BY DEF Members
  <2>2. \A i \in 1..(Len(h.idle) - 1) : h.idle[i] \in Pool
    BY <2>1
  <2> QED
    BY <2>1, <2>2
<1> DEFINE u == IF rest = <<>> THEN h.unused ELSE h.unused \ {Top(rest)}
<1>3. u \in SUBSET Pool
  BY DEF Members
<1>5. PopIdle(h) = WithIdle(h, rest, u)
  BY DEF PopIdle, WithIdle
<1> HIDE DEF u, rest
<1>4. PICK k : k = WithIdle(h, rest, u)
  OBVIOUS
<1>6. /\ k \in Members /\ k.idle = rest /\ k.unused = u
      /\ k.workers = h.workers /\ k.created = h.created
      /\ SameCounters(h, k) /\ SameFlags(h, k)
  BY <1>1, <1>3, <1>4, SetIdle
<1> QED
  BY <1>1, <1>4, <1>5, <1>6 DEF u, rest

\* The idle stack without the worker that cleans itself up.
Removed(h, w) ==
  LET i == CHOOSE j \in 1..Len(h.idle) : h.idle[j] = w
  IN  SubSeq(h.idle, 1, i - 1) \o SubSeq(h.idle, i + 1, Len(h.idle))

\* The new workers of CreateAndRegisterWorkerLockRequired() are listed before they are pushed.
LEMMA RegisterFields ==
  ASSUME NEW h \in Members, NEW w \in Pool
  PROVE  LET k == [h EXCEPT !.workers = @ \cup {w}, !.created = @ \cup {w}] IN
         /\ k \in Members
         /\ k.workers = h.workers \cup {w} /\ k.created = h.created \cup {w}
         /\ k.idle = h.idle /\ k.unused = h.unused
         /\ SameCounters(h, k) /\ SameFlags(h, k)
BY DEF Members, SameCounters, SameLimits, SameRunning, SameUnresolved, SameFlags

\* The threshold is a priority.
LEMMA MinOfType == \A h : MinOf(h) \in Priorities
BY DEF MinOf, TopPriority, Priorities

\* UpdateMinAllowedPriorityLockRequired().
LEMMA UpdateFields ==
  ASSUME NEW h \in Members
  PROVE  LET k == UpdateMinAllowedPriority(h) IN
         /\ k \in Members /\ k.min_allowed = MinOf(h) /\ k.adjust_posted = h.adjust_posted
         /\ SameCounters(h, k) /\ SameStack(h, k) /\ MinOf(k) = MinOf(h)
<1>1. MinOf(h) \in Priorities
  BY MinOfType
<1>2. UpdateMinAllowedPriority(h) = [h EXCEPT !.min_allowed = MinOf(h)]
  BY DEF UpdateMinAllowedPriority, MinOf
<1> DEFINE k == [h EXCEPT !.min_allowed = MinOf(h)]
<1>3. /\ k \in Members /\ k.min_allowed = MinOf(h) /\ k.adjust_posted = h.adjust_posted
      /\ SameCounters(h, k) /\ SameStack(h, k)
  BY <1>1 DEF Members, SameCounters, SameLimits, SameRunning, SameUnresolved, SameStack
<1>4. MinOf(k) = MinOf(h)
  BY <1>3 DEF MinOf, SameCounters, SameLimits, SameRunning, QueueEmpty, TopPriority
<1> QED
  BY <1>2, <1>3, <1>4

\* Counting a task of the given priority.
LEMMA BEType == \A p : BE(p) \in {0, 1}
BY DEF BE

\* The queue of h without a source of priority p, or with one more.
Popped(h, p) == [h EXCEPT !.queue[p] = h.queue[p] - 1]
Pushed(h, p) == [h EXCEPT !.queue[p] = @ + 1]

WithQueue(h, q) == [h EXCEPT !.queue = q]

\* The queue changes and nothing else.
LEMMA SetQueue ==
  ASSUME NEW h \in Members, NEW q \in [Priorities -> Nat], NEW k, k = WithQueue(h, q)
  PROVE  /\ k \in Members /\ k.queue = q /\ SameStack(h, k) /\ SameFlags(h, k)
         /\ SameLimits(h, k) /\ SameRunning(h, k) /\ SameUnresolved(h, k)
BY DEF WithQueue, Members, SameStack, SameFlags, SameLimits, SameRunning, SameUnresolved

\* A source that is popped changes the queue only.
LEMMA PoppedFields ==
  ASSUME NEW h \in Members, NEW p \in Priorities, h.queue[p] > 0, NEW k, k = Popped(h, p)
  PROVE  /\ k \in Members /\ SameStack(h, k) /\ SameFlags(h, k)
         /\ SameLimits(h, k) /\ SameRunning(h, k) /\ SameUnresolved(h, k)
<1>1. PICK q : q = [h.queue EXCEPT ![p] = h.queue[p] - 1]
  OBVIOUS
<1>2. q \in [Priorities -> Nat]
  BY <1>1 DEF Members
<1>3. k = WithQueue(h, q)
  BY <1>1 DEF Popped, WithQueue
<1> QED
  BY <1>2, <1>3, SetQueue

\* A source that is pushed changes the queue only.
LEMMA PushedFields ==
  ASSUME NEW h \in Members, NEW p \in Priorities, NEW k, k = Pushed(h, p)
  PROVE  /\ k \in Members /\ SameStack(h, k) /\ SameFlags(h, k)
         /\ SameLimits(h, k) /\ SameRunning(h, k) /\ SameUnresolved(h, k)
<1>1. PICK q : q = [h.queue EXCEPT ![p] = @ + 1]
  OBVIOUS
<1>2. q \in [Priorities -> Nat]
  BY <1>1 DEF Members
<1>3. k = WithQueue(h, q)
  BY <1>1 DEF Pushed, WithQueue
<1> QED
  BY <1>2, <1>3, SetQueue

\* IncrementTasksRunningLockRequired(), after the source was popped.
LEMMA StartTaskFields ==
  ASSUME NEW h \in Members, NEW p \in Priorities, h.queue[p] > 0
  PROVE  LET k == IncrementTasksRunning(Popped(h, p), p) IN
         /\ k \in Members /\ k.min_allowed = MinOf(k) /\ k.adjust_posted = h.adjust_posted
         /\ SameStack(h, k) /\ SameLimits(h, k) /\ SameUnresolved(h, k)
         /\ k.running = h.running + 1 /\ k.running_be = h.running_be + BE(p)
<1>3. PICK j : j = Popped(h, p)
  OBVIOUS
<1>4. /\ j \in Members /\ SameStack(h, j) /\ SameFlags(h, j)
      /\ SameLimits(h, j) /\ SameRunning(h, j) /\ SameUnresolved(h, j)
  BY <1>3, PoppedFields
<1>5. j.running \in Int /\ j.running_be \in Int
  BY <1>4 DEF Members
<1>6. PICK a \in Int, b \in Int : a = j.running + 1 /\ b = j.running_be + BE(p)
  BY <1>5, BEType
<1>7. PICK i : i = WithRunning(j, a, b)
  OBVIOUS
<1>8. /\ i \in Members /\ i.running = a /\ i.running_be = b
      /\ SameLimits(j, i) /\ SameUnresolved(j, i) /\ SameStack(j, i) /\ SameFlags(j, i)
  BY <1>4, <1>7, SetRunning
<1>9. PICK k : k = UpdateMinAllowedPriority(i)
  OBVIOUS
<1>10. /\ k \in Members /\ k.min_allowed = MinOf(i) /\ k.adjust_posted = i.adjust_posted
       /\ SameCounters(i, k) /\ SameStack(i, k) /\ MinOf(k) = MinOf(i)
  BY <1>8, <1>9, UpdateFields
<1>11. IncrementTasksRunning(j, p) = k
  <2>1. IncrementTasksRunning(j, p)
          = UpdateMinAllowedPriority(WithRunning(j, j.running + 1, j.running_be + BE(p)))
    BY DEF IncrementTasksRunning, WithRunning
  <2> QED
    BY <1>6, <1>7, <1>9, <2>1
<1>13. k.running = h.running + 1 /\ k.running_be = h.running_be + BE(p)
  BY <1>4, <1>6, <1>8, <1>10 DEF SameCounters, SameRunning
<1> QED
  BY <1>3, <1>4, <1>8, <1>10, <1>11, <1>13
     DEF SameCounters, SameStack, SameLimits, SameRunning, SameUnresolved, SameFlags

\* DecrementTasksRunningLockRequired().
LEMMA EndTaskFields ==
  ASSUME NEW h \in Members, NEW p
  PROVE  LET k == DecrementTasksRunning(h, p) IN
         /\ k \in Members /\ k.min_allowed = MinOf(k) /\ k.adjust_posted = h.adjust_posted
         /\ SameStack(h, k) /\ SameLimits(h, k) /\ SameUnresolved(h, k)
         /\ k.queue = h.queue /\ k.running = h.running - 1 /\ k.running_be = h.running_be - BE(p)
<1>1. h.running \in Int /\ h.running_be \in Int
  BY DEF Members
<1>2. PICK a \in Int, b \in Int : a = h.running - 1 /\ b = h.running_be - BE(p)
  BY <1>1, BEType
<1>3. PICK i : i = WithRunning(h, a, b)
  OBVIOUS
<1>4. /\ i \in Members /\ i.running = a /\ i.running_be = b
      /\ SameLimits(h, i) /\ SameUnresolved(h, i) /\ SameStack(h, i) /\ SameFlags(h, i)
      /\ i.queue = h.queue
  BY <1>3, SetRunning
<1>5. PICK k : k = UpdateMinAllowedPriority(i)
  OBVIOUS
<1>6. /\ k \in Members /\ k.min_allowed = MinOf(i) /\ k.adjust_posted = i.adjust_posted
      /\ SameCounters(i, k) /\ SameStack(i, k) /\ MinOf(k) = MinOf(i)
  BY <1>4, <1>5, UpdateFields
<1>7. DecrementTasksRunning(h, p) = k
  <2>1. DecrementTasksRunning(h, p)
          = UpdateMinAllowedPriority(WithRunning(h, h.running - 1, h.running_be - BE(p)))
    BY DEF DecrementTasksRunning, WithRunning
  <2> QED
    BY <1>2, <1>3, <1>5, <2>1
<1> QED
  BY <1>2, <1>4, <1>6, <1>7
     DEF SameCounters, SameStack, SameLimits, SameRunning, SameUnresolved, SameFlags

\* The limits go up by a blocking call and down by its end.
LEMMA MaxTasksFields ==
  ASSUME NEW h \in Members, NEW p, NEW k, NEW n \in {1, -1},
         \/ n = 1 /\ k = IncrementMaxTasks(h, p)
         \/ n = -1 /\ k = DecrementMaxTasks(h, p)
  PROVE  /\ k \in Members /\ k.min_allowed = MinOf(k) /\ k.adjust_posted = h.adjust_posted
         /\ SameStack(h, k) /\ SameRunning(h, k) /\ SameUnresolved(h, k)
         /\ k.queue = h.queue /\ k.max = h.max + n /\ k.max_be = h.max_be + n * BE(p)
<1>0. h.max \in Int /\ h.max_be \in Int
  BY DEF Members
<1>1. PICK a \in Int, b \in Int : a = h.max + n /\ b = h.max_be + n * BE(p)
  BY <1>0, BEType
<1>2. PICK i : i = WithLimits(h, a, b)
  OBVIOUS
<1>3. /\ i \in Members /\ i.max = a /\ i.max_be = b
      /\ SameRunning(h, i) /\ SameUnresolved(h, i) /\ SameStack(h, i) /\ SameFlags(h, i)
      /\ i.queue = h.queue
  BY <1>2, SetLimits
<1>4. k = UpdateMinAllowedPriority(i)
  <2>1. CASE n = 1
    <3>1. h.max + 1 = a /\ h.max_be + BE(p) = b
      BY <1>0, <1>1, <2>1, BEType
    <3>2. IncrementMaxTasks(h, p)
            = UpdateMinAllowedPriority(WithLimits(h, h.max + 1, h.max_be + BE(p)))
      BY DEF IncrementMaxTasks, WithLimits
    <3> QED
      BY <1>2, <2>1, <3>1, <3>2
  <2>2. CASE n = -1
    <3>1. h.max - 1 = a /\ h.max_be - BE(p) = b
      BY <1>0, <1>1, <2>2, BEType
    <3>2. DecrementMaxTasks(h, p)
            = UpdateMinAllowedPriority(WithLimits(h, h.max - 1, h.max_be - BE(p)))
      BY DEF DecrementMaxTasks, WithLimits
    <3> QED
      BY <1>2, <2>2, <3>1, <3>2
  <2> QED
    BY <2>1, <2>2
<1>5. /\ k \in Members /\ k.min_allowed = MinOf(i) /\ k.adjust_posted = i.adjust_posted
      /\ SameCounters(i, k) /\ SameStack(i, k) /\ MinOf(k) = MinOf(i)
  BY <1>3, <1>4, UpdateFields
<1> QED
  BY <1>1, <1>3, <1>5
     DEF SameCounters, SameStack, SameLimits, SameRunning, SameUnresolved, SameFlags

\* The numbers of unresolved MAY_BLOCK calls.
LEMMA AddUnresolvedFields ==
  ASSUME NEW h \in Members, NEW p, NEW n \in Int
  PROVE  LET k == AddUnresolved(h, p, n) IN
         /\ k \in Members /\ SameFlags(h, k) /\ SameStack(h, k) /\ MinOf(k) = MinOf(h)
         /\ k.queue = h.queue /\ SameLimits(h, k) /\ SameRunning(h, k)
         /\ k.unresolved = h.unresolved + n /\ k.unresolved_be = h.unresolved_be + n * BE(p)
<1>0. h.unresolved \in Int /\ h.unresolved_be \in Int
  BY DEF Members
<1>1. PICK a \in Int, b \in Int : a = h.unresolved + n /\ b = h.unresolved_be + n * BE(p)
  BY <1>0, BEType
<1>2. PICK k : k = WithUnresolved(h, a, b)
  OBVIOUS
<1>3. /\ k \in Members /\ k.unresolved = a /\ k.unresolved_be = b /\ k.queue = h.queue
      /\ SameLimits(h, k) /\ SameRunning(h, k) /\ SameStack(h, k) /\ SameFlags(h, k)
  BY <1>2, SetUnresolved
<1>4. MinOf(k) = MinOf(h)
  BY <1>3 DEF MinOf, SameLimits, SameRunning, QueueEmpty, TopPriority
<1>5. AddUnresolved(h, p, n) = k
  <2>1. AddUnresolved(h, p, n) = WithUnresolved(h, h.unresolved + n, h.unresolved_be + n * BE(p))
    BY DEF AddUnresolved, WithUnresolved
  <2> QED
    BY <1>1, <1>2, <2>1
<1> QED
  BY <1>1, <1>3, <1>4, <1>5

-----------------------------------------------------------------------------
(***************************************************************************)
(* Sequences of workers, and the idle stack.                               *)
(***************************************************************************)
\* The elements of a sequence.
LEMMA ElemsType ==
  ASSUME NEW s \in Seq(Pool)
  PROVE  /\ Elems(s) \in SUBSET Pool /\ Len(s) \in Nat
         /\ s = <<>> <=> Elems(s) = {}
         /\ s = <<>> <=> Len(s) = 0
<1>1. Len(s) \in Nat /\ \A i \in 1..Len(s) : s[i] \in Pool
  OBVIOUS
<1>2. s = <<>> <=> Len(s) = 0
  OBVIOUS
<1>3. Len(s) # 0 => s[1] \in Elems(s)
  BY <1>1 DEF Elems
<1>4. Len(s) = 0 => Elems(s) = {}
  BY DEF Elems
<1>5. Elems(s) \in SUBSET Pool
  BY <1>1 DEF Elems
<1> QED
  BY <1>1, <1>2, <1>3, <1>4, <1>5

\* A stack without repetitions is as long as it has elements.
LEMMA LenIsCardinality ==
  ASSUME NEW s \in Seq(Pool), Distinct(s)
  PROVE  Cardinality(Elems(s)) = Len(s) /\ IsFiniteSet(Elems(s))
<1>1. Len(s) \in Nat
  OBVIOUS
<1>2. s \in Bijection(1..Len(s), Elems(s))
  <2>1. s \in [1..Len(s) -> Elems(s)]
    BY DEF Elems
  <2>2. \A t \in Elems(s) : \E i \in 1..Len(s) : s[i] = t
    BY DEF Elems
  <2>3. \A i, j \in 1..Len(s) : s[i] = s[j] => i = j
    BY DEF Distinct
  <2> QED
    BY <2>1, <2>2, <2>3 DEF Bijection, Injection, Surjection, IsInjective
<1>3. ExistsBijection(1..Len(s), Elems(s))
  BY <1>2 DEF ExistsBijection
<1>4. IsFiniteSet(1..Len(s)) /\ Cardinality(1..Len(s)) = Len(s)
  BY <1>1, FS_Interval
<1> QED
  BY <1>3, <1>4, FS_Bijection

\* Appending an element.
LEMMA AppendElems ==
  ASSUME NEW s \in Seq(Pool), NEW w \in Pool, NEW r, r = Append(s, w)
  PROVE  /\ r \in Seq(Pool) /\ r # <<>> /\ Elems(r) = Elems(s) \cup {w} /\ Top(r) = w
         /\ Distinct(s) /\ w \notin Elems(s) => Distinct(r)
<1>1. /\ r \in Seq(Pool) /\ Len(s) \in Nat /\ Len(r) = Len(s) + 1
      /\ \A i \in 1..Len(s) : r[i] = s[i]
      /\ r[Len(s) + 1] = w
  OBVIOUS
<1>2. 1..Len(r) = (1..Len(s)) \cup {Len(s) + 1}
  BY <1>1
<1>3. Elems(r) = Elems(s) \cup {w}
  BY <1>1, <1>2 DEF Elems
<1>4. Distinct(s) /\ w \notin Elems(s) => Distinct(r)
  BY <1>1, <1>2 DEF Distinct, Elems
<1> QED
  BY <1>1, <1>3, <1>4 DEF Top

\* Popping the last one.
LEMMA FrontElems ==
  ASSUME NEW s \in Seq(Pool), s # <<>>, Distinct(s)
  PROVE  LET r == SubSeq(s, 1, Len(s) - 1) IN
         r \in Seq(Pool) /\ Elems(r) = Elems(s) \ {Top(s)} /\ Distinct(r)
<1>1. Len(s) \in Nat \ {0} /\ \A i \in 1..Len(s) : s[i] \in Pool
  OBVIOUS
<1>2. PICK r : r = SubSeq(s, 1, Len(s) - 1)
  OBVIOUS
<1>3. /\ r \in Seq(Pool) /\ Len(r) = IF 1 <= Len(s) - 1 THEN Len(s) - 1 - 1 + 1 ELSE 0
      /\ \A i \in 1..(Len(s) - 1 - 1 + 1) : r[i] = s[1 + i - 1]
  <2>1. \A i \in 1..(Len(s) - 1) : s[i] \in Pool
    BY <1>1
  <2> QED
    BY <1>1, <1>2, <2>1, SubSeqProperties
<1>4. Len(r) = Len(s) - 1 /\ \A i \in 1..(Len(s) - 1) : r[i] = s[i]
  <2>0. Len(s) \in Nat \ {0}
    OBVIOUS
  <2>1. Len(s) - 1 - 1 + 1 = Len(s) - 1 /\ (~(1 <= Len(s) - 1) => Len(s) - 1 = 0)
    BY <2>0
  <2>3. Len(r) = Len(s) - 1
    BY <1>3, <2>1
  <2>2. \A i \in 1..(Len(s) - 1) : 1 + i - 1 = i
    BY <1>1
  <2> QED
    BY <1>3, <2>1, <2>2, <2>3
<1>5. \A i \in 1..Len(r) : i \in 1..Len(s) /\ i # Len(s) /\ r[i] = s[i]
  BY <1>1, <1>4
<1>6. \A i \in 1..Len(s) : i # Len(s) => i \in 1..Len(r)
  BY <1>1, <1>4
<1>7. Len(s) \in 1..Len(s)
  BY <1>1
<1>8. Elems(r) = Elems(s) \ {Top(s)}
  <2>1. ASSUME NEW i \in 1..Len(r) PROVE r[i] \in Elems(s) /\ r[i] # Top(s)
    BY <1>5, <1>7 DEF Elems, Top, Distinct
  <2>2. ASSUME NEW i \in 1..Len(s), s[i] # Top(s) PROVE s[i] \in Elems(r)
    <3>1. i # Len(s)
      BY <2>2 DEF Top
    <3>2. i \in 1..Len(r) /\ r[i] = s[i]
      BY <1>5, <1>6, <3>1
    <3> QED
      BY <3>2 DEF Elems
  <2> QED
    BY <2>1, <2>2 DEF Elems
<1>9. Distinct(r)
  BY <1>5 DEF Distinct
<1> QED
  BY <1>2, <1>3, <1>8, <1>9

\* Taking the first one.
LEMMA TailElems ==
  ASSUME NEW s \in Seq(Pool), s # <<>>, NEW r, r = Tail(s)
  PROVE  /\ r \in Seq(Pool) /\ Head(s) \in Pool /\ Elems(s) = Elems(r) \cup {Head(s)}
         /\ Distinct(s) => Distinct(r) /\ Head(s) \notin Elems(r)
<1>1. Len(s) \in Nat \ {0} /\ \A i \in 1..Len(s) : s[i] \in Pool
  OBVIOUS
<1>2. /\ r \in Seq(Pool) /\ Len(r) = Len(s) - 1 /\ Head(s) = s[1]
      /\ \A i \in 1..(Len(s) - 1) : r[i] = s[i + 1]
  BY <1>1
<1>3. \A i \in 2..Len(s) : i - 1 \in 1..(Len(s) - 1) /\ (i - 1) + 1 = i
  BY <1>1
<1>4. \A i \in 1..Len(s) : i = 1 \/ i \in 2..Len(s)
  BY <1>1
<1>5. Elems(s) \subseteq Elems(r) \cup {Head(s)}
  <2> SUFFICES ASSUME NEW i \in 1..Len(s) PROVE s[i] \in Elems(r) \cup {Head(s)}
    BY DEF Elems
  <2>1. CASE i = 1
    BY <1>2, <2>1
  <2>2. CASE i \in 2..Len(s)
    <3>1. i - 1 \in 1..Len(r) /\ r[i - 1] = s[i]
      BY <1>1, <1>2, <2>2
    <3> QED
      BY <3>1 DEF Elems
  <2> QED
    BY <1>4, <2>1, <2>2
<1>6. Elems(r) \cup {Head(s)} \subseteq Elems(s)
  <2>1. ASSUME NEW i \in 1..Len(r) PROVE r[i] \in Elems(s)
    <3>1. i + 1 \in 1..Len(s) /\ r[i] = s[i + 1]
      BY <1>1, <1>2
    <3> QED
      BY <3>1 DEF Elems
  <2>2. Head(s) \in Elems(s)
    BY <1>1, <1>2 DEF Elems
  <2> QED
    BY <2>1, <2>2 DEF Elems
<1>7. Distinct(s) => Distinct(r) /\ Head(s) \notin Elems(r)
  <2> SUFFICES ASSUME Distinct(s) PROVE Distinct(r) /\ Head(s) \notin Elems(r)
    OBVIOUS
  <2>1. \A i \in 1..Len(r) : i + 1 \in 1..Len(s) /\ i + 1 # 1 /\ r[i] = s[i + 1]
    BY <1>1, <1>2
  <2>2. Distinct(r)
    <3> SUFFICES ASSUME NEW i \in 1..Len(r), NEW j \in 1..Len(r), r[i] = r[j] PROVE i = j
      BY DEF Distinct
    <3>1. i + 1 = j + 1
      BY <2>1 DEF Distinct
    <3> QED
      BY <1>1, <1>2, <3>1
  <2>3. Head(s) \notin Elems(r)
    BY <1>1, <1>2, <2>1 DEF Distinct, Elems
  <2> QED
    BY <2>2, <2>3
<1> QED
  BY <1>1, <1>2, <1>5, <1>6, <1>7

\* Taking out the one at place i.
LEMMA WithoutElems ==
  ASSUME NEW s \in Seq(Pool), Distinct(s), NEW i \in 1..Len(s), i < Len(s),
         NEW r \in Seq(Pool), Len(r) = Len(s) - 1,
         \A j \in 1..(i - 1) : r[j] = s[j],
         \A j \in i..(Len(s) - 1) : r[j] = s[j + 1]
  PROVE  Elems(r) = Elems(s) \ {s[i]} /\ Distinct(r) /\ r # <<>> /\ Top(r) = Top(s)
<1>1. Len(s) \in Nat \ {0}
  OBVIOUS
\* Where the element at place j of r stands in s.
<1> DEFINE At(j) == IF j < i THEN j ELSE j + 1
<1>2. \A j \in 1..Len(r) : At(j) \in 1..Len(s) /\ At(j) # i /\ r[j] = s[At(j)]
  BY <1>1
<1>3. \A j, k \in 1..Len(r) : At(j) = At(k) => j = k
  BY <1>1
<1>4. ASSUME NEW m \in 1..Len(s), m # i PROVE \E j \in 1..Len(r) : r[j] = s[m]
  <2>1. CASE m < i
    BY <1>1, <2>1
  <2>2. CASE m > i
    <3>1. m - 1 \in i..(Len(s) - 1) /\ (m - 1) + 1 = m /\ m - 1 \in 1..Len(r)
      BY <1>1, <2>2
    <3>2. r[m - 1] = s[m]
      BY <3>1
    <3> QED
      BY <3>1, <3>2
  <2>3. m < i \/ m > i
    BY <1>1, <1>4
  <2> QED
    BY <2>1, <2>2, <2>3
<1>5. \A m \in 1..Len(s) : s[m] = s[i] => m = i
  BY DEF Distinct
<1>6. Top(r) = Top(s) /\ r # <<>>
  <2>1. Len(s) - 1 \in i..(Len(s) - 1) /\ (Len(s) - 1) + 1 = Len(s)
    BY <1>1
  <2>2. r[Len(s) - 1] = s[Len(s)]
    BY <2>1
  <2>3. Len(r) # 0
    BY <1>1
  <2> QED
    BY <2>2, <2>3 DEF Top
<1> HIDE DEF At
<1>7. Elems(r) = Elems(s) \ {s[i]}
  <2>1. ASSUME NEW j \in 1..Len(r) PROVE r[j] \in Elems(s) /\ r[j] # s[i]
    BY <1>2, <1>5 DEF Elems
  <2>2. ASSUME NEW m \in 1..Len(s), s[m] # s[i] PROVE s[m] \in Elems(r)
    <3>1. \E j \in 1..Len(r) : r[j] = s[m]
      BY <1>4, <2>2
    <3> QED
      BY <3>1 DEF Elems
  <2> QED
    BY <2>1, <2>2 DEF Elems
<1>8. Distinct(r)
  BY <1>2, <1>3 DEF Distinct
<1> QED
  BY <1>6, <1>7, <1>8

\* As WorkerThreadStack::Remove() does it; the one removed is not on top.
LEMMA RemovedElems ==
  ASSUME NEW s \in Seq(Pool), Distinct(s), NEW i \in 1..Len(s), s[i] # Top(s)
  PROVE  LET r == SubSeq(s, 1, i - 1) \o SubSeq(s, i + 1, Len(s)) IN
         /\ r \in Seq(Pool) /\ Elems(r) = Elems(s) \ {s[i]} /\ Distinct(r)
         /\ r # <<>> /\ Top(r) = Top(s)
<1>1. Len(s) \in Nat /\ \A j \in 1..Len(s) : s[j] \in Pool
  OBVIOUS
<1>2. i < Len(s) /\ i \in Nat
  BY <1>1 DEF Top
<1>3. PICK p, q : p = SubSeq(s, 1, i - 1) /\ q = SubSeq(s, i + 1, Len(s))
  OBVIOUS
<1>4. /\ p \in Seq(Pool) /\ Len(p) = i - 1 /\ \A j \in 1..(i - 1) : p[j] = s[j]
  <2>1. \A j \in 1..(i - 1) : s[j] \in Pool
    BY <1>1, <1>2
  <2>2. /\ p \in Seq(Pool) /\ Len(p) = IF 1 <= i - 1 THEN i - 1 - 1 + 1 ELSE 0
        /\ \A j \in 1..(i - 1 - 1 + 1) : p[j] = s[1 + j - 1]
    BY <1>2, <1>3, <2>1, SubSeqProperties
  <2> QED
    BY <1>2, <2>2
<1>5. /\ q \in Seq(Pool) /\ Len(q) = Len(s) - i
      /\ \A j \in 1..(Len(s) - i) : q[j] = s[i + j]
  <2>1. \A j \in (i + 1)..Len(s) : s[j] \in Pool
    BY <1>1, <1>2
  <2>2. /\ q \in Seq(Pool) /\ Len(q) = IF i + 1 <= Len(s) THEN Len(s) - (i + 1) + 1 ELSE 0
        /\ \A j \in 1..(Len(s) - (i + 1) + 1) : q[j] = s[i + 1 + j - 1]
    BY <1>1, <1>2, <1>3, <2>1, SubSeqProperties
  <2> QED
    BY <1>1, <1>2, <2>2
<1>6. PICK r : r = p \o q
  OBVIOUS
<1>7. /\ r \in Seq(Pool) /\ Len(r) = Len(p) + Len(q)
      /\ \A j \in 1..(Len(p) + Len(q)) : r[j] = IF j <= Len(p) THEN p[j] ELSE q[j - Len(p)]
  BY <1>4, <1>5, <1>6, ConcatProperties
<1>8. Len(r) = Len(s) - 1
  BY <1>1, <1>2, <1>4, <1>5, <1>7
<1>9. \A j \in 1..(i - 1) : r[j] = s[j]
  BY <1>1, <1>2, <1>4, <1>5, <1>7
<1>10. ASSUME NEW j \in i..(Len(s) - 1) PROVE r[j] = s[j + 1]
  <2>1. /\ j \in 1..(Len(p) + Len(q)) /\ ~(j <= Len(p)) /\ j - Len(p) \in 1..(Len(s) - i)
        /\ i + (j - Len(p)) = j + 1
    BY <1>1, <1>2, <1>4, <1>5
  <2>2. r[j] = q[j - Len(p)]
    BY <1>7, <2>1
  <2> QED
    BY <1>5, <2>1, <2>2
<1>11. Elems(r) = Elems(s) \ {s[i]} /\ Distinct(r) /\ r # <<>> /\ Top(r) = Top(s)
  BY <1>2, <1>7, <1>8, <1>9, <1>10, WithoutElems
<1> QED
  BY <1>3, <1>6, <1>7, <1>11

\* A subset of the workers has a cardinality.
LEMMA PoolFinite ==
  ASSUME NEW S \in SUBSET Pool
  PROVE  IsFiniteSet(S) /\ Cardinality(S) \in Nat
<1>1. IsFiniteSet(Pool)
  BY ActorsAssumption
<1>2. IsFiniteSet(S)
  BY <1>1, FS_Subset
<1> QED
  BY <1>2, FS_CardinalityType

\* A worker on the stack looks idle, and no other does.
LEMMA LooksIdleIsOnStack ==
  ASSUME NEW h \in Members, StackOK(h), NEW w \in h.workers
  PROVE  /\ LooksIdle(w, h) <=> w \in Elems(h.idle)
         /\ OnStack(h, w) <=> w \in Elems(h.idle)
<1>1. h.idle \in Seq(Pool)
  BY DEF Members
<1>2. h.idle # <<>> => Top(h.idle) \in Elems(h.idle)
  BY <1>1, TopType DEF Elems, Top
<1>3. h.idle = <<>> <=> Elems(h.idle) = {}
  BY <1>1, ElemsType
<1>4. OnStack(h, w) <=> w \in Elems(h.idle)
  BY DEF OnStack, Elems
<1> QED
  BY <1>2, <1>3, <1>4 DEF LooksIdle, StackOK

\* The limits are numbers.
LEMMA Limits ==
  /\ KMaxNumberOfWorkers \in Nat /\ MaxCleanups \in Nat
  /\ KMaxNumberOfWorkers + MaxCleanups <= Cardinality(Pool)
  /\ InitialMax \in Nat \ {0} /\ InitialMaxBE \in Nat \ {0} /\ MaxBlocking \in Nat
BY LimitsAssumption

\* OnWorkerBecomesIdleLockRequired(): a worker that is not on the stack is pushed.
LEMMA PushOK ==
  ASSUME NEW h \in Members, StackOK(h), NEW w \in h.workers, w \notin Elems(h.idle),
         w \notin h.unused
  PROVE  /\ PushIdle(h, w) \in Members /\ StackOK(PushIdle(h, w))
         /\ Elems(PushIdle(h, w).idle) = Elems(h.idle) \cup {w}
         /\ PushIdle(h, w).idle # <<>>
<1>0. w \in Pool /\ h.idle \in Seq(Pool)
  BY DEF Members
<1>1. PICK k : k = PushIdle(h, w)
  OBVIOUS
<1>2. /\ k \in Members /\ k.idle = Append(h.idle, w)
      /\ k.unused = IF h.idle = <<>> THEN h.unused ELSE h.unused \cup {Top(h.idle)}
      /\ k.workers = h.workers /\ k.created = h.created
  BY <1>0, <1>1, PushIdleFields
<1>3. k.idle # <<>> /\ Elems(k.idle) = Elems(h.idle) \cup {w} /\ Top(k.idle) = w /\ Distinct(k.idle)
  BY <1>0, <1>2, AppendElems DEF StackOK
<1>4. h.idle # <<>> => Top(h.idle) \in Elems(h.idle)
  BY <1>0, TopType DEF Elems, Top
<1>5. h.idle = <<>> <=> Elems(h.idle) = {}
  BY <1>0, ElemsType
<1>6. Elems(k.idle) \subseteq k.workers
  BY <1>2, <1>3 DEF StackOK
<1>7. k.unused \subseteq k.created
  BY <1>2, <1>4 DEF StackOK
<1>8. ASSUME NEW v \in k.workers
      PROVE  v \in k.unused <=> v \in Elems(k.idle) /\ v # Top(k.idle)
  <2>1. v \in h.unused <=> v \in Elems(h.idle) /\ v # Top(h.idle)
    BY <1>2 DEF StackOK
  <2>2. v \in k.unused <=> v \in h.unused \/ (h.idle # <<>> /\ v = Top(h.idle))
    BY <1>2
  <2> QED
    BY <1>3, <1>4, <1>5, <2>1, <2>2
<1>9. StackOK(k)
  BY <1>2, <1>3, <1>6, <1>7, <1>8 DEF StackOK
<1> QED
  BY <1>1, <1>2, <1>3, <1>9

\* Pop() leaves a stack, without the worker that was on top.
LEMMA PopOK ==
  ASSUME NEW h \in Members, StackOK(h), h.idle # <<>>
  PROVE  /\ PopIdle(h) \in Members /\ StackOK(PopIdle(h))
         /\ Elems(PopIdle(h).idle) = Elems(h.idle) \ {Top(h.idle)}
         /\ Top(h.idle) \in Elems(h.idle)
<1>0. h.idle \in Seq(Pool)
  BY DEF Members
<1>1. PICK k : k = PopIdle(h)
  OBVIOUS
<1>2. PICK r : r = SubSeq(h.idle, 1, Len(h.idle) - 1)
  OBVIOUS
<1>3. /\ k \in Members /\ k.idle = r
      /\ k.unused = IF r = <<>> THEN h.unused ELSE h.unused \ {Top(r)}
      /\ k.workers = h.workers /\ k.created = h.created
  BY <1>1, <1>2, PopIdleFields
<1>4. r \in Seq(Pool) /\ Elems(r) = Elems(h.idle) \ {Top(h.idle)} /\ Distinct(r)
  BY <1>0, <1>2, FrontElems DEF StackOK
<1>5. Top(h.idle) \in Elems(h.idle)
  BY <1>0, TopType DEF Elems, Top
<1>6. r # <<>> => Top(r) \in Elems(r)
  BY <1>4, TopType DEF Elems, Top
<1>7. r = <<>> <=> Elems(r) = {}
  BY <1>4, ElemsType
<1>8. ASSUME NEW v \in k.workers
      PROVE  v \in k.unused <=> v \in Elems(k.idle) /\ v # Top(k.idle)
  <2>1. v \in h.unused <=> v \in Elems(h.idle) /\ v # Top(h.idle)
    BY <1>3 DEF StackOK
  <2>2. v \in k.unused <=> v \in h.unused /\ ~(r # <<>> /\ v = Top(r))
    BY <1>3
  <2> QED
    BY <1>3, <1>4, <1>6, <1>7, <2>1, <2>2
<1>9. Elems(k.idle) \subseteq k.workers /\ k.unused \subseteq k.created
  BY <1>3, <1>4 DEF StackOK
<1>10. StackOK(k)
  BY <1>3, <1>4, <1>8, <1>9 DEF StackOK
<1> QED
  BY <1>1, <1>3, <1>4, <1>5, <1>10

\* A worker that cleans itself up leaves the stack and workers_.
Cleaned(h, w) == [RemoveIdle(h, w) EXCEPT !.workers = h.workers \ {w}]

\* A worker that cleans itself up leaves a stack of the others.
LEMMA CleanupOK ==
  ASSUME NEW h \in Members, StackOK(h), NEW w \in h.workers, w \in h.unused,
         Cardinality(h.created \ h.workers) < MaxCleanups, NEW k,
         k = Cleaned(h, w)
  PROVE  /\ k \in Members /\ StackOK(k) /\ SameCounters(h, k) /\ SameFlags(h, k)
         /\ Elems(k.idle) = Elems(h.idle) \ {w}
         /\ k.created = h.created /\ k.workers = h.workers \ {w}
<1>0. h.idle \in Seq(Pool) /\ h.workers \in SUBSET Pool /\ h.created \in SUBSET Pool
  BY DEF Members
<1>1. w \in Elems(h.idle) /\ w # Top(h.idle)
  BY DEF StackOK
<1>2. PICK i \in 1..Len(h.idle) : i = CHOOSE j \in 1..Len(h.idle) : h.idle[j] = w
  BY <1>1 DEF Elems
<1>3. h.idle[i] = w
  BY <1>1, <1>2 DEF Elems
<1>4. PICK r : r = SubSeq(h.idle, 1, i - 1) \o SubSeq(h.idle, i + 1, Len(h.idle))
  OBVIOUS
<1>5. /\ r \in Seq(Pool) /\ Elems(r) = Elems(h.idle) \ {w} /\ Distinct(r)
      /\ r # <<>> /\ Top(r) = Top(h.idle)
  BY <1>0, <1>1, <1>3, <1>4, RemovedElems DEF StackOK
<1>6. RemoveIdle(h, w) = WithIdle(h, r, h.unused)
  <2>1. RemoveIdle(h, w) = [h EXCEPT !.idle = r]
    BY <1>2, <1>4 DEF RemoveIdle
  <2>2. [h EXCEPT !.idle = r] = [h EXCEPT !.idle = r, !.unused = h.unused]
    BY DEF Members
  <2> QED
    BY <2>1, <2>2 DEF WithIdle
<1>7. PICK j : j = WithIdle(h, r, h.unused)
  OBVIOUS
<1>8. /\ j \in Members /\ j.idle = r /\ j.unused = h.unused
      /\ j.workers = h.workers /\ j.created = h.created
      /\ SameCounters(h, j) /\ SameFlags(h, j)
  <2>1. h.unused \in SUBSET Pool
    BY DEF Members
  <2> QED
    BY <1>5, <1>7, <2>1, SetIdle
<1>9. PICK s \in SUBSET Pool : s = h.workers \ {w}
  BY <1>0
<1>10. k = [j EXCEPT !.workers = s]
  BY <1>6, <1>7, <1>9 DEF Cleaned
<1>11. /\ k \in Members /\ k.workers = s /\ k.idle = j.idle /\ k.unused = j.unused
       /\ k.created = j.created /\ SameCounters(j, k) /\ SameFlags(j, k)
  BY <1>8, <1>10
     DEF Members, SameCounters, SameLimits, SameRunning, SameUnresolved, SameFlags
<1>12. Cardinality(k.workers) <= KMaxNumberOfWorkers
  <2>1. Cardinality(s) <= Cardinality(h.workers)
    BY <1>0, <1>9, PoolFinite, FS_Subset
  <2>2. Cardinality(s) \in Nat /\ Cardinality(h.workers) \in Nat
    BY <1>0, PoolFinite
  <2>3. Cardinality(h.workers) <= KMaxNumberOfWorkers
    BY DEF StackOK
  <2>4. Cardinality(s) <= KMaxNumberOfWorkers
    BY <2>1, <2>2, <2>3, Limits
  <2> QED
    BY <1>11, <2>4
<1>13. Cardinality(k.created \ k.workers) <= MaxCleanups
  <2>1. k.created \ k.workers = (h.created \ h.workers) \cup {w}
    BY <1>8, <1>9, <1>11 DEF StackOK
  <2>2. h.created \ h.workers \in SUBSET Pool
    BY <1>0
  <2>3. IsFiniteSet(h.created \ h.workers) /\ Cardinality(h.created \ h.workers) \in Nat
    BY <2>2, PoolFinite
  <2>4. Cardinality((h.created \ h.workers) \cup {w}) = Cardinality(h.created \ h.workers) + 1
    BY <2>3, FS_AddElement
  <2>5. Cardinality(h.created \ h.workers) + 1 <= MaxCleanups
    BY <2>3, Limits
  <2> QED
    BY <2>1, <2>4, <2>5
<1>14. StackOK(k)
  <2>1. Distinct(k.idle) /\ Elems(k.idle) \subseteq k.workers
    BY <1>5, <1>8, <1>9, <1>11 DEF StackOK
  <2>2. k.workers \subseteq k.created /\ k.unused \subseteq k.created
    BY <1>8, <1>9, <1>11 DEF StackOK
  <2>3. ASSUME NEW v \in k.workers
        PROVE  v \in k.unused <=> v \in Elems(k.idle) /\ v # Top(k.idle)
    BY <1>5, <1>8, <1>9, <1>11 DEF StackOK
  <2> QED
    BY <1>12, <1>13, <2>1, <2>2, <2>3 DEF StackOK
<1> QED
  BY <1>5, <1>8, <1>9, <1>11, <1>14
     DEF SameCounters, SameLimits, SameRunning, SameUnresolved, SameFlags

Unborn(h) == CHOOSE v \in Pool : v \notin h.created
Registered(h, w) == [h EXCEPT !.workers = @ \cup {w}, !.created = @ \cup {w}]

\* CreateAndRegisterWorkerLockRequired(): a worker that was never created, and
\* there is one as long as there are fewer than the most allowed.
LEMMA RegisterOK ==
  ASSUME NEW h \in Members, StackOK(h), Cardinality(h.workers) # KMaxNumberOfWorkers,
         NEW w, w = Unborn(h), NEW k,
         k = Registered(h, w)
  PROVE  /\ w \in Pool /\ w \notin h.created /\ k \in Members /\ StackOK(k)
         /\ k.workers = h.workers \cup {w} /\ k.created = h.created \cup {w}
         /\ k.idle = h.idle /\ k.unused = h.unused
         /\ SameCounters(h, k) /\ SameFlags(h, k)
<1>0. h.idle \in Seq(Pool) /\ h.workers \in SUBSET Pool /\ h.created \in SUBSET Pool
  BY DEF Members
<1>1. PICK m : m = h.created \ h.workers
  OBVIOUS
<1>2. /\ IsFiniteSet(h.workers) /\ Cardinality(h.workers) \in Nat
      /\ IsFiniteSet(m) /\ Cardinality(m) \in Nat
      /\ IsFiniteSet(Pool) /\ Cardinality(Pool) \in Nat
  BY <1>0, <1>1, PoolFinite
<1>3. Cardinality(h.workers) < KMaxNumberOfWorkers /\ Cardinality(m) <= MaxCleanups
  BY <1>1, <1>2, Limits DEF StackOK
<1>4. Cardinality(h.created) < Cardinality(Pool)
  <2>1. h.created = h.workers \cup m /\ h.workers \cap m = {}
    BY <1>1 DEF StackOK
  <2>2. Cardinality(h.workers \cup m)
          = Cardinality(h.workers) + Cardinality(m) - Cardinality(h.workers \cap m)
    BY <1>2, FS_Union
  <2>3. Cardinality({}) = 0
    BY FS_EmptySet
  <2>4. Cardinality(h.created) = Cardinality(h.workers) + Cardinality(m) - 0
    BY <2>1, <2>2, <2>3
  <2> QED
    BY <1>2, <1>3, <2>4, Limits
<1>5. w \in Pool /\ w \notin h.created
  <2>1. h.created # Pool
    BY <1>2, <1>4
  <2>2. \E v \in Pool : v \notin h.created
    BY <1>0, <2>1
  <2> QED
    BY <2>2 DEF Unborn
<1>6. /\ k \in Members /\ k.workers = h.workers \cup {w} /\ k.created = h.created \cup {w}
      /\ k.idle = h.idle /\ k.unused = h.unused /\ SameCounters(h, k) /\ SameFlags(h, k)
  BY <1>5, RegisterFields DEF Registered
<1>7. Cardinality(k.workers) <= KMaxNumberOfWorkers
  <2>1. Cardinality(h.workers \cup {w}) = Cardinality(h.workers) + 1
    BY <1>2, <1>5, FS_AddElement DEF StackOK
  <2>2. Cardinality(h.workers) + 1 <= KMaxNumberOfWorkers
    BY <1>2, <1>3, Limits
  <2> QED
    BY <1>6, <2>1, <2>2
<1>8. k.created \ k.workers = h.created \ h.workers
  BY <1>5, <1>6
<1>9. w \notin Elems(h.idle) /\ w \notin h.unused /\ w \notin h.workers
  BY <1>5 DEF StackOK
<1>10. \A v \in k.workers : v \in k.unused <=> v \in Elems(k.idle) /\ v # Top(k.idle)
  BY <1>6, <1>9 DEF StackOK
<1>11. StackOK(k)
  BY <1>6, <1>7, <1>8, <1>10 DEF StackOK
<1> QED
  BY <1>5, <1>6, <1>11

-----------------------------------------------------------------------------
(***************************************************************************)
(* EnsureEnoughWorkersLockRequired(): what it does to the group and to the *)
(* caller's executor.                                                      *)
(***************************************************************************)
Sections == [g : Members, e : Executors]

Good(x) ==
  /\ x \in Sections /\ StackOK(x.g)
  /\ Distinct(x.e.start) /\ Elems(x.e.start) \subseteq x.g.created

New(x, y) == y.g.created \ x.g.created

\* New workers are created, to be started, and workers leave the stack to be woken up.
Growth(x, y) ==
  /\ SameCounters(x.g, y.g)
  /\ x.g.created \subseteq y.g.created /\ y.g.workers = x.g.workers \cup New(x, y)
  /\ Elems(y.g.idle) \subseteq Elems(x.g.idle) \cup New(x, y)
  /\ Elems(x.g.idle) \cup New(x, y) \subseteq Elems(y.g.idle) \cup Elems(y.e.wake)
  /\ Elems(x.e.wake) \subseteq Elems(y.e.wake)
  /\ Elems(y.e.start) = Elems(x.e.start) \cup New(x, y)

Grows(x, y) ==
  Good(y) /\ Growth(x, y) /\ SameFlags(x.g, y.g) /\ y.e.adjust = x.e.adjust

\* Doing nothing, and one thing after the other.
LEMMA GrowsRefl == ASSUME NEW x, Good(x) PROVE Grows(x, x)
BY DEF Grows, Growth, New, Good, StackOK, SameCounters, SameLimits, SameRunning,
       SameUnresolved, SameFlags

\* One growth after another is a growth.
LEMMA GrowthTrans ==
  ASSUME NEW x, NEW y, NEW z, Growth(x, y), Growth(y, z)
  PROVE  Growth(x, z)
<1>1. SameCounters(x.g, z.g)
  BY DEF Growth, SameCounters, SameLimits, SameRunning, SameUnresolved
<1>2. New(x, z) = New(x, y) \cup New(y, z) /\ x.g.created \subseteq z.g.created
  BY DEF Growth, New
<1>3. z.g.workers = x.g.workers \cup New(x, z)
  BY <1>2 DEF Growth
<1>4. Elems(z.g.idle) \subseteq Elems(x.g.idle) \cup New(x, z)
  BY <1>2 DEF Growth
<1>5. Elems(x.g.idle) \cup New(x, z) \subseteq Elems(z.g.idle) \cup Elems(z.e.wake)
  BY <1>2 DEF Growth
<1>6. Elems(x.e.wake) \subseteq Elems(z.e.wake)
  BY DEF Growth
<1>7. Elems(z.e.start) = Elems(x.e.start) \cup New(x, z)
  BY <1>2 DEF Growth
<1> QED
  BY <1>1, <1>2, <1>3, <1>4, <1>5, <1>6, <1>7 DEF Growth

\* Two operations that let the group grow, one after the other, do so too.
LEMMA GrowsTrans ==
  ASSUME NEW x, NEW y, NEW z, Grows(x, y), Grows(y, z)
  PROVE  Grows(x, z)
<1>1. Growth(x, z)
  BY GrowthTrans DEF Grows
<1> QED
  BY <1>1 DEF Grows, SameFlags

\* Additions to the executor.
LEMMA WithStart ==
  ASSUME NEW e \in Executors, NEW w \in Pool, NEW f, f = [e EXCEPT !.start = Append(@, w)]
  PROVE  /\ f \in Executors /\ f.wake = e.wake /\ f.adjust = e.adjust
         /\ f.start = Append(e.start, w)
<1>1. Append(e.start, w) \in Seq(Pool)
  BY DEF Executors
<1> QED
  BY <1>1 DEF Executors

\* A worker to wake up is scheduled on the executor.
LEMMA WithWake ==
  ASSUME NEW e \in Executors, NEW w \in Pool, NEW f, f = [e EXCEPT !.wake = Append(@, w)]
  PROVE  /\ f \in Executors /\ f.start = e.start /\ f.adjust = e.adjust
         /\ f.wake = Append(e.wake, w)
<1>1. Append(e.wake, w) \in Seq(Pool)
  BY DEF Executors
<1> QED
  BY <1>1 DEF Executors

\* MaintainAtLeastOneIdleWorkerLockRequired().
LEMMA MaintainGrows ==
  ASSUME NEW x, Good(x)
  PROVE  Grows(x, MaintainAtLeastOneIdleWorker(x))
<1> DEFINE Enough == \/ Cardinality(x.g.workers) = KMaxNumberOfWorkers
                     \/ x.g.idle # <<>>
                     \/ Cardinality(x.g.workers) >= x.g.max
<1>1. CASE Enough
  BY <1>1, GrowsRefl DEF MaintainAtLeastOneIdleWorker
<1>2. CASE ~Enough
  <2>0. x.g \in Members /\ x.e \in Executors /\ StackOK(x.g)
    BY DEF Good, Sections
  <2>1. PICK w : w = Unborn(x.g)
    OBVIOUS
  <2>2. PICK k : k = Registered(x.g, w)
    OBVIOUS
  <2>3. Cardinality(x.g.workers) # KMaxNumberOfWorkers /\ x.g.idle = <<>>
    BY <1>2
  <2>4. /\ w \in Pool /\ w \notin x.g.created /\ k \in Members /\ StackOK(k)
        /\ k.workers = x.g.workers \cup {w} /\ k.created = x.g.created \cup {w}
        /\ k.idle = x.g.idle /\ k.unused = x.g.unused
        /\ SameCounters(x.g, k) /\ SameFlags(x.g, k)
    BY <2>0, <2>1, <2>2, <2>3, RegisterOK
  <2>5. PICK j, f : j = PushIdle(k, w) /\ f = [x.e EXCEPT !.start = Append(@, w)]
    OBVIOUS
  <2>6. Elems(k.idle) = {}
    BY <2>3, <2>4 DEF Elems
  <2>7. w \in k.workers /\ w \notin Elems(k.idle) /\ w \notin k.unused
    BY <2>0, <2>4, <2>6 DEF StackOK
  <2>8. j \in Members /\ StackOK(j) /\ Elems(j.idle) = Elems(k.idle) \cup {w}
    BY <2>4, <2>5, <2>7, PushOK
  <2>9. /\ j.workers = k.workers /\ j.created = k.created
        /\ SameCounters(k, j) /\ SameFlags(k, j)
    BY <2>4, <2>5, PushIdleFields
  <2>10. /\ f \in Executors /\ f.wake = x.e.wake /\ f.adjust = x.e.adjust
         /\ f.start = Append(x.e.start, w)
    BY <2>0, <2>4, <2>5, WithStart
  <2>11. /\ Elems(f.start) = Elems(x.e.start) \cup {w} /\ Distinct(f.start)
    <3>1. x.e.start \in Seq(Pool)
      BY <2>0 DEF Executors
    <3>2. w \notin Elems(x.e.start) /\ Distinct(x.e.start)
      BY <2>4 DEF Good
    <3> QED
      BY <2>4, <2>10, <3>1, <3>2, AppendElems
  <2>12. PICK y : y = [g |-> j, e |-> f]
    OBVIOUS
  <2>13. y.g = j /\ y.e = f /\ y \in Sections
    BY <2>8, <2>10, <2>12 DEF Sections
  <2>14. MaintainAtLeastOneIdleWorker(x) = y
    BY <1>2, <2>1, <2>2, <2>5, <2>12 DEF MaintainAtLeastOneIdleWorker, Registered, Unborn
  <2>15. New(x, y) = {w}
    BY <2>4, <2>9, <2>13 DEF New
  <2>16. Good(y)
    BY <2>4, <2>8, <2>9, <2>11, <2>13 DEF Good
  <2>17. SameCounters(x.g, y.g) /\ SameFlags(x.g, y.g)
    BY <2>4, <2>9, <2>13
       DEF SameCounters, SameLimits, SameRunning, SameUnresolved, SameFlags
  <2>18. Elems(x.g.idle) = {} /\ Elems(y.g.idle) = {w}
    BY <2>4, <2>6, <2>8, <2>13
  <2>19. Growth(x, y)
    BY <2>4, <2>9, <2>10, <2>11, <2>13, <2>15, <2>17, <2>18 DEF Growth
  <2> QED
    BY <2>10, <2>13, <2>14, <2>16, <2>17, <2>19 DEF Grows
<1> QED
  BY <1>1, <1>2

\* WakeUpOneWorkerLockRequired().
LEMMA WakeUpGrows ==
  ASSUME NEW x, Good(x)
  PROVE  Grows(x, WakeUpOneWorker(x))
<1>1. PICK y : y = MaintainAtLeastOneIdleWorker(x)
  OBVIOUS
<1>2. Grows(x, y) /\ Good(y)
  BY <1>1, MaintainGrows DEF Grows
<1>3. CASE y.g.idle = <<>>
  BY <1>1, <1>2, <1>3 DEF WakeUpOneWorker
<1>4. CASE y.g.idle # <<>>
  <2>0. y.g \in Members /\ y.e \in Executors /\ StackOK(y.g) /\ y.g.idle \in Seq(Pool)
    BY <1>2 DEF Good, Sections, Members
  <2>1. PICK k, t, f : k = PopIdle(y.g) /\ t = Top(y.g.idle)
                         /\ f = [y.e EXCEPT !.wake = Append(@, t)]
    OBVIOUS
  <2>2. t \in Pool
    BY <1>4, <2>0, <2>1, TopType
  <2>3. k \in Members /\ StackOK(k) /\ Elems(k.idle) = Elems(y.g.idle) \ {t}
    BY <1>4, <2>0, <2>1, PopOK
  <2>4. /\ k.workers = y.g.workers /\ k.created = y.g.created
        /\ SameCounters(y.g, k) /\ SameFlags(y.g, k)
    BY <1>4, <2>0, <2>1, PopIdleFields
  <2>5. /\ f \in Executors /\ f.start = y.e.start /\ f.adjust = y.e.adjust
        /\ f.wake = Append(y.e.wake, t)
    BY <2>0, <2>1, <2>2, WithWake
  <2>6. Elems(f.wake) = Elems(y.e.wake) \cup {t}
    <3>1. y.e.wake \in Seq(Pool)
      BY <2>0 DEF Executors
    <3> QED
      BY <2>2, <2>5, <3>1, AppendElems
  <2>7. PICK z : z = [g |-> k, e |-> f]
    OBVIOUS
  <2>8. z.g = k /\ z.e = f /\ z \in Sections
    BY <2>3, <2>5, <2>7 DEF Sections
  <2>9. WakeUpOneWorker(x) = z
    BY <1>1, <1>4, <2>1, <2>7 DEF WakeUpOneWorker
  <2>10. New(y, z) = {}
    BY <2>4, <2>8 DEF New
  <2>11. Good(z)
    BY <1>2, <2>3, <2>4, <2>5, <2>8 DEF Good
  <2>12. Growth(y, z)
    BY <2>3, <2>4, <2>5, <2>6, <2>8, <2>10 DEF Growth
  <2>13. Grows(y, z)
    BY <2>4, <2>5, <2>8, <2>11, <2>12 DEF Grows
  <2> QED
    BY <1>2, <2>9, <2>13, GrowsTrans
<1> QED
  BY <1>3, <1>4

\* MaybeScheduleAdjustMaxTasksLockRequired(): at most one is scheduled.
Schedules(x, y) ==
  \/ y.g.adjust_posted = x.g.adjust_posted /\ y.e.adjust = x.e.adjust
  \/ ~x.g.adjust_posted /\ y.g.adjust_posted /\ y.e.adjust

\* MaybeScheduleAdjustMaxTasksLockRequired() sets the flag and the executor together.
LEMMA ScheduleFields ==
  ASSUME NEW x \in Sections, NEW y, y = MaybeScheduleAdjustMaxTasks(x)
  PROVE  /\ y \in Sections /\ Schedules(x, y) /\ SameStack(x.g, y.g) /\ SameCounters(x.g, y.g)
         /\ y.g.min_allowed = x.g.min_allowed
         /\ y.e.wake = x.e.wake /\ y.e.start = x.e.start
<1>0. x.g \in Members /\ x.e \in Executors
  BY DEF Sections
<1>1. CASE y = x
  BY <1>1 DEF Schedules, SameStack, SameCounters, SameLimits, SameRunning, SameUnresolved
<1>2. CASE ~x.g.adjust_posted /\ ShouldPeriodicallyAdjustMaxTasks(x.g)
  <2>1. PICK k, f : k = [x.g EXCEPT !.adjust_posted = TRUE] /\ f = [x.e EXCEPT !.adjust = TRUE]
    OBVIOUS
  <2>2. /\ k \in Members /\ k.adjust_posted = TRUE /\ k.min_allowed = x.g.min_allowed
        /\ SameCounters(x.g, k) /\ SameStack(x.g, k)
    BY <1>0, <2>1, SetFlags
  <2>3. f \in Executors /\ f.adjust = TRUE /\ f.wake = x.e.wake /\ f.start = x.e.start
    BY <1>0, <2>1 DEF Executors
  <2>4. y = [g |-> k, e |-> f]
    BY <1>2, <2>1 DEF MaybeScheduleAdjustMaxTasks
  <2>5. y.g = k /\ y.e = f /\ y \in Sections
    BY <2>2, <2>3, <2>4 DEF Sections
  <2>6. Schedules(x, y)
    BY <1>2, <2>2, <2>3, <2>5 DEF Schedules
  <2> QED
    BY <2>2, <2>3, <2>5, <2>6
<1> QED
  BY <1>1, <1>2 DEF MaybeScheduleAdjustMaxTasks

\* What EnsureEnoughWorkersLockRequired() ends with.
Outcome(x, y) ==
  /\ Good(y) /\ Growth(x, y) /\ Schedules(x, y)
  /\ x.g.max = 0 => y = x
  /\ Threshold(y.g)

\* What EnsureEnoughWorkersLockRequired() may do to members and executor.
LEMMA EnsureOutcome ==
  ASSUME NEW x, Good(x), NEW z \in EnsureEnoughWorkers(x)
  PROVE  Outcome(x, z)
<1>1. CASE x.g.max = 0
  <2>1. z = x
    BY <1>1 DEF EnsureEnoughWorkers
  <2>2. Growth(x, x)
    BY GrowsRefl DEF Grows
  <2> QED
    BY <1>1, <2>1, <2>2 DEF Outcome, Schedules, Threshold
<1>2. CASE x.g.max # 0
  <2>1. PICK m, o, t : /\ m = MaintainAtLeastOneIdleWorker(x) /\ o = WakeUpOneWorker(x)
                       /\ t = WakeUpOneWorker(o)
    OBVIOUS
  <2>2. Grows(x, x) /\ Grows(x, m) /\ Grows(x, o) /\ Good(o)
    BY <2>1, GrowsRefl, MaintainGrows, WakeUpGrows DEF Grows
  <2>3. Grows(x, t)
    BY <2>1, <2>2, WakeUpGrows, GrowsTrans
  <2>4. \E y \in {m, x, o, t} :
          z = MaybeScheduleAdjustMaxTasks([y EXCEPT !.g = UpdateMinAllowedPriority(@)])
    BY <1>2, <2>1 DEF EnsureEnoughWorkers
  <2>5. PICK y \in {m, x, o, t} :
          z = MaybeScheduleAdjustMaxTasks([y EXCEPT !.g = UpdateMinAllowedPriority(@)])
    BY <2>4
  <2>6. Grows(x, y) /\ y \in Sections /\ y.g \in Members /\ y.e \in Executors
    BY <2>2, <2>3 DEF Grows, Good, Sections
  <2>7. PICK k : k = UpdateMinAllowedPriority(y.g)
    OBVIOUS
  <2>8. /\ k \in Members /\ k.min_allowed = MinOf(y.g) /\ k.adjust_posted = y.g.adjust_posted
        /\ SameCounters(y.g, k) /\ SameStack(y.g, k) /\ MinOf(k) = MinOf(y.g)
    BY <2>6, <2>7, UpdateFields
  <2>9. PICK u : u = [y EXCEPT !.g = k]
    OBVIOUS
  <2>10. u \in Sections /\ u.g = k /\ u.e = y.e
    BY <2>6, <2>8, <2>9 DEF Sections
  <2>11. z = MaybeScheduleAdjustMaxTasks(u)
    BY <2>5, <2>7, <2>9
  <2>12. /\ z \in Sections /\ Schedules(u, z) /\ SameStack(u.g, z.g) /\ SameCounters(u.g, z.g)
         /\ z.g.min_allowed = u.g.min_allowed
         /\ z.e.wake = u.e.wake /\ z.e.start = u.e.start
    BY <2>10, <2>11, ScheduleFields
  <2>13. SameStack(y.g, z.g) /\ SameCounters(y.g, z.g) /\ SameCounters(x.g, z.g)
    BY <2>6, <2>8, <2>10, <2>12
       DEF SameStack, SameCounters, SameLimits, SameRunning, SameUnresolved, Grows, Growth
  <2>14. StackOK(z.g)
    <3>1. StackOK(y.g)
      BY <2>6 DEF Grows, Good
    <3> QED
      BY <2>13, <3>1 DEF StackOK, SameStack
  <2>15. Good(z)
    BY <2>6, <2>10, <2>12, <2>13, <2>14 DEF Good, Grows, SameStack
  <2>16. Growth(x, z)
    <3>1. New(x, z) = New(x, y)
      BY <2>13 DEF New, SameStack
    <3>2. Growth(x, y)
      BY <2>6 DEF Grows
    <3> QED
      BY <2>10, <2>12, <2>13, <3>1, <3>2 DEF Growth, SameStack
  <2>17. Schedules(x, z)
    BY <2>6, <2>8, <2>10, <2>12 DEF Schedules, Grows, SameFlags
  <2>18. MinOf(z.g) = MinOf(k)
    BY <2>10, <2>12 DEF MinOf, SameCounters, SameLimits, SameRunning, QueueEmpty, TopPriority
  <2>19. Threshold(z.g)
    BY <2>8, <2>10, <2>12, <2>18 DEF Threshold
  <2> QED
    BY <1>2, <2>15, <2>16, <2>17, <2>19 DEF Outcome
<1> QED
  BY <1>1, <1>2

-----------------------------------------------------------------------------
(***************************************************************************)
(* The shape of the group through the parts of a step.                     *)
(***************************************************************************)
\* The shape, but for the threshold.
Core(h, X, P, E, n) ==
  /\ h \in Members /\ X \in [Actors -> Executors]
  /\ StackOK(h) /\ Life(h, X, P, E) /\ Starts(h, X, P) /\ Adjusts(h, X, n)

\* Counting does not disturb the stack.
LEMMA CoreSame ==
  ASSUME NEW h, NEW X, NEW P, NEW E, NEW n, Core(h, X, P, E, n), NEW k \in Members,
         SameStack(h, k), k.adjust_posted = h.adjust_posted
  PROVE  Core(k, X, P, E, n)
<1>1. StackOK(k)
  BY DEF Core, StackOK, SameStack
<1>2. Life(k, X, P, E)
  BY DEF Core, Life, LifeOf, SameStack
<1>3. Starts(k, X, P)
  BY DEF Core, Starts, StartOf, SameStack
<1> QED
  BY <1>1, <1>2, <1>3 DEF Core, Adjusts

\* An executor that was flushed.
LEMMA EmptyFields ==
  /\ EmptyExecutor \in Executors
  /\ EmptyExecutor.wake = <<>> /\ EmptyExecutor.start = <<>> /\ EmptyExecutor.adjust = FALSE
  /\ Elems(EmptyExecutor.wake) = {} /\ Elems(EmptyExecutor.start) = {}
  /\ Distinct(EmptyExecutor.start)
<1>1. /\ EmptyExecutor \in Executors
      /\ EmptyExecutor.wake = <<>> /\ EmptyExecutor.start = <<>> /\ EmptyExecutor.adjust = FALSE
  BY DEF EmptyExecutor, Executors
<1>2. Elems(<<>>) = {} /\ Distinct(<<>>)
  BY DEF Elems, Distinct
<1> QED
  BY <1>1, <1>2

\* A critical section begins with an empty executor.
LEMMA Begins ==
  ASSUME NEW h \in Members, StackOK(h), NEW x, x = [g |-> h, e |-> EmptyExecutor]
  PROVE  Good(x) /\ x.g = h /\ x.e = EmptyExecutor
<1>1. x.g = h /\ x.e = EmptyExecutor /\ x \in Sections
  BY EmptyFields DEF Sections
<1> QED
  BY <1>1, EmptyFields DEF Good

\* A set of actors has a cardinality.
LEMMA ActorsFinite ==
  ASSUME NEW S \in SUBSET Actors
  PROVE  IsFiniteSet(S) /\ Cardinality(S) \in Nat
<1>1. IsFiniteSet(Pool)
  BY ActorsAssumption
<1>2. IsFiniteSet({Poster, Main, Service})
  <2>1. IsFiniteSet({Poster}) /\ {Poster, Main} = {Poster} \cup {Main}
        /\ {Poster, Main, Service} = {Poster, Main} \cup {Service}
    BY FS_Singleton
  <2>2. IsFiniteSet({Poster, Main})
    BY <2>1, FS_AddElement
  <2> QED
    BY <2>1, <2>2, FS_AddElement
<1>3. IsFiniteSet(Actors)
  BY <1>1, <1>2, FS_Union DEF Actors
<1>4. IsFiniteSet(S)
  BY <1>3, FS_Subset
<1> QED
  BY <1>4, FS_CardinalityType

\* A critical section that ends with EnsureEnoughWorkersLockRequired().
LEMMA EnsureShape ==
  ASSUME NEW h, NEW X, NEW P, NEW E, NEW n \in Nat, Core(h, X, P, E, n), NEW a \in Actors,
         X[a] = EmptyExecutor, NEW x, x.g = h, x.e = EmptyExecutor, NEW z, Outcome(x, z),
         NEW Y, Y = [X EXCEPT ![a] = z.e]
  PROVE  Shape(z.g, Y, P, E, n)
<1>0. /\ X \in [Actors -> Executors] /\ StackOK(h) /\ h \in Members
      /\ Life(h, X, P, E) /\ Starts(h, X, P) /\ Adjusts(h, X, n)
  BY DEF Core
<1>1. Good(z) /\ Growth(x, z) /\ Schedules(x, z) /\ Threshold(z.g)
  BY DEF Outcome
<1>2. z.g \in Members /\ z.e \in Executors /\ StackOK(z.g) /\ Distinct(z.e.start)
  BY <1>1 DEF Good, Sections
<1>3. Y \in [Actors -> Executors] /\ Y[a] = z.e /\ \A b \in Actors : b # a => Y[b] = X[b]
  BY <1>0, <1>2
<1>4. PICK N : N = New(x, z)
  OBVIOUS
<1>5. /\ N = z.g.created \ h.created /\ h.created \subseteq z.g.created
      /\ z.g.workers = h.workers \cup N
      /\ Elems(z.g.idle) \subseteq Elems(h.idle) \cup N
      /\ Elems(h.idle) \cup N \subseteq Elems(z.g.idle) \cup Elems(z.e.wake)
      /\ Elems(z.e.start) = N
  BY <1>1, <1>4, EmptyFields DEF Growth, New
<1>6. Life(z.g, Y, P, E)
  <2> SUFFICES ASSUME NEW w \in Pool PROVE LifeOf(w, z.g, Y, P, E)
    BY DEF Life
  <2>1. LifeOf(w, h, X, P, E)
    BY <1>0 DEF Life
  <2>2. Waking(w, X) => Waking(w, Y)
    <3> SUFFICES ASSUME NEW b \in Actors, w \in Elems(X[b].wake) PROVE Waking(w, Y)
      BY DEF Waking
    <3>1. b # a
      BY EmptyFields
    <3> QED
      BY <1>3, <3>1 DEF Waking
  <2>3. w \in Elems(z.e.wake) => Waking(w, Y)
    BY <1>3 DEF Waking
  <2>4. CASE w \in N
    <3>1. P[w] = "none"
      BY <1>5, <2>1, <2>4 DEF LifeOf
    <3>2. w \in z.g.created /\ w \in z.g.workers
      BY <1>5, <2>4
    <3>3. w \in Elems(z.g.idle) \/ Waking(w, Y)
      BY <1>5, <2>3, <2>4
    <3> QED
      BY <3>1, <3>2, <3>3 DEF LifeOf
  <2>5. CASE w \notin N
    <3>1. (w \in z.g.created <=> w \in h.created) /\ (w \in z.g.workers <=> w \in h.workers)
      BY <1>5, <2>5
    <3>2. /\ w \in Elems(z.g.idle) => w \in Elems(h.idle)
          /\ w \in Elems(h.idle) => w \in Elems(z.g.idle) \/ Waking(w, Y)
      BY <1>5, <2>3, <2>5
    <3> QED
      BY <2>1, <2>2, <3>1, <3>2 DEF LifeOf
  <2> QED
    BY <2>4, <2>5
<1>7. Starts(z.g, Y, P)
  <2>1. ASSUME NEW b \in Actors, b # a
        PROVE  Distinct(Y[b].start) /\ \A w \in Elems(Y[b].start) : StartOf(w, b, z.g, Y, P)
    <3>1. Y[b] = X[b] /\ Distinct(X[b].start)
      BY <1>0, <1>3, <2>1 DEF Starts
    <3>2. ASSUME NEW w \in Elems(X[b].start) PROVE StartOf(w, b, z.g, Y, P)
      <4>1. StartOf(w, b, h, X, P)
        BY <1>0 DEF Starts
      <4>2. w \notin N /\ w \in z.g.created
        BY <1>5, <4>1 DEF StartOf
      <4>3. ASSUME NEW c \in Actors, w \in Elems(Y[c].start) PROVE c = b
        <5>1. c # a
          BY <1>3, <1>5, <4>2, <4>3
        <5>2. Y[c] = X[c]
          BY <1>3, <5>1
        <5> QED
          BY <4>1, <4>3, <5>2 DEF StartOf
      <4> QED
        BY <4>1, <4>2, <4>3 DEF StartOf
    <3> QED
      BY <3>1, <3>2
  <2>2. ASSUME NEW w \in Elems(z.e.start) PROVE StartOf(w, a, z.g, Y, P)
    <3>1. w \in N /\ w \in z.g.created /\ w \notin h.created /\ w \in Pool
      BY <1>2, <1>5 DEF Members
    <3>2. P[w] = "none"
      BY <1>0, <3>1 DEF Life, LifeOf
    <3>3. ASSUME NEW c \in Actors, w \in Elems(Y[c].start), c # a PROVE FALSE
      <4>1. w \in Elems(X[c].start)
        BY <1>3, <3>3
      <4>2. StartOf(w, c, h, X, P)
        BY <1>0, <4>1 DEF Starts
      <4> QED
        BY <3>1, <4>2 DEF StartOf
    <3> QED
      BY <3>1, <3>2, <3>3 DEF StartOf
  <2>3. \A b \in Actors : /\ Distinct(Y[b].start)
                          /\ \A w \in Elems(Y[b].start) : StartOf(w, b, z.g, Y, P)
    BY <1>2, <1>3, <2>1, <2>2
  <2> QED
    BY <2>3 DEF Starts
<1>8. Adjusts(z.g, Y, n)
  <2>1. a \notin Adjusting(X) /\ X[a].adjust = FALSE
    BY EmptyFields DEF Adjusting
  <2>2. CASE z.g.adjust_posted = h.adjust_posted /\ z.e.adjust = FALSE
    <3>1. Adjusting(Y) = Adjusting(X)
      BY <1>3, <2>1, <2>2 DEF Adjusting
    <3> QED
      BY <1>0, <2>2, <3>1 DEF Adjusts
  <2>3. CASE ~h.adjust_posted /\ z.g.adjust_posted /\ z.e.adjust
    <3>1. Adjusting(Y) = Adjusting(X) \cup {a}
      BY <1>3, <2>1, <2>3 DEF Adjusting
    <3>2. IsFiniteSet(Adjusting(X)) /\ Cardinality(Adjusting(X)) \in Nat
      <4>1. Adjusting(X) \in SUBSET Actors
        BY DEF Adjusting
      <4> QED
        BY <4>1, ActorsFinite
    <3>3. Cardinality(Adjusting(Y)) = Cardinality(Adjusting(X)) + 1
      BY <2>1, <3>1, <3>2, FS_AddElement
    <3>4. n + Cardinality(Adjusting(X)) = 0
      BY <1>0, <2>3 DEF Adjusts
    <3>5. n + Cardinality(Adjusting(Y)) = 1
      BY <3>2, <3>3, <3>4
    <3> QED
      BY <2>3, <3>5 DEF Adjusts
  <2> QED
    BY <1>1, <2>2, <2>3, EmptyFields DEF Schedules
<1> QED
  BY <1>1, <1>2, <1>3, <1>6, <1>7, <1>8 DEF Shape

\* An actor goes on to place v.
LEMMA PlaceShape ==
  ASSUME NEW h, NEW X, NEW P \in [Actors -> Pcs], NEW E, NEW n, Shape(h, X, P, E, n),
         NEW a \in Actors, NEW v, NEW Q, Q = [P EXCEPT ![a] = v],
         a \in Pool => /\ P[a] \notin {"none", "exited"} /\ v \notin {"none", "exited"}
                       /\ v = "sleep" => a \in Elems(h.idle) \/ a \in E
                       /\ a \in Elems(h.idle) => v \in {"sleep", "get", "get2"}
  PROVE  Shape(h, X, Q, E, n)
<1>1. Q[a] = v /\ \A b \in Actors : b # a => Q[b] = P[b]
  OBVIOUS
<1>2. Life(h, X, Q, E)
  <2> SUFFICES ASSUME NEW w \in Pool PROVE LifeOf(w, h, X, Q, E)
    BY DEF Life
  <2>1. LifeOf(w, h, X, P, E) /\ w \in Actors
    BY DEF Shape, Life, Actors
  <2>2. CASE w = a
    BY <1>1, <2>1, <2>2 DEF LifeOf
  <2>3. CASE w # a
    BY <1>1, <2>1, <2>3 DEF LifeOf
  <2> QED
    BY <2>2, <2>3
<1>3. Starts(h, X, Q)
  <2> SUFFICES ASSUME NEW b \in Actors, NEW w \in Elems(X[b].start) PROVE StartOf(w, b, h, X, Q)
    BY DEF Starts, Shape
  <2>1. StartOf(w, b, h, X, P)
    BY DEF Starts, Shape
  <2>2. w \in Pool /\ w \in Actors
    BY <2>1 DEF StartOf, Shape, Members, Actors
  <2>3. w # a
    BY <2>1, <2>2 DEF StartOf
  <2> QED
    BY <1>1, <2>1, <2>2, <2>3 DEF StartOf
<1> QED
  BY <1>2, <1>3 DEF Shape

\* The event of a worker that does not wait may be reset.
LEMMA ResetShape ==
  ASSUME NEW h, NEW X, NEW P, NEW E, NEW n, Shape(h, X, P, E, n), NEW w \in Pool,
         P[w] \notin {"none", "sleep"}
  PROVE  Shape(h, X, P, E \ {w}, n)
<1>1. Life(h, X, P, E \ {w})
  <2> SUFFICES ASSUME NEW v \in Pool PROVE LifeOf(v, h, X, P, E \ {w})
    BY DEF Life
  <2>1. LifeOf(v, h, X, P, E)
    BY DEF Shape, Life
  <2> QED
    BY <2>1 DEF LifeOf
<1> QED
  BY <1>1 DEF Shape

\* OnWorkerBecomesIdleLockRequired().
LEMMA IdleShape ==
  ASSUME NEW h, NEW X, NEW P, NEW E, NEW n, Shape(h, X, P, E, n), NEW w \in Pool,
         P[w] \in {"get", "get2"}, ~LooksIdle(w, h)
  PROVE  /\ Shape(PushIdle(h, w), X, P, E, n) /\ w \in Elems(PushIdle(h, w).idle)
         /\ SameCounters(h, PushIdle(h, w))
<1>0. h \in Members /\ StackOK(h) /\ w \in h.workers
  BY DEF Shape, Life, LifeOf
<1>1. w \notin Elems(h.idle) /\ w \notin h.unused
  BY <1>0, LooksIdleIsOnStack DEF LooksIdle
<1>2. PICK k : k = PushIdle(h, w)
  OBVIOUS
<1>3. k \in Members /\ StackOK(k) /\ Elems(k.idle) = Elems(h.idle) \cup {w}
  BY <1>0, <1>1, <1>2, PushOK
<1>4. k.workers = h.workers /\ k.created = h.created /\ SameCounters(h, k) /\ SameFlags(h, k)
  BY <1>0, <1>2, PushIdleFields
<1>5. Life(k, X, P, E)
  <2> SUFFICES ASSUME NEW v \in Pool PROVE LifeOf(v, k, X, P, E)
    BY DEF Life
  <2>1. LifeOf(v, h, X, P, E)
    BY DEF Shape, Life
  <2> QED
    BY <1>3, <1>4, <2>1 DEF LifeOf
<1>6. Starts(k, X, P)
  BY <1>4 DEF Shape, Starts, StartOf
<1>7. MinOf(k) = MinOf(h)
  BY <1>4 DEF MinOf, SameCounters, SameLimits, SameRunning, QueueEmpty, TopPriority
<1>8. Threshold(k) /\ Adjusts(k, X, n)
  BY <1>4, <1>7
     DEF Shape, Threshold, Adjusts, SameFlags, SameCounters, SameLimits
<1>9. Shape(k, X, P, E, n)
  BY <1>3, <1>5, <1>6, <1>8 DEF Shape
<1> QED
  BY <1>2, <1>3, <1>4, <1>9

\* An assignment to the place of an actor.
Moved(P, a, v) == [P EXCEPT ![a] = v]

\* CleanupLockRequired(): the worker leaves for good.
LEMMA CleanupShape ==
  ASSUME NEW h, NEW X, NEW P \in [Actors -> Pcs], NEW E, NEW n, Shape(h, X, P, E, n),
         NEW w \in Pool, P[w] \in {"get", "get2"}, w \in h.unused,
         Cardinality(h.created \ h.workers) < MaxCleanups, NEW k,
         k = Cleaned(h, w), NEW Q, Q = Moved(P, w, "exited")
  PROVE  Shape(k, X, Q, E \cup {w}, n) /\ SameCounters(h, k)
<1>0. h \in Members /\ StackOK(h) /\ w \in h.workers /\ w \in Actors
  BY DEF Shape, Life, LifeOf, Actors
<1>1. /\ k \in Members /\ StackOK(k) /\ SameCounters(h, k) /\ SameFlags(h, k)
      /\ Elems(k.idle) = Elems(h.idle) \ {w}
      /\ k.created = h.created /\ k.workers = h.workers \ {w}
  BY <1>0, CleanupOK
<1>2. Q[w] = "exited" /\ \A b \in Actors : b # w => Q[b] = P[b]
  BY <1>0 DEF Moved
<1>3. Life(k, X, Q, E \cup {w})
  <2> SUFFICES ASSUME NEW v \in Pool PROVE LifeOf(v, k, X, Q, E \cup {w})
    BY DEF Life
  <2>1. LifeOf(v, h, X, P, E) /\ v \in Actors
    BY DEF Shape, Life, Actors
  <2>2. CASE v = w
    <3>1. w \in k.created /\ w \notin k.workers /\ w \notin Elems(k.idle)
      BY <1>0, <1>1 DEF StackOK
    <3> QED
      BY <1>2, <2>2, <3>1 DEF LifeOf
  <2>3. CASE v # w
    BY <1>1, <1>2, <2>1, <2>3 DEF LifeOf
  <2> QED
    BY <2>2, <2>3
<1>4. Starts(k, X, Q)
  <2> SUFFICES ASSUME NEW b \in Actors, NEW v \in Elems(X[b].start) PROVE StartOf(v, b, k, X, Q)
    BY DEF Starts, Shape
  <2>1. StartOf(v, b, h, X, P)
    BY DEF Starts, Shape
  <2>2. v \in Actors /\ v # w
    BY <1>0, <2>1 DEF StartOf, Members, Actors
  <2> QED
    BY <1>1, <1>2, <2>1, <2>2 DEF StartOf
<1>5. MinOf(k) = MinOf(h)
  BY <1>1 DEF MinOf, SameCounters, SameLimits, SameRunning, QueueEmpty, TopPriority
<1>6. Threshold(k) /\ Adjusts(k, X, n)
  BY <1>1, <1>5
     DEF Shape, Threshold, Adjusts, SameFlags, SameCounters, SameLimits
<1> QED
  BY <1>1, <1>3, <1>4, <1>6 DEF Shape

-----------------------------------------------------------------------------
(***************************************************************************)
(* The counters.                                                           *)
(***************************************************************************)
\* One worker more, or less, in a set.
LEMMA CountAdd ==
  ASSUME NEW T, NEW S \in SUBSET Pool, NEW w \in Pool, w \notin S
  PROVE  /\ Cardinality(S \cup {w}) = Cardinality(S) + 1
         /\ Cardinality(BestEffort(T, S \cup {w})) = Cardinality(BestEffort(T, S)) + BE(T[w])
<1>1. BestEffort(T, S) \in SUBSET Pool /\ w \notin BestEffort(T, S)
  BY DEF BestEffort
<1>2. /\ IsFiniteSet(S) /\ IsFiniteSet(BestEffort(T, S))
      /\ Cardinality(BestEffort(T, S)) \in Nat
  BY <1>1, PoolFinite
<1>3. Cardinality(S \cup {w}) = Cardinality(S) + 1
  BY <1>2, FS_AddElement
<1>4. CASE T[w] = "BE"
  <2>1. BestEffort(T, S \cup {w}) = BestEffort(T, S) \cup {w}
    BY <1>4 DEF BestEffort
  <2>2. Cardinality(BestEffort(T, S) \cup {w}) = Cardinality(BestEffort(T, S)) + 1
    BY <1>1, <1>2, FS_AddElement
  <2>3. BE(T[w]) = 1
    BY <1>4 DEF BE
  <2> QED
    BY <1>3, <2>1, <2>2, <2>3
<1>5. CASE T[w] # "BE"
  <2>1. BestEffort(T, S \cup {w}) = BestEffort(T, S)
    BY <1>5 DEF BestEffort
  <2>2. BE(T[w]) = 0
    BY <1>5 DEF BE
  <2>3. Cardinality(BestEffort(T, S)) = Cardinality(BestEffort(T, S)) + 0
    BY <1>2
  <2> QED
    BY <1>3, <2>1, <2>2, <2>3
<1> QED
  BY <1>4, <1>5

\* Leaving a counted set lowers both of its counts.
LEMMA CountRemove ==
  ASSUME NEW T, NEW S \in SUBSET Pool, NEW w \in S
  PROVE  /\ Cardinality(S \ {w}) = Cardinality(S) - 1
         /\ Cardinality(BestEffort(T, S \ {w})) = Cardinality(BestEffort(T, S)) - BE(T[w])
<1>1. S \ {w} \in SUBSET Pool /\ w \in Pool /\ w \notin S \ {w} /\ (S \ {w}) \cup {w} = S
  OBVIOUS
<1>2. PICK R : R = S \ {w}
  OBVIOUS
<1>3. /\ Cardinality(S) = Cardinality(R) + 1
      /\ Cardinality(BestEffort(T, S)) = Cardinality(BestEffort(T, R)) + BE(T[w])
  BY <1>1, <1>2, CountAdd
<1>4. BestEffort(T, R) \in SUBSET Pool
  BY <1>2 DEF BestEffort
<1>5. Cardinality(R) \in Nat /\ Cardinality(BestEffort(T, R)) \in Nat
  BY <1>1, <1>2, <1>4, PoolFinite
<1>6. Cardinality(R) = Cardinality(S) - 1
  BY <1>3, <1>5
<1>7. Cardinality(BestEffort(T, R)) = Cardinality(BestEffort(T, S)) - BE(T[w])
  BY <1>3, <1>5, BEType
<1> QED
  BY <1>2, <1>6, <1>7

\* Counters that are left alone.
LEMMA CountersSame ==
  ASSUME NEW h, NEW k, NEW T, NEW M, NEW I, Counters(h, T, M, I),
         SameLimits(h, k), SameRunning(h, k), SameUnresolved(h, k)
  PROVE  Counters(k, T, M, I)
BY DEF Counters, SameLimits, SameRunning, SameUnresolved

\* A worker takes a task.
LEMMA TaskStarts ==
  ASSUME NEW h, NEW k, NEW T \in [Pool -> Priorities \cup {None}], NEW M \in SUBSET Pool,
         NEW I \in SUBSET Pool, Counters(h, T, M, I), NEW w \in Pool, T[w] = None,
         w \notin M \cup I, NEW p \in Priorities, NEW U, U = [T EXCEPT ![w] = p],
         SameLimits(h, k), SameUnresolved(h, k),
         k.running = h.running + 1, k.running_be = h.running_be + BE(p)
  PROVE  Counters(k, U, M, I)
<1>1. U[w] = p /\ p # None /\ \A v \in Pool : v # w => U[v] = T[v]
  BY ActorsAssumption
<1>2. PICK S : S = Busy(T)
  OBVIOUS
<1>3. S \in SUBSET Pool /\ w \notin S /\ Busy(U) = S \cup {w}
  BY <1>1, <1>2 DEF Busy
<1>4. /\ Cardinality(S \cup {w}) = Cardinality(S) + 1
      /\ Cardinality(BestEffort(U, S \cup {w})) = Cardinality(BestEffort(U, S)) + BE(U[w])
  BY <1>3, CountAdd
<1>5. BestEffort(U, S) = BestEffort(T, S)
  BY <1>1, <1>3 DEF BestEffort
<1>6. BestEffort(U, I) = BestEffort(T, I) /\ BestEffort(U, M \ I) = BestEffort(T, M \ I)
  <2>1. w \notin I /\ w \notin M \ I /\ \A v \in I : v # w => U[v] = T[v]
    BY <1>1
  <2>2. \A v \in M \ I : v # w => U[v] = T[v]
    BY <1>1
  <2> QED
    BY <2>1, <2>2 DEF BestEffort
<1> QED
  BY <1>1, <1>2, <1>3, <1>4, <1>5, <1>6 DEF Counters, SameLimits, SameUnresolved

\* Its task ends.
LEMMA TaskEnds ==
  ASSUME NEW h, NEW k, NEW T \in [Pool -> Priorities \cup {None}], NEW M \in SUBSET Pool,
         NEW I \in SUBSET Pool, Counters(h, T, M, I), NEW w \in Pool, T[w] # None,
         w \notin M \cup I, NEW U, U = [T EXCEPT ![w] = None],
         SameLimits(h, k), SameUnresolved(h, k),
         k.running = h.running - 1, k.running_be = h.running_be - BE(T[w])
  PROVE  Counters(k, U, M, I)
<1>1. U[w] = None /\ \A v \in Pool : v # w => U[v] = T[v]
  OBVIOUS
<1>2. PICK S : S = Busy(T)
  OBVIOUS
<1>3. S \in SUBSET Pool /\ w \in S /\ Busy(U) = S \ {w}
  BY <1>1, <1>2 DEF Busy
<1>4. /\ Cardinality(S \ {w}) = Cardinality(S) - 1
      /\ Cardinality(BestEffort(T, S \ {w})) = Cardinality(BestEffort(T, S)) - BE(T[w])
  BY <1>3, CountRemove
<1>5. BestEffort(U, S \ {w}) = BestEffort(T, S \ {w})
  <2>1. w \notin S \ {w} /\ \A v \in S \ {w} : v # w => U[v] = T[v]
    BY <1>1, <1>3
  <2> QED
    BY <2>1 DEF BestEffort
<1>6. BestEffort(U, I) = BestEffort(T, I) /\ BestEffort(U, M \ I) = BestEffort(T, M \ I)
  <2>1. w \notin I /\ w \notin M \ I /\ \A v \in I : v # w => U[v] = T[v]
    BY <1>1
  <2>2. \A v \in M \ I : v # w => U[v] = T[v]
    BY <1>1
  <2> QED
    BY <2>1, <2>2 DEF BestEffort
<1> QED
  BY <1>2, <1>3, <1>4, <1>5, <1>6 DEF Counters, SameLimits, SameUnresolved

\* MayBlockEntered().
LEMMA MayBlockBegins ==
  ASSUME NEW h, NEW k, NEW T, NEW M \in SUBSET Pool, NEW I \in SUBSET Pool, Counters(h, T, M, I),
         NEW w \in Pool, w \notin M \cup I, SameLimits(h, k), SameRunning(h, k),
         k.unresolved = h.unresolved + 1, k.unresolved_be = h.unresolved_be + BE(T[w])
  PROVE  Counters(k, T, M \cup {w}, I)
<1>1. PICK S \in SUBSET Pool : S = M \ I
  OBVIOUS
<1>2. w \notin S /\ (M \cup {w}) \ I = S \cup {w}
  BY <1>1
<1>3. /\ Cardinality(S \cup {w}) = Cardinality(S) + 1
      /\ Cardinality(BestEffort(T, S \cup {w})) = Cardinality(BestEffort(T, S)) + BE(T[w])
  BY <1>2, CountAdd
<1> QED
  BY <1>1, <1>2, <1>3 DEF Counters, SameLimits, SameRunning

\* The MAY_BLOCK ends, or is upgraded, before AdjustMaxTasks() has counted it.
LEMMA MayBlockEnds ==
  ASSUME NEW h, NEW k, NEW T, NEW M \in SUBSET Pool, NEW I \in SUBSET Pool, Counters(h, T, M, I),
         NEW w \in M \ I, SameLimits(h, k), SameRunning(h, k),
         k.unresolved = h.unresolved - 1, k.unresolved_be = h.unresolved_be - BE(T[w])
  PROVE  Counters(k, T, M \ {w}, I)
<1>1. PICK S \in SUBSET Pool : S = M \ I
  OBVIOUS
<1>2. w \in S /\ (M \ {w}) \ I = S \ {w}
  BY <1>1
<1>3. /\ Cardinality(S \ {w}) = Cardinality(S) - 1
      /\ Cardinality(BestEffort(T, S \ {w})) = Cardinality(BestEffort(T, S)) - BE(T[w])
  BY <1>2, CountRemove
<1> QED
  BY <1>1, <1>2, <1>3 DEF Counters, SameLimits, SameRunning

\* WillBlockEntered().
LEMMA WillBlockBegins ==
  ASSUME NEW h \in Members, NEW k, NEW T, NEW M \in SUBSET Pool, NEW I \in SUBSET Pool, Counters(h, T, M, I),
         NEW w \in Pool, w \notin M \cup I, h.max # 0, SameUnresolved(h, k), SameRunning(h, k),
         k.max = h.max + 1, k.max_be = h.max_be + BE(T[w])
  PROVE  Counters(k, T, M, I \cup {w})
<1>1. M \ (I \cup {w}) = M \ I
  OBVIOUS
<1>2. /\ Cardinality(I \cup {w}) = Cardinality(I) + 1
      /\ Cardinality(BestEffort(T, I \cup {w})) = Cardinality(BestEffort(T, I)) + BE(T[w])
  BY CountAdd
<1>3. BestEffort(T, I) \in SUBSET Pool
  BY DEF BestEffort
<1>4. Cardinality(I) \in Nat /\ Cardinality(BestEffort(T, I)) \in Nat
  BY <1>3, PoolFinite
<1>5. /\ h.max = InitialMax + Cardinality(I)
      /\ h.max_be = InitialMaxBE + Cardinality(BestEffort(T, I))
  BY DEF Counters
<1>6. k.max = InitialMax + Cardinality(I \cup {w})
  BY <1>2, <1>4, <1>5, Limits
<1>7. k.max_be = InitialMaxBE + Cardinality(BestEffort(T, I \cup {w}))
  BY <1>2, <1>4, <1>5, Limits, BEType
<1> QED
  BY <1>1, <1>6, <1>7 DEF Counters, SameUnresolved, SameRunning

\* The end of a blocking call that has incremented the limits.
LEMMA WillBlockEnds ==
  ASSUME NEW h \in Members, NEW k, NEW T, NEW M \in SUBSET Pool, NEW I \in SUBSET Pool, Counters(h, T, M, I),
         NEW w \in I, h.max # 0, SameUnresolved(h, k), SameRunning(h, k),
         k.max = h.max - 1, k.max_be = h.max_be - BE(T[w])
  PROVE  Counters(k, T, M \ {w}, I \ {w}) /\ k.max > 0
<1>1. (M \ {w}) \ (I \ {w}) = M \ I
  OBVIOUS
<1>2. /\ Cardinality(I \ {w}) = Cardinality(I) - 1
      /\ Cardinality(BestEffort(T, I \ {w})) = Cardinality(BestEffort(T, I)) - BE(T[w])
  BY CountRemove
<1>3. BestEffort(T, I) \in SUBSET Pool /\ I \ {w} \in SUBSET Pool
  BY DEF BestEffort
<1>4. /\ Cardinality(I) \in Nat /\ Cardinality(BestEffort(T, I)) \in Nat
      /\ Cardinality(I \ {w}) \in Nat
  BY <1>3, PoolFinite
<1>5. /\ h.max = InitialMax + Cardinality(I)
      /\ h.max_be = InitialMaxBE + Cardinality(BestEffort(T, I))
  BY DEF Counters
<1>6. k.max = InitialMax + Cardinality(I \ {w})
  BY <1>2, <1>4, <1>5, Limits
<1>7. k.max_be = InitialMaxBE + Cardinality(BestEffort(T, I \ {w}))
  BY <1>2, <1>4, <1>5, Limits, BEType
<1>8. k.max > 0
  BY <1>4, <1>6, Limits
<1> QED
  BY <1>1, <1>6, <1>7, <1>8 DEF Counters, SameUnresolved, SameRunning

\* AdjustMaxTasks() counts the workers S that have blocked for long enough.
LEMMA CountResolved ==
  ASSUME NEW h \in Members, NEW k, NEW T, NEW M \in SUBSET Pool, NEW I \in SUBSET Pool, Counters(h, T, M, I),
         NEW S \in SUBSET (M \ I), h.max # 0, SameRunning(h, k),
         k.max = h.max + Cardinality(S),
         k.max_be = h.max_be + Cardinality(BestEffort(T, S)),
         k.unresolved = h.unresolved - Cardinality(S),
         k.unresolved_be = h.unresolved_be - Cardinality(BestEffort(T, S))
  PROVE  Counters(k, T, M, I \cup S)
<1>1. PICK R \in SUBSET Pool : R = M \ I
  OBVIOUS
<1>2. S \in SUBSET R /\ M \ (I \cup S) = R \ S /\ I \cap S = {}
  BY <1>1
<1>3. /\ BestEffort(T, R) \in SUBSET Pool /\ BestEffort(T, S) \in SUBSET BestEffort(T, R)
      /\ BestEffort(T, R \ S) = BestEffort(T, R) \ BestEffort(T, S)
      /\ BestEffort(T, I \cup S) = BestEffort(T, I) \cup BestEffort(T, S)
      /\ BestEffort(T, I) \cap BestEffort(T, S) = {}
      /\ BestEffort(T, I) \in SUBSET Pool /\ S \in SUBSET Pool
      /\ BestEffort(T, S) \in SUBSET Pool
  BY <1>2 DEF BestEffort
<1>4. ASSUME NEW A \in SUBSET Pool, NEW B \in SUBSET A
      PROVE  Cardinality(A \ B) = Cardinality(A) - Cardinality(B)
  <2>1. IsFiniteSet(A) /\ Cardinality(A) \in Nat /\ Cardinality(A \cap B) = Cardinality(B)
    <3>1. A \cap B = B
      OBVIOUS
    <3> QED
      BY <3>1, PoolFinite
  <2>2. Cardinality(A \ B) = Cardinality(A) - Cardinality(A \cap B)
    BY <2>1, FS_Difference
  <2> QED
    BY <2>1, <2>2
<1>5. ASSUME NEW A \in SUBSET Pool, NEW B \in SUBSET Pool, A \cap B = {}
      PROVE  Cardinality(A \cup B) = Cardinality(A) + Cardinality(B)
  <2>1. /\ IsFiniteSet(A) /\ IsFiniteSet(B) /\ Cardinality(A) \in Nat /\ Cardinality(B) \in Nat
    BY PoolFinite
  <2>2. Cardinality(A \cup B) = Cardinality(A) + Cardinality(B) - Cardinality(A \cap B)
    BY <2>1, FS_Union
  <2>3. Cardinality(A \cap B) = 0
    BY <1>5, FS_EmptySet
  <2>4. Cardinality(A) + Cardinality(B) - 0 = Cardinality(A) + Cardinality(B)
    BY <2>1
  <2> QED
    BY <2>2, <2>3, <2>4
<1>6. /\ Cardinality(R \ S) = Cardinality(R) - Cardinality(S)
      /\ Cardinality(BestEffort(T, R \ S))
           = Cardinality(BestEffort(T, R)) - Cardinality(BestEffort(T, S))
  BY <1>2, <1>3, <1>4
<1>7. /\ Cardinality(I \cup S) = Cardinality(I) + Cardinality(S)
      /\ Cardinality(BestEffort(T, I \cup S))
           = Cardinality(BestEffort(T, I)) + Cardinality(BestEffort(T, S))
  BY <1>2, <1>3, <1>5
<1>8. /\ Cardinality(I) \in Nat /\ Cardinality(S) \in Nat
      /\ Cardinality(BestEffort(T, I)) \in Nat /\ Cardinality(BestEffort(T, S)) \in Nat
  BY <1>3, PoolFinite
<1>9. /\ h.max = InitialMax + Cardinality(I)
      /\ h.max_be = InitialMaxBE + Cardinality(BestEffort(T, I))
  BY DEF Counters
<1>10. k.max = InitialMax + Cardinality(I \cup S)
  BY <1>7, <1>8, <1>9, Limits
<1>11. k.max_be = InitialMaxBE + Cardinality(BestEffort(T, I \cup S))
  BY <1>7, <1>8, <1>9, Limits
<1>12. k.unresolved = Cardinality(M \ (I \cup S))
  BY <1>1, <1>2, <1>6 DEF Counters
<1>13. k.unresolved_be = Cardinality(BestEffort(T, M \ (I \cup S)))
  BY <1>1, <1>2, <1>6 DEF Counters
<1>14. k.running = Cardinality(Busy(T)) /\ k.running_be = Cardinality(BestEffort(T, Busy(T)))
  BY DEF Counters, SameRunning
<1> QED
  BY <1>10, <1>11, <1>12, <1>13, <1>14 DEF Counters

\* What is counted is not negative.
LEMMA InGroup ==
  ASSUME NEW h \in Members, NEW T, NEW M \in SUBSET Pool, NEW I \in SUBSET Pool,
         Counters(h, T, M, I), h.max = 0 => h.max_be = 0
  PROVE  h \in Group
<1>1. /\ Busy(T) \in SUBSET Pool /\ BestEffort(T, Busy(T)) \in SUBSET Pool
      /\ BestEffort(T, I) \in SUBSET Pool /\ M \ I \in SUBSET Pool
      /\ BestEffort(T, M \ I) \in SUBSET Pool
  BY DEF Busy, BestEffort
<1>2. /\ h.running \in Nat /\ h.running_be \in Nat
      /\ h.unresolved \in Nat /\ h.unresolved_be \in Nat
  BY <1>1, PoolFinite DEF Counters
<1>3. h.max \in Nat /\ h.max_be \in Nat
  <2>1. CASE h.max = 0
    BY <2>1
  <2>2. CASE h.max # 0
    <3>1. Cardinality(I) \in Nat /\ Cardinality(BestEffort(T, I)) \in Nat
      BY <1>1, PoolFinite
    <3>2. /\ h.max = InitialMax + Cardinality(I)
          /\ h.max_be = InitialMaxBE + Cardinality(BestEffort(T, I))
      BY <2>2 DEF Counters
    <3> QED
      BY <3>1, <3>2, Limits
  <2> QED
    BY <2>1, <2>2
<1> QED
  BY <1>2, <1>3 DEF Members, Group

-----------------------------------------------------------------------------
(***************************************************************************)
(* Steps: what they leave alone.                                           *)
(***************************************************************************)
\* The actors are different.
LEMMA ActorFacts ==
  /\ Poster \in Actors /\ Main \in Actors /\ Service \in Actors
  /\ Poster \notin Pool /\ Main \notin Pool /\ Service \notin Pool
  /\ Poster # Main /\ Poster # Service /\ Main # Service
  /\ \A w \in Pool : w \in Actors /\ w # Main /\ w # Poster /\ w # Service
BY ActorsAssumption DEF Actors

\* A worker, or the main thread, goes on.
LEMMA PlaceWorker ==
  ASSUME NEW P, Places(P), NEW w \in Pool, NEW v \in WorkerPcs, NEW Q, Q = Moved(P, w, v)
  PROVE  /\ Places(Q) /\ Q[w] = v /\ Q[Main] = P[Main]
         /\ \A b \in Actors : b # w => Q[b] = P[b]
<1>1. Q \in [Actors -> Pcs] /\ Q[w] = v /\ \A b \in Actors : b # w => Q[b] = P[b]
  BY ActorFacts DEF Moved, Places, Pcs
<1>2. Q[Main] = P[Main] /\ Q[Poster] = P[Poster] /\ Q[Service] = P[Service]
  BY <1>1, ActorFacts
<1>3. \A u \in Pool : Q[u] \in WorkerPcs
  BY <1>1, ActorFacts DEF Places
<1> QED
  BY <1>1, <1>2, <1>3 DEF Places

\* The main thread goes on and nobody else moves.
LEMMA PlaceMain ==
  ASSUME NEW P \in [Actors -> Pcs], Places(P), NEW v \in {"start", "up", "updating"}, NEW Q,
         Q = [P EXCEPT ![Main] = v]
  PROVE  /\ Places(Q) /\ Q[Main] = v /\ \A b \in Actors : b # Main => Q[b] = P[b]
<1>1. Q \in [Actors -> Pcs] /\ Q[Main] = v /\ \A b \in Actors : b # Main => Q[b] = P[b]
  BY ActorFacts DEF Places, Pcs
<1>2. Q[Poster] = P[Poster] /\ Q[Service] = P[Service]
  BY <1>1, ActorFacts
<1>3. \A u \in Pool : Q[u] \in WorkerPcs
  BY <1>1, ActorFacts DEF Places
<1> QED
  BY <1>1, <1>2, <1>3 DEF Places

\* A worker that was started belongs to a group that was.
LEMMA Alive ==
  ASSUME IndInv, NEW w \in Pool, pc[w] # "none"
  PROVE  w \in g.created /\ g.max # 0 /\ pc[Main] # "start"
<1>1. w \in g.created
  BY DEF IndInv, Shape, Life, LifeOf
<1> QED
  BY <1>1 DEF IndInv, Control

\* The limits of a group that was started are positive.
LEMMA MaxPositive ==
  ASSUME NEW h, NEW T, NEW M, NEW I \in SUBSET Pool, Counters(h, T, M, I), h.max # 0
  PROVE  h.max \in Nat /\ h.max > 0
<1>1. h.max = InitialMax + Cardinality(I)
  BY DEF Counters
<1>2. Cardinality(I) \in Nat
  BY PoolFinite
<1> QED
  BY <1>1, <1>2, Limits

\* A worker whose task and place stay as they are.
KeepsTask(v) ==
  /\ pc'[v] = pc[v] /\ task'[v] = task[v] /\ scope'[v] = scope[v]
  /\ (v \in may_block' <=> v \in may_block) /\ (v \in incremented' <=> v \in incremented)
  /\ pc[v] = "upgrade" => exec'[v] = exec[v]

\* A worker whose variables keep their values keeps its part of Tasks.
LEMMA TaskKept ==
  ASSUME NEW v, TaskOf(v), KeepsTask(v)
  PROVE  TaskOf(v)'
BY DEF TaskOf, KeepsTask, Flushed

\* A step of an actor other than the main thread, once the group was started.
LEMMA ControlKept ==
  ASSUME Control, g.max # 0, g'.max # 0, pc'[Main] = pc[Main], exec'[Main] = exec[Main]
  PROVE  Control'
BY DEF Control, Flushed

\* An executor is assigned to.
LEMMA ExecFields ==
  ASSUME NEW X \in [Actors -> Executors], NEW a \in Actors, NEW f \in Executors, NEW Y,
         Y = [X EXCEPT ![a] = f]
  PROVE  /\ Y \in [Actors -> Executors] /\ Y[a] = f
         /\ \A b \in Actors : b # a => Y[b] = X[b]
OBVIOUS

\* A critical section that changed counters of the group to those of h, and then
\* calls EnsureEnoughWorkersLockRequired().
LEMMA Section ==
  ASSUME NEW n \in Nat, NEW a \in Actors, Flushed(a), NEW h,
         Core(h, exec, pc, event, n), NEW z \in EnsureEnoughWorkers([g |-> h, e |-> EmptyExecutor]),
         NEW Y, Y = [exec EXCEPT ![a] = z.e]
  PROVE  /\ Shape(z.g, Y, pc, event, n) /\ SameCounters(h, z.g) /\ z.e \in Executors
         /\ h.max = 0 => z = [g |-> h, e |-> EmptyExecutor]
         /\ Good(z)
         /\ z.e.start = <<>> => z.g.workers = h.workers /\ z.g.created = h.created
<1>1. PICK x : x = [g |-> h, e |-> EmptyExecutor]
  OBVIOUS
<1>2. Good(x) /\ x.g = h /\ x.e = EmptyExecutor
  BY <1>1, Begins DEF Core
<1>3. Outcome(x, z)
  BY <1>1, <1>2, EnsureOutcome
<1>4. exec[a] = EmptyExecutor
  BY DEF Flushed
<1>5. Shape(z.g, Y, pc, event, n)
  BY <1>2, <1>3, <1>4, EnsureShape
<1>6. z.e \in Executors /\ SameCounters(h, z.g) /\ Good(z)
  BY <1>2, <1>3 DEF Outcome, Growth, Good, Sections
<1>7. h.max = 0 => z = x
  BY <1>2, <1>3 DEF Outcome
<1>8. z.e.start = <<>> => z.g.workers = h.workers /\ z.g.created = h.created
  <2> SUFFICES ASSUME z.e.start = <<>>
               PROVE  z.g.workers = h.workers /\ z.g.created = h.created
    OBVIOUS
  <2>1. Elems(z.e.start) = {}
    BY DEF Elems
  <2>2. New(x, z) = {}
    BY <1>3, <2>1 DEF Outcome, Growth
  <2> QED
    BY <1>2, <1>3, <2>2 DEF Outcome, Growth, New
<1> QED
  BY <1>1, <1>5, <1>6, <1>7, <1>8

\* The shape without its threshold.
LEMMA ShapeCore ==
  ASSUME NEW h, NEW X, NEW P, NEW E, NEW n, Shape(h, X, P, E, n)
  PROVE  Core(h, X, P, E, n)
BY DEF Shape, Core

\* A step that does not touch the group.
LEMMA SameTasks ==
  ASSUME Tasks, \A v \in Pool : KeepsTask(v)
  PROVE  Tasks'
<1>1. ASSUME NEW v \in Pool PROVE TaskOf(v)'
  BY TaskKept DEF Tasks
<1> QED
  BY <1>1 DEF Tasks

-----------------------------------------------------------------------------
(***************************************************************************)
(* Steps: executors are flushed.                                           *)
(***************************************************************************)
\* The actor that flushes is not one whose executor must be empty.
LEMMA NotFlushed ==
  ASSUME IndInv, NEW a \in Actors, ~Flushed(a)
  PROVE  /\ \A w \in Pool : pc[w] = "upgrade" => w # a
         /\ pc[Main] \in {"start", "updating"} => a # Main
BY DEF IndInv, Tasks, TaskOf, Control

\* A worker is signaled.
LEMMA FlushWakeUpKeeps ==
  ASSUME IndInv, NEW a \in Actors, FlushWakeUp(a)
  PROVE  IndInv'
<1>0. /\ Typed /\ Control /\ Tasks /\ Counters(g, task, may_block, incremented)
      /\ Shape(g, exec, pc, event, adjust_tasks) /\ exec \in [Actors -> Executors]
  BY DEF IndInv, Shape
<1>1. /\ exec[a] \in Executors /\ exec[a].wake \in Seq(Pool) /\ exec[a].wake # <<>>
  BY <1>0 DEF Executors, FlushWakeUp
<1>2. /\ UNCHANGED <<g, policy, pc, taskVars, adjust_tasks, posts, blockings>>
      /\ event' = event \cup {Head(exec[a].wake)}
  BY DEF FlushWakeUp
<1>3. PICK w, r : w = Head(exec[a].wake) /\ r = Tail(exec[a].wake)
  OBVIOUS
<1>4. r \in Seq(Pool) /\ w \in Pool /\ Elems(exec[a].wake) = Elems(r) \cup {w}
  BY <1>1, <1>3, TailElems
<1>5. PICK f : f = [exec[a] EXCEPT !.wake = r]
  OBVIOUS
<1>6. f \in Executors /\ f.wake = r /\ f.start = exec[a].start /\ f.adjust = exec[a].adjust
  BY <1>1, <1>4, <1>5 DEF Executors
<1>7. exec' = [exec EXCEPT ![a] = f]
  BY <1>0, <1>3, <1>5 DEF FlushWakeUp
<1>8. exec' \in [Actors -> Executors] /\ exec'[a] = f /\ \A b \in Actors : b # a => exec'[b] = exec[b]
  BY <1>0, <1>6, <1>7, ExecFields
<1>9. ~Flushed(a)
  BY <1>1, EmptyFields DEF Flushed
<1>10. Typed'
  BY <1>0, <1>2, <1>3, <1>4 DEF Typed, taskVars
<1>11. Control'
  BY <1>0, <1>2, <1>8, <1>9, NotFlushed, ActorFacts DEF Control, Flushed
<1>12. Tasks'
  <2>1. \A v \in Pool : KeepsTask(v)
    BY <1>2, <1>8, <1>9, NotFlushed, ActorFacts DEF KeepsTask, taskVars
  <2> QED
    BY <1>0, <2>1, SameTasks
<1>13. Counters(g, task, may_block, incremented)'
  BY <1>0, <1>2 DEF taskVars
<1>14. Life(g, exec', pc, event')
  <2> SUFFICES ASSUME NEW v \in Pool PROVE LifeOf(v, g, exec', pc, event')
    BY DEF Life
  <2>1. LifeOf(v, g, exec, pc, event)
    BY <1>0 DEF Shape, Life
  <2>2. Waking(v, exec) => Waking(v, exec') \/ v \in event'
    <3> SUFFICES ASSUME NEW b \in Actors, v \in Elems(exec[b].wake)
                 PROVE  Waking(v, exec') \/ v \in event'
      BY DEF Waking
    <3>1. CASE b = a
      BY <1>2, <1>3, <1>4, <1>6, <1>8, <3>1 DEF Waking
    <3>2. CASE b # a
      BY <1>8, <3>2 DEF Waking
    <3> QED
      BY <3>1, <3>2
  <2> QED
    BY <1>2, <2>1, <2>2 DEF LifeOf
<1>15. Starts(g, exec', pc)
  <2>1. \A b \in Actors : exec'[b].start = exec[b].start
    BY <1>6, <1>8
  <2> QED
    BY <1>0, <2>1 DEF Shape, Starts, StartOf
<1>16. Adjusts(g, exec', adjust_tasks)
  <2>1. Adjusting(exec') = Adjusting(exec)
    BY <1>6, <1>8 DEF Adjusting
  <2> QED
    BY <1>0, <2>1 DEF Shape, Adjusts
<1>17. Shape(g, exec', pc, event', adjust_tasks)
  BY <1>0, <1>8, <1>14, <1>15, <1>16 DEF Shape
<1>18. Shape(g, exec, pc, event, adjust_tasks)'
  BY <1>2, <1>17
<1> QED
  BY <1>10, <1>11, <1>12, <1>13, <1>18 DEF IndInv

\* A new worker is started.
LEMMA FlushStartKeeps ==
  ASSUME IndInv, NEW a \in Actors, FlushStart(a)
  PROVE  IndInv'
<1>0. /\ Typed /\ Control /\ Tasks /\ Counters(g, task, may_block, incremented)
      /\ Shape(g, exec, pc, event, adjust_tasks) /\ exec \in [Actors -> Executors]
  BY DEF IndInv, Shape
<1>1. /\ exec[a] \in Executors /\ exec[a].start \in Seq(Pool) /\ exec[a].start # <<>>
  BY <1>0 DEF Executors, FlushStart
<1>2. /\ UNCHANGED <<g, policy, taskVars, event, adjust_tasks, posts, blockings>>
      /\ pc' = [pc EXCEPT ![Head(exec[a].start)] = "sleep"]
  BY DEF FlushStart
<1>3. PICK w, r : w = Head(exec[a].start) /\ r = Tail(exec[a].start)
  OBVIOUS
<1>4. /\ r \in Seq(Pool) /\ w \in Pool /\ Elems(exec[a].start) = Elems(r) \cup {w}
      /\ Distinct(exec[a].start) => Distinct(r) /\ w \notin Elems(r)
  BY <1>1, <1>3, TailElems
<1>5. Distinct(exec[a].start) /\ StartOf(w, a, g, exec, pc)
  BY <1>0, <1>4 DEF Shape, Starts
<1>6. PICK f : f = [exec[a] EXCEPT !.start = r]
  OBVIOUS
<1>7. f \in Executors /\ f.start = r /\ f.wake = exec[a].wake /\ f.adjust = exec[a].adjust
  BY <1>1, <1>4, <1>6 DEF Executors
<1>8. exec' = [exec EXCEPT ![a] = f]
  BY <1>0, <1>3, <1>6 DEF FlushStart
<1>9. exec' \in [Actors -> Executors] /\ exec'[a] = f /\ \A b \in Actors : b # a => exec'[b] = exec[b]
  BY <1>0, <1>7, <1>8, ExecFields
<1>10. ~Flushed(a)
  BY <1>1, EmptyFields DEF Flushed
<1>11. /\ Places(pc') /\ pc'[w] = "sleep" /\ pc'[Main] = pc[Main]
       /\ \A b \in Actors : b # w => pc'[b] = pc[b]
  <2>1. /\ Places(pc) /\ pc \in [Actors -> Pcs] /\ "sleep" \in WorkerPcs
        /\ pc' = Moved(pc, w, "sleep")
    BY <1>0, <1>2, <1>3 DEF Typed, Places, WorkerPcs, Moved
  <2>2. w \in Pool
    BY <1>4
  <2> QED
    BY <2>1, <2>2, PlaceWorker
<1>12. pc[w] = "none" /\ w \in g.created
  BY <1>5 DEF StartOf
<1>13. Typed'
  BY <1>0, <1>2, <1>11 DEF Typed, taskVars
<1>14. Control'
  BY <1>0, <1>2, <1>9, <1>10, <1>11, NotFlushed, ActorFacts DEF Control, Flushed
<1>15. Tasks'
  <2> SUFFICES ASSUME NEW v \in Pool PROVE TaskOf(v)'
    BY DEF Tasks
  <2>1. TaskOf(v)
    BY <1>0 DEF Tasks
  <2>2. CASE v = w
    BY <1>2, <1>11, <1>12, <2>1, <2>2 DEF TaskOf, taskVars
  <2>3. CASE v # w
    <3>1. KeepsTask(v)
      BY <1>2, <1>9, <1>10, <1>11, <2>3, NotFlushed, ActorFacts DEF KeepsTask, taskVars
    <3> QED
      BY <2>1, <3>1, TaskKept
  <2> QED
    BY <2>2, <2>3
<1>16. Counters(g, task, may_block, incremented)'
  BY <1>0, <1>2 DEF taskVars
<1>17. Life(g, exec', pc', event)
  <2> SUFFICES ASSUME NEW v \in Pool PROVE LifeOf(v, g, exec', pc', event)
    BY DEF Life
  <2>1. LifeOf(v, g, exec, pc, event)
    BY <1>0 DEF Shape, Life
  <2>2. Waking(v, exec) => Waking(v, exec')
    <3>1. \A b \in Actors : exec'[b].wake = exec[b].wake
      BY <1>7, <1>9
    <3> QED
      BY <3>1 DEF Waking
  <2>3. CASE v = w
    BY <1>11, <1>12, <2>1, <2>2, <2>3 DEF LifeOf
  <2>4. CASE v # w
    <3>1. pc'[v] = pc[v]
      BY <1>11, <2>4, ActorFacts
    <3> QED
      BY <2>1, <2>2, <3>1 DEF LifeOf
  <2> QED
    BY <2>3, <2>4
<1>18. Starts(g, exec', pc')
  <2>1. \A b \in Actors : Elems(exec'[b].start) \subseteq Elems(exec[b].start)
    BY <1>4, <1>7, <1>9
  <2>2. \A b \in Actors : Distinct(exec'[b].start)
    BY <1>0, <1>4, <1>5, <1>7, <1>9 DEF Shape, Starts
  <2>3. ASSUME NEW b \in Actors, NEW v \in Elems(exec'[b].start)
        PROVE  StartOf(v, b, g, exec', pc')
    <3>1. v \in Elems(exec[b].start) /\ StartOf(v, b, g, exec, pc)
      BY <1>0, <2>1 DEF Shape, Starts
    <3>2. v # w
      <4>1. CASE b = a
        BY <1>4, <1>5, <1>7, <1>9, <4>1
      <4>2. CASE b # a
        BY <1>5, <3>1, <4>2 DEF StartOf
      <4> QED
        BY <4>1, <4>2
    <3>3. v \in Actors
      BY <1>0, <3>1, ActorFacts DEF Shape, Members, StartOf
    <3> QED
      BY <1>11, <2>1, <3>1, <3>2, <3>3 DEF StartOf
  <2> QED
    BY <2>2, <2>3 DEF Starts
<1>19. Adjusts(g, exec', adjust_tasks)
  <2>1. Adjusting(exec') = Adjusting(exec)
    BY <1>7, <1>9 DEF Adjusting
  <2> QED
    BY <1>0, <2>1 DEF Shape, Adjusts
<1>20. Shape(g, exec', pc', event, adjust_tasks)
  BY <1>0, <1>9, <1>17, <1>18, <1>19 DEF Shape
<1>21. Shape(g, exec, pc, event, adjust_tasks)'
  BY <1>2, <1>20
<1> QED
  BY <1>13, <1>14, <1>15, <1>16, <1>21 DEF IndInv

\* AdjustMaxTasks() is posted to the service thread.
LEMMA ScheduleKeeps ==
  ASSUME IndInv, NEW a \in Actors, ScheduleAdjustMaxTasks(a)
  PROVE  IndInv'
<1>0. /\ Typed /\ Control /\ Tasks /\ Counters(g, task, may_block, incremented)
      /\ Shape(g, exec, pc, event, adjust_tasks) /\ exec \in [Actors -> Executors]
      /\ adjust_tasks \in Nat
  BY DEF IndInv, Shape, Typed
<1>1. exec[a] \in Executors /\ exec[a].adjust
  BY <1>0 DEF ScheduleAdjustMaxTasks
<1>2. /\ UNCHANGED <<g, policy, pc, taskVars, event, posts, blockings>>
      /\ adjust_tasks' = adjust_tasks + 1
  BY DEF ScheduleAdjustMaxTasks
<1>3. PICK f : f = [exec[a] EXCEPT !.adjust = FALSE]
  OBVIOUS
<1>4. f \in Executors /\ f.wake = exec[a].wake /\ f.start = exec[a].start /\ f.adjust = FALSE
  BY <1>1, <1>3 DEF Executors
<1>5. exec' = [exec EXCEPT ![a] = f]
  BY <1>0, <1>3 DEF ScheduleAdjustMaxTasks
<1>6. exec' \in [Actors -> Executors] /\ exec'[a] = f /\ \A b \in Actors : b # a => exec'[b] = exec[b]
  BY <1>0, <1>4, <1>5, ExecFields
<1>7. ~Flushed(a)
  BY <1>1, EmptyFields DEF Flushed
<1>8. Typed'
  BY <1>0, <1>2 DEF Typed, taskVars
<1>9. Control'
  BY <1>0, <1>2, <1>6, <1>7, NotFlushed, ActorFacts DEF Control, Flushed
<1>10. Tasks'
  <2>1. \A v \in Pool : KeepsTask(v)
    BY <1>2, <1>6, <1>7, NotFlushed, ActorFacts DEF KeepsTask, taskVars
  <2> QED
    BY <1>0, <2>1, SameTasks
<1>11. Counters(g, task, may_block, incremented)'
  BY <1>0, <1>2 DEF taskVars
<1>12. \A b \in Actors : exec'[b].wake = exec[b].wake /\ exec'[b].start = exec[b].start
  BY <1>4, <1>6
<1>13. Life(g, exec', pc, event)
  BY <1>0, <1>12 DEF Shape, Life, LifeOf, Waking
<1>14. Starts(g, exec', pc)
  BY <1>0, <1>12 DEF Shape, Starts, StartOf
<1>15. Adjusts(g, exec', adjust_tasks + 1)
  <2>1. Adjusting(exec') = Adjusting(exec) \ {a} /\ a \in Adjusting(exec)
    BY <1>1, <1>4, <1>6 DEF Adjusting
  <2>2. IsFiniteSet(Adjusting(exec)) /\ Cardinality(Adjusting(exec)) \in Nat
    <3>1. Adjusting(exec) \in SUBSET Actors
      BY DEF Adjusting
    <3> QED
      BY <3>1, ActorsFinite
  <2>3. Cardinality(Adjusting(exec')) = Cardinality(Adjusting(exec)) - 1
    BY <2>1, <2>2, FS_RemoveElement
  <2>4. adjust_tasks + 1 + Cardinality(Adjusting(exec')) = adjust_tasks + Cardinality(Adjusting(exec))
    BY <1>0, <2>2, <2>3
  <2> QED
    BY <1>0, <2>4 DEF Shape, Adjusts
<1>16. Shape(g, exec', pc, event, adjust_tasks + 1)
  BY <1>0, <1>6, <1>13, <1>14, <1>15 DEF Shape
<1>17. Shape(g, exec, pc, event, adjust_tasks)'
  BY <1>2, <1>16
<1> QED
  BY <1>8, <1>9, <1>10, <1>11, <1>17 DEF IndInv

-----------------------------------------------------------------------------
(***************************************************************************)
(* Steps: the other threads.                                               *)
(***************************************************************************)
\* A critical section as the actions write it.
LEMMA FreshWith ==
  ASSUME NEW k
  PROVE  /\ [Fresh EXCEPT !.g = k] = [g |-> k, e |-> EmptyExecutor]
         /\ Fresh = [g |-> g, e |-> EmptyExecutor] /\ Fresh.g = g
BY DEF Fresh

\* Push() in a fresh critical section.
LEMMA PushWith ==
  ASSUME NEW k \in Members, NEW p \in Priorities
  PROVE  Push([g |-> k, e |-> EmptyExecutor], p) = [g |-> Pushed(k, p), e |-> EmptyExecutor]
BY DEF Push, Pushed

\* Before Start() nobody works.
LEMMA NotStarted ==
  ASSUME IndInv, g.max = 0
  PROVE  may_block = {} /\ incremented = {}
<1>1. \A w \in Pool : pc[w] = "none"
  BY DEF IndInv, Control, Shape, Life, LifeOf
<1>2. \A w \in Pool : scope[w] = "none"
  BY <1>1 DEF IndInv, Tasks, TaskOf
<1>3. \A w \in Pool : w \notin may_block /\ w \notin incremented
  BY <1>2 DEF IndInv, Tasks, TaskOf
<1> QED
  BY <1>3 DEF IndInv, Typed

\* Start().
LEMMA StartKeeps ==
  ASSUME IndInv, Start
  PROVE  IndInv'
<1>0. /\ Typed /\ Control /\ Tasks /\ Counters(g, task, may_block, incremented)
      /\ Shape(g, exec, pc, event, adjust_tasks) /\ exec \in [Actors -> Executors]
      /\ adjust_tasks \in Nat /\ g \in Members
  BY DEF IndInv, Shape, Typed
<1>1. /\ UNCHANGED <<policy, taskVars, event, adjust_tasks, posts, blockings>>
      /\ pc[Main] = "start" /\ pc' = [pc EXCEPT ![Main] = "up"]
  BY DEF Start
<1>2. PICK h : h = WithLimits(g, InitialMax, InitialMaxBE)
  OBVIOUS
<1>3. /\ h \in Members /\ h.max = InitialMax /\ h.max_be = InitialMaxBE /\ h.queue = g.queue
      /\ SameRunning(g, h) /\ SameUnresolved(g, h) /\ SameStack(g, h) /\ SameFlags(g, h)
  BY <1>0, <1>2, Limits, SetLimits
<1>4. PICK z \in EnsureEnoughWorkers([g |-> h, e |-> EmptyExecutor]) :
        g' = z.g /\ exec' = [exec EXCEPT ![Main] = z.e]
  <2>1. [Fresh EXCEPT !.g = [@ EXCEPT !.max = InitialMax, !.max_be = InitialMaxBE]]
          = [g |-> h, e |-> EmptyExecutor]
    BY <1>2 DEF Fresh, WithLimits
  <2> QED
    BY <2>1 DEF Start, Leave
<1>5. Core(h, exec, pc, event, adjust_tasks)
  <2>1. Core(g, exec, pc, event, adjust_tasks)
    BY <1>0, ShapeCore
  <2> QED
    BY <1>3, <2>1, CoreSame DEF SameFlags
<1>6. Flushed(Main) /\ g.max = 0
  BY <1>0, <1>1 DEF Control
<1>7. Shape(g', exec', pc, event, adjust_tasks) /\ SameCounters(h, g')
  BY <1>0, <1>4, <1>5, <1>6, ActorFacts, Section
<1>8. Places(pc') /\ pc'[Main] = "up" /\ \A b \in Actors : b # Main => pc'[b] = pc[b]
  <2>1. Places(pc) /\ "up" \in {"start", "up", "updating"} /\ pc \in [Actors -> Pcs]
    BY <1>0 DEF Typed, Places
  <2> QED
    BY <1>1, <2>1, PlaceMain
<1>9. Shape(g', exec', pc', event, adjust_tasks)
  <2>1. pc \in [Actors -> Pcs]
    BY <1>0 DEF Typed, Places
  <2> QED
    BY <1>1, <1>7, <2>1, ActorFacts, PlaceShape
<1>10. Shape(g, exec, pc, event, adjust_tasks)'
  BY <1>1, <1>9
<1>11. Counters(h, task, may_block, incremented)
  <2>1. may_block = {} /\ incremented = {} /\ Cardinality({}) = 0
    BY <1>6, NotStarted, FS_EmptySet
  <2>2. BestEffort(task, incremented) = {}
    BY <2>1 DEF BestEffort
  <2>3. InitialMax = InitialMax + 0 /\ InitialMaxBE = InitialMaxBE + 0
    BY Limits
  <2> QED
    BY <1>0, <1>3, <2>1, <2>2, <2>3 DEF Counters, SameRunning, SameUnresolved
<1>12. Counters(g', task, may_block, incremented)
  BY <1>7, <1>11, CountersSame DEF SameCounters
<1>13. Counters(g, task, may_block, incremented)'
  BY <1>1, <1>12 DEF taskVars
<1>14. Typed'
  BY <1>0, <1>1, <1>8 DEF Typed, taskVars
<1>15. Control'
  <2>1. g'.max # 0
    BY <1>3, <1>7, Limits DEF SameCounters, SameLimits
  <2> QED
    BY <1>8, <2>1 DEF Control
<1>16. Tasks'
  <2>1. \A v \in Pool : exec'[v] = exec[v]
    BY <1>0, <1>4, ActorFacts
  <2>2. \A v \in Pool : KeepsTask(v)
    BY <1>1, <1>8, <2>1, ActorFacts DEF KeepsTask, taskVars
  <2> QED
    BY <1>0, <2>2, SameTasks
<1> QED
  BY <1>10, <1>13, <1>14, <1>15, <1>16 DEF IndInv

\* The poster changes the queue and calls EnsureEnoughWorkersLockRequired().
LEMMA EnqueueKeeps ==
  ASSUME IndInv, Flushed(Poster), posts' \in [Priorities -> Nat],
         UNCHANGED <<policy, pc, taskVars, event, adjust_tasks, blockings>>,
         NEW h \in Members, SameStack(g, h), SameFlags(g, h),
         SameLimits(g, h), SameRunning(g, h), SameUnresolved(g, h),
         NEW z \in EnsureEnoughWorkers([g |-> h, e |-> EmptyExecutor]),
         g' = z.g, exec' = [exec EXCEPT ![Poster] = z.e]
  PROVE  IndInv'
<1>0. /\ Typed /\ Control /\ Tasks /\ Counters(g, task, may_block, incremented)
      /\ Shape(g, exec, pc, event, adjust_tasks) /\ exec \in [Actors -> Executors]
      /\ adjust_tasks \in Nat /\ g \in Members
  BY DEF IndInv, Shape, Typed
<1>1. UNCHANGED <<policy, pc, taskVars, event, adjust_tasks, blockings>> /\ Flushed(Poster)
  OBVIOUS
<1>3. /\ h \in Members /\ SameStack(g, h) /\ SameFlags(g, h)
      /\ SameLimits(g, h) /\ SameRunning(g, h) /\ SameUnresolved(g, h)
  OBVIOUS
<1>4. /\ z \in EnsureEnoughWorkers([g |-> h, e |-> EmptyExecutor])
      /\ g' = z.g /\ exec' = [exec EXCEPT ![Poster] = z.e]
  OBVIOUS
<1>5. Core(h, exec, pc, event, adjust_tasks)
  <2>1. Core(g, exec, pc, event, adjust_tasks)
    BY <1>0, ShapeCore
  <2> QED
    BY <1>3, <2>1, CoreSame DEF SameFlags
<1>6. /\ Shape(g', exec', pc, event, adjust_tasks) /\ SameCounters(h, g')
      /\ h.max = 0 => z = [g |-> h, e |-> EmptyExecutor]
  <2>1. adjust_tasks \in Nat /\ Poster \in Actors
    BY <1>0, ActorFacts
  <2>2. PICK Y : Y = [exec EXCEPT ![Poster] = z.e]
    OBVIOUS
  <2>3. /\ Shape(z.g, Y, pc, event, adjust_tasks) /\ SameCounters(h, z.g)
        /\ h.max = 0 => z = [g |-> h, e |-> EmptyExecutor]
    BY <1>1, <1>4, <1>5, <2>1, <2>2, Section
  <2> QED
    BY <1>4, <2>2, <2>3
<1>7. Shape(g, exec, pc, event, adjust_tasks)'
  BY <1>1, <1>6
<1>8. Counters(g', task, may_block, incremented)
  <2>1. Counters(h, task, may_block, incremented)
    BY <1>0, <1>3, CountersSame
  <2> QED
    BY <1>6, <2>1, CountersSame DEF SameCounters
<1>9. Counters(g, task, may_block, incremented)'
  BY <1>1, <1>8 DEF taskVars
<1>10. Typed'
  BY <1>0, <1>1 DEF Typed, taskVars
<1>11. \A a \in Actors : a # Poster => exec'[a] = exec[a]
  BY <1>0, <1>4
<1>12. Control'
  <2>1. g'.max = g.max /\ g'.max_be = g.max_be
    BY <1>3, <1>6 DEF SameCounters, SameLimits
  <2>2. g.max = 0 => g'.created = g.created
    <3> SUFFICES ASSUME g.max = 0 PROVE g'.created = g.created
      OBVIOUS
    <3>1. z = [g |-> h, e |-> EmptyExecutor]
      BY <1>3, <1>6 DEF SameLimits
    <3>2. z.g = h
      BY <3>1
    <3> QED
      BY <1>3, <1>4, <3>2 DEF SameStack
  <2>3. exec'[Main] = exec[Main]
    BY <1>11, ActorFacts
  <2> QED
    BY <1>0, <1>1, <2>1, <2>2, <2>3 DEF Control, Flushed
<1>13. Tasks'
  <2>1. \A v \in Pool : KeepsTask(v)
    BY <1>1, <1>11, ActorFacts DEF KeepsTask, taskVars
  <2> QED
    BY <1>0, <2>1, SameTasks
<1> QED
  BY <1>7, <1>9, <1>10, <1>12, <1>13 DEF IndInv

\* A task source is pushed.
LEMMA PushKeeps ==
  ASSUME IndInv, NEW p \in Priorities, PushTaskSourceAndWakeUpWorkers(p)
  PROVE  IndInv'
<1>0. g \in Members /\ posts \in [Priorities -> Nat]
  BY DEF IndInv, Shape, Typed
<1>1. /\ UNCHANGED <<policy, pc, taskVars, event, adjust_tasks, blockings>>
      /\ posts' = [posts EXCEPT ![p] = @ + 1] /\ Flushed(Poster)
  BY DEF PushTaskSourceAndWakeUpWorkers
<1>2. PICK h : h = Pushed(g, p)
  OBVIOUS
<1>3. /\ h \in Members /\ SameStack(g, h) /\ SameFlags(g, h)
      /\ SameLimits(g, h) /\ SameRunning(g, h) /\ SameUnresolved(g, h)
  BY <1>0, <1>2, PushedFields
<1>4. PICK z \in EnsureEnoughWorkers([g |-> h, e |-> EmptyExecutor]) :
        g' = z.g /\ exec' = [exec EXCEPT ![Poster] = z.e]
  <2>1. Push(Fresh, p) = [g |-> h, e |-> EmptyExecutor]
    BY <1>0, <1>2, FreshWith, PushWith
  <2> QED
    BY <2>1 DEF PushTaskSourceAndWakeUpWorkers, Leave
<1>5. posts' \in [Priorities -> Nat]
  BY <1>0, <1>1
<1> QED
  BY <1>1, <1>3, <1>4, <1>5, EnqueueKeeps

\* The members after a source of priority p got another priority.
LEMMA MovedFields ==
  ASSUME NEW h \in Members, NEW p \in Priorities, NEW q \in Priorities, q # p, h.queue[p] > 0,
         NEW k, k = [h EXCEPT !.queue[p] = @ - 1, !.queue[q] = @ + 1]
  PROVE  /\ k \in Members /\ SameStack(h, k) /\ SameFlags(h, k)
         /\ SameLimits(h, k) /\ SameRunning(h, k) /\ SameUnresolved(h, k)
<1>1. PICK f : f = [h.queue EXCEPT ![p] = @ - 1, ![q] = @ + 1]
  OBVIOUS
<1>2. f \in [Priorities -> Nat]
  BY <1>1 DEF Members
<1>3. k = WithQueue(h, f)
  BY <1>1 DEF WithQueue, Members
<1> QED
  BY <1>2, <1>3, SetQueue

\* There is another priority.
LEMMA OtherPriority ==
  ASSUME NEW p \in Priorities
  PROVE  /\ (CHOOSE q \in Priorities : q # p) \in Priorities
         /\ (CHOOSE q \in Priorities : q # p) # p
<1>1. \E q \in Priorities : q # p
  BY DEF Priorities
<1> QED
  BY <1>1

\* The sort key of a queued source is updated.
LEMMA SortKeyKeeps ==
  ASSUME IndInv, NEW p \in Priorities, UpdateSortKey(p)
  PROVE  IndInv'
<1>0. g \in Members /\ posts \in [Priorities -> Nat]
  BY DEF IndInv, Shape, Typed
<1>1. PICK q : q = CHOOSE r \in Priorities : r # p
  OBVIOUS
<1>2. q \in Priorities /\ q # p
  BY <1>1, OtherPriority
<1>3. PICK h : h = [g EXCEPT !.queue[p] = @ - 1, !.queue[q] = @ + 1]
  OBVIOUS
<1>4. /\ UNCHANGED <<policy, pc, taskVars, event, adjust_tasks, blockings>>
      /\ posts' = [posts EXCEPT ![q] = @ + 1] /\ Flushed(Poster) /\ g.queue[p] > 0
      /\ Leave(Poster, EnsureEnoughWorkers([Fresh EXCEPT !.g = h]))
  BY <1>1, <1>3 DEF UpdateSortKey
<1>5. /\ h \in Members /\ SameStack(g, h) /\ SameFlags(g, h)
      /\ SameLimits(g, h) /\ SameRunning(g, h) /\ SameUnresolved(g, h)
  BY <1>0, <1>2, <1>3, <1>4, MovedFields
<1>6. PICK z \in EnsureEnoughWorkers([g |-> h, e |-> EmptyExecutor]) :
        g' = z.g /\ exec' = [exec EXCEPT ![Poster] = z.e]
  BY <1>4, FreshWith DEF Leave
<1>7. posts' \in [Priorities -> Nat]
  BY <1>0, <1>2, <1>4
<1> QED
  BY <1>4, <1>5, <1>6, <1>7, EnqueueKeeps

\* When best-effort jobs must yield.
LEMMA MinIsForeground ==
  ASSUME NEW h \in Members
  PROVE  MinOf(h) = "FG" <=> h.queue["FG"] > 0 /\ h.running >= h.max
BY DEF MinOf, TopPriority, QueueEmpty, Members, Priorities

\* A source leaves the queue: the threshold is updated by nobody and is not too low.
LEMMA RemoveKeeps ==
  ASSUME IndInv, NEW p \in Priorities, RemoveTaskSource(p)
  PROVE  IndInv'
<1>0. /\ Typed /\ Control /\ Tasks /\ Counters(g, task, may_block, incremented)
      /\ Shape(g, exec, pc, event, adjust_tasks) /\ g \in Members
  BY DEF IndInv, Shape
<1>1. /\ UNCHANGED <<policy, exec, pc, taskVars, event, adjust_tasks, posts, blockings>>
      /\ g.queue[p] > 0 /\ g' = Popped(g, p)
  BY DEF RemoveTaskSource, Popped
<1>2. /\ g' \in Members /\ SameStack(g, g') /\ SameFlags(g, g')
      /\ SameLimits(g, g') /\ SameRunning(g, g') /\ SameUnresolved(g, g')
  BY <1>0, <1>1, PoppedFields
<1>3. g'.queue["FG"] <= g.queue["FG"] /\ g'.queue["FG"] \in Nat /\ g.queue["FG"] \in Nat
  BY <1>0, <1>1, <1>2 DEF Popped, Members, Priorities
<1>4. Threshold(g')
  <2>1. MinOf(g') = "FG" => MinOf(g) = "FG"
    BY <1>0, <1>2, <1>3, MinIsForeground DEF SameLimits, SameRunning
  <2> QED
    BY <1>0, <1>2, <2>1 DEF Threshold, Shape, SameLimits, SameFlags
<1>5. Core(g', exec, pc, event, adjust_tasks)
  <2>1. Core(g, exec, pc, event, adjust_tasks)
    BY <1>0, ShapeCore
  <2> QED
    BY <1>2, <2>1, CoreSame DEF SameFlags
<1>6. Shape(g', exec, pc, event, adjust_tasks)
  BY <1>2, <1>4, <1>5 DEF Core, Shape
<1>7. Shape(g, exec, pc, event, adjust_tasks)'
  BY <1>1, <1>6
<1>8. Counters(g', task, may_block, incremented)
  BY <1>0, <1>2, CountersSame
<1>9. Counters(g, task, may_block, incremented)'
  BY <1>1, <1>8 DEF taskVars
<1>10. Typed'
  BY <1>0, <1>1 DEF Typed, taskVars
<1>11. Control'
  BY <1>0, <1>1, <1>2 DEF Control, Flushed, SameLimits, SameStack
<1>12. Tasks'
  <2>1. \A v \in Pool : KeepsTask(v)
    BY <1>1 DEF KeepsTask, taskVars
  <2> QED
    BY <1>0, <2>1, SameTasks
<1> QED
  BY <1>7, <1>9, <1>10, <1>11, <1>12 DEF IndInv

\* TaskTracker::SetCanRunPolicy().
LEMMA SetPolicyKeeps ==
  ASSUME IndInv, SetCanRunPolicy
  PROVE  IndInv'
<1>0. /\ Typed /\ Control /\ Tasks /\ Counters(g, task, may_block, incremented)
      /\ Shape(g, exec, pc, event, adjust_tasks)
  BY DEF IndInv
<1>1. /\ UNCHANGED <<g, exec, taskVars, event, adjust_tasks, posts, blockings>>
      /\ pc[Main] = "up" /\ Flushed(Main) /\ pc' = [pc EXCEPT ![Main] = "updating"]
      /\ policy < Len(Policies) /\ policy' = policy + 1
  BY DEF SetCanRunPolicy
<1>2. Places(pc') /\ pc'[Main] = "updating" /\ \A b \in Actors : b # Main => pc'[b] = pc[b]
  <2>1. Places(pc) /\ "updating" \in {"start", "up", "updating"} /\ pc \in [Actors -> Pcs]
    BY <1>0 DEF Typed, Places
  <2> QED
    BY <1>1, <2>1, PlaceMain
<1>3. Shape(g, exec, pc', event, adjust_tasks)
  <2>1. pc \in [Actors -> Pcs]
    BY <1>0 DEF Typed, Places
  <2> QED
    BY <1>0, <1>1, <2>1, ActorFacts, PlaceShape
<1>4. Shape(g, exec, pc, event, adjust_tasks)'
  BY <1>1, <1>3
<1>5. Counters(g, task, may_block, incremented)'
  BY <1>0, <1>1 DEF taskVars
<1>6. Typed'
  <2>1. policy' \in 1..Len(Policies)
    BY <1>0, <1>1, LimitsAssumption DEF Typed
  <2> QED
    BY <1>0, <1>1, <1>2, <2>1 DEF Typed, taskVars
<1>7. Control'
  BY <1>0, <1>1, <1>2 DEF Control, Flushed
<1>8. Tasks'
  <2>1. \A v \in Pool : KeepsTask(v)
    BY <1>1, <1>2, ActorFacts DEF KeepsTask, taskVars
  <2> QED
    BY <1>0, <2>1, SameTasks
<1> QED
  BY <1>4, <1>5, <1>6, <1>7, <1>8 DEF IndInv

\* DidUpdateCanRunPolicy().
LEMMA DidUpdateKeeps ==
  ASSUME IndInv, DidUpdateCanRunPolicy
  PROVE  IndInv'
<1>0. /\ Typed /\ Control /\ Tasks /\ Counters(g, task, may_block, incremented)
      /\ Shape(g, exec, pc, event, adjust_tasks) /\ exec \in [Actors -> Executors]
      /\ adjust_tasks \in Nat /\ g \in Members
  BY DEF IndInv, Shape, Typed
<1>1. /\ UNCHANGED <<policy, taskVars, event, adjust_tasks, posts, blockings>>
      /\ pc[Main] = "updating" /\ pc' = [pc EXCEPT ![Main] = "up"]
  BY DEF DidUpdateCanRunPolicy
<1>2. PICK z \in EnsureEnoughWorkers([g |-> g, e |-> EmptyExecutor]) :
        g' = z.g /\ exec' = [exec EXCEPT ![Main] = z.e]
  BY FreshWith DEF DidUpdateCanRunPolicy, Leave
<1>3. Core(g, exec, pc, event, adjust_tasks)
  BY <1>0, ShapeCore
<1>4. Flushed(Main) /\ g.max # 0
  BY <1>0, <1>1 DEF Control
<1>5. Shape(g', exec', pc, event, adjust_tasks) /\ SameCounters(g, g')
  BY <1>0, <1>2, <1>3, <1>4, ActorFacts, Section
<1>6. Places(pc') /\ pc'[Main] = "up" /\ \A b \in Actors : b # Main => pc'[b] = pc[b]
  <2>1. Places(pc) /\ "up" \in {"start", "up", "updating"} /\ pc \in [Actors -> Pcs]
    BY <1>0 DEF Typed, Places
  <2> QED
    BY <1>1, <2>1, PlaceMain
<1>7. Shape(g', exec', pc', event, adjust_tasks)
  <2>1. pc \in [Actors -> Pcs]
    BY <1>0 DEF Typed, Places
  <2> QED
    BY <1>1, <1>5, <2>1, ActorFacts, PlaceShape
<1>8. Shape(g, exec, pc, event, adjust_tasks)'
  BY <1>1, <1>7
<1>9. Counters(g', task, may_block, incremented)
  BY <1>0, <1>5, CountersSame DEF SameCounters
<1>10. Counters(g, task, may_block, incremented)'
  BY <1>1, <1>9 DEF taskVars
<1>11. Typed'
  BY <1>0, <1>1, <1>6 DEF Typed, taskVars
<1>12. Control'
  BY <1>4, <1>5, <1>6 DEF Control, SameCounters, SameLimits
<1>13. Tasks'
  <2>1. \A v \in Pool : exec'[v] = exec[v]
    BY <1>0, <1>2, ActorFacts
  <2>2. \A v \in Pool : KeepsTask(v)
    BY <1>1, <1>6, <2>1, ActorFacts DEF KeepsTask, taskVars
  <2> QED
    BY <1>0, <2>2, SameTasks
<1> QED
  BY <1>8, <1>10, <1>11, <1>12, <1>13 DEF IndInv

\* The limits that AdjustMaxTasks() sets.
WithBoth(h, a, b, c, d) ==
  [h EXCEPT !.max = a, !.max_be = b, !.unresolved = c, !.unresolved_be = d]

\* The limits and the unresolved MAY_BLOCKs change and nothing else.
LEMMA SetBoth ==
  ASSUME NEW h \in Members, NEW a \in Int, NEW b \in Int, NEW c \in Int, NEW d \in Int, NEW k,
         k = WithBoth(h, a, b, c, d)
  PROVE  /\ k \in Members /\ k.max = a /\ k.max_be = b /\ k.unresolved = c
         /\ k.unresolved_be = d /\ k.queue = h.queue
         /\ SameRunning(h, k) /\ SameStack(h, k) /\ SameFlags(h, k)
BY DEF WithBoth, Members, SameRunning, SameStack, SameFlags

\* What AdjustMaxTasks() does to the members for the workers S.
LEMMA ResolvedFields ==
  ASSUME NEW h \in Members, NEW S \in SUBSET Pool, NEW n, n = Cardinality(S),
         NEW m, m = Cardinality(BestEffort(task, S))
  PROVE  LET k == Resolved(h, S) IN
         /\ k \in Members /\ k.adjust_posted = h.adjust_posted
         /\ SameStack(h, k) /\ SameRunning(h, k)
         /\ k.max = h.max + n /\ k.max_be = h.max_be + m
         /\ k.unresolved = h.unresolved - n /\ k.unresolved_be = h.unresolved_be - m
<1>1. BestEffort(task, S) \in SUBSET Pool
  BY DEF BestEffort
<1>2. n \in Nat /\ m \in Nat
  BY <1>1, PoolFinite
<1>3. /\ h.max \in Int /\ h.max_be \in Int /\ h.unresolved \in Int /\ h.unresolved_be \in Int
  BY DEF Members
<1>4. PICK a \in Int, b \in Int, c \in Int, d \in Int :
        a = h.max + n /\ b = h.max_be + m /\ c = h.unresolved - n /\ d = h.unresolved_be - m
  BY <1>2, <1>3
<1>5. PICK i : i = WithBoth(h, a, b, c, d)
  OBVIOUS
<1>6. /\ i \in Members /\ i.max = a /\ i.max_be = b /\ i.unresolved = c
      /\ i.unresolved_be = d /\ i.queue = h.queue
      /\ SameRunning(h, i) /\ SameStack(h, i) /\ SameFlags(h, i)
  BY <1>5, SetBoth
<1>7. PICK k : k = UpdateMinAllowedPriority(i)
  OBVIOUS
<1>8. /\ k \in Members /\ k.adjust_posted = i.adjust_posted
      /\ SameCounters(i, k) /\ SameStack(i, k)
  BY <1>6, <1>7, UpdateFields
<1>9. Resolved(h, S) = k
  <2>1. Resolved(h, S) = UpdateMinAllowedPriority(WithBoth(h, h.max + n, h.max_be + m,
                                                    h.unresolved - n, h.unresolved_be - m))
    BY DEF Resolved, WithBoth, BestEffort
  <2> QED
    BY <1>4, <1>5, <1>7, <2>1
<1> QED
  BY <1>4, <1>6, <1>8, <1>9
     DEF SameCounters, SameStack, SameLimits, SameRunning, SameUnresolved, SameFlags

\* AdjustMaxTasks().
LEMMA AdjustKeeps ==
  ASSUME IndInv, AdjustMaxTasks
  PROVE  IndInv'
<1>0. /\ Typed /\ Control /\ Tasks /\ Counters(g, task, may_block, incremented)
      /\ Shape(g, exec, pc, event, adjust_tasks) /\ exec \in [Actors -> Executors]
      /\ adjust_tasks \in Nat /\ g \in Members
      /\ may_block \in SUBSET Pool /\ incremented \in SUBSET Pool /\ aged \in SUBSET may_block
  BY DEF IndInv, Shape, Typed
<1>1. /\ UNCHANGED <<policy, pc, task, scope, may_block, aged, event, posts, blockings>>
      /\ adjust_tasks > 0 /\ adjust_tasks' = adjust_tasks - 1 /\ Flushed(Service)
      /\ incremented' = incremented \cup MustIncrement
  BY DEF AdjustMaxTasks
<1>2. PICK S \in SUBSET (may_block \ incremented) : S = MustIncrement /\ S \in SUBSET Pool
  BY <1>0 DEF MustIncrement
<1>3. PICK i : i = [g EXCEPT !.adjust_posted = FALSE]
  OBVIOUS
<1>4. i \in Members /\ i.adjust_posted = FALSE /\ SameCounters(g, i) /\ SameStack(g, i)
  BY <1>0, <1>3, SetFlags
<1>5. PICK h : h = Resolved(i, S)
  OBVIOUS
<1>6. PICK n, m : n = Cardinality(S) /\ m = Cardinality(BestEffort(task, S))
  OBVIOUS
<1>7. /\ h \in Members /\ h.adjust_posted = FALSE /\ SameStack(i, h) /\ SameRunning(i, h)
      /\ h.max = i.max + n /\ h.max_be = i.max_be + m
      /\ h.unresolved = i.unresolved - n /\ h.unresolved_be = i.unresolved_be - m
  BY <1>2, <1>4, <1>5, <1>6, ResolvedFields
<1>8. PICK z \in EnsureEnoughWorkers([g |-> h, e |-> EmptyExecutor]) :
        g' = z.g /\ exec' = [exec EXCEPT ![Service] = z.e]
  <2>1. [Fresh EXCEPT !.g = Resolved([@ EXCEPT !.adjust_posted = FALSE], MustIncrement)]
          = [g |-> h, e |-> EmptyExecutor]
    <3>1. Fresh.g = g /\ Resolved([g EXCEPT !.adjust_posted = FALSE], MustIncrement) = h
      BY <1>2, <1>3, <1>5, FreshWith
    <3>2. [Fresh EXCEPT !.g = Resolved([@ EXCEPT !.adjust_posted = FALSE], MustIncrement)]
            = [Fresh EXCEPT !.g = h]
      BY <3>1
    <3> QED
      BY <3>2, FreshWith
  <2> QED
    BY <2>1 DEF AdjustMaxTasks, Leave
\* The one that was on its way is this one.
<1>9. Adjusts(i, exec, adjust_tasks - 1)
  <2>1. Adjusting(exec) \in SUBSET Actors
    BY DEF Adjusting
  <2>2. Cardinality(Adjusting(exec)) \in Nat
    BY <2>1, ActorsFinite
  <2>3. adjust_tasks + Cardinality(Adjusting(exec)) = IF g.adjust_posted THEN 1 ELSE 0
    BY <1>0 DEF Shape, Adjusts
  <2>4. adjust_tasks - 1 + Cardinality(Adjusting(exec)) = 0
    BY <1>0, <1>1, <2>2, <2>3
  <2> QED
    BY <1>4, <2>4 DEF Adjusts
<1>10. Core(i, exec, pc, event, adjust_tasks - 1)
  <2>1. StackOK(i)
    BY <1>0, <1>4 DEF Shape, StackOK, SameStack
  <2>2. Life(i, exec, pc, event)
    BY <1>0, <1>4 DEF Shape, Life, LifeOf, SameStack
  <2>3. Starts(i, exec, pc)
    BY <1>0, <1>4 DEF Shape, Starts, StartOf, SameStack
  <2> QED
    BY <1>0, <1>4, <1>9, <2>1, <2>2, <2>3 DEF Core
<1>11. Core(h, exec, pc, event, adjust_tasks - 1)
  BY <1>4, <1>7, <1>10, CoreSame
<1>12. adjust_tasks - 1 \in Nat
  BY <1>0, <1>1
<1>13. /\ Shape(g', exec', pc, event, adjust_tasks - 1) /\ SameCounters(h, g')
       /\ h.max = 0 => z = [g |-> h, e |-> EmptyExecutor]
  BY <1>1, <1>8, <1>11, <1>12, ActorFacts, Section
<1>14. Shape(g, exec, pc, event, adjust_tasks)'
  BY <1>1, <1>13
<1>15. Counters(i, task, may_block, incremented)
  BY <1>0, <1>4, CountersSame DEF SameCounters
<1>16. ASSUME g.max # 0
       PROVE  Counters(g, task, may_block, incremented)' /\ Control'
  <2>1. i.max # 0
    BY <1>4, <1>16 DEF SameCounters, SameLimits
  <2>2. Counters(h, task, may_block, incremented \cup S)
    BY <1>0, <1>2, <1>4, <1>6, <1>7, <1>15, <2>1, CountResolved
  <2>3. Counters(g', task, may_block, incremented \cup S)
    BY <1>13, <2>2, CountersSame DEF SameCounters
  <2>4. Counters(g, task, may_block, incremented)'
    BY <1>1, <1>2, <2>3
  <2>5. g'.max # 0
    <3>1. i.max \in Nat /\ i.max > 0
      BY <1>0, <1>15, <2>1, MaxPositive
    <3>2. n \in Nat
      BY <1>2, <1>6, PoolFinite
    <3>3. h.max # 0
      BY <1>7, <3>1, <3>2
    <3> QED
      BY <1>13, <3>3 DEF SameCounters, SameLimits
  <2>6. Control'
    BY <1>0, <1>1, <1>8, <1>16, <2>5, ControlKept, ActorFacts
  <2> QED
    BY <2>4, <2>6
<1>17. ASSUME g.max = 0
       PROVE  Counters(g, task, may_block, incremented)' /\ Control'
  <2>1. may_block = {} /\ incremented = {} /\ S = {} /\ incremented' = incremented
    BY <1>1, <1>2, <1>17, NotStarted
  <2>2. n = 0 /\ m = 0
    <3>1. BestEffort(task, S) = {}
      BY <2>1 DEF BestEffort
    <3> QED
      BY <1>6, <2>1, <3>1, FS_EmptySet
  <2>3. SameLimits(i, h) /\ SameUnresolved(i, h)
    <3>1. /\ i.max \in Int /\ i.max_be \in Int /\ i.unresolved \in Int /\ i.unresolved_be \in Int
      BY <1>4 DEF Members
    <3> QED
      BY <1>7, <2>2, <3>1 DEF SameLimits, SameUnresolved
  <2>4. Counters(h, task, may_block, incremented)
    BY <1>7, <1>15, <2>3, CountersSame
  <2>5. Counters(g', task, may_block, incremented)
    BY <1>13, <2>4, CountersSame DEF SameCounters
  <2>6. Counters(g, task, may_block, incremented)'
    BY <1>1, <2>1, <2>5
  <2>7. h.max = 0 /\ h.max_be = g.max_be
    BY <1>4, <1>17, <2>3 DEF SameCounters, SameLimits
  <2>8. z.g = h
    BY <1>13, <2>7
  <2>9. Control'
    <3>1. g'.max = 0 /\ g'.max_be = g.max_be /\ g'.created = g.created
      BY <1>4, <1>7, <1>8, <2>7, <2>8 DEF SameStack
    <3>2. exec'[Main] = exec[Main]
      BY <1>0, <1>8, ActorFacts
    <3> QED
      BY <1>0, <1>1, <1>17, <3>1, <3>2 DEF Control, Flushed
  <2> QED
    BY <2>6, <2>9
<1>18. Typed'
  BY <1>0, <1>1, <1>2, <1>12 DEF Typed
<1>19. Tasks'
  <2> SUFFICES ASSUME NEW v \in Pool PROVE TaskOf(v)'
    BY DEF Tasks
  <2>1. TaskOf(v)
    BY <1>0 DEF Tasks
  <2>2. exec'[v] = exec[v]
    BY <1>0, <1>8, ActorFacts
  <2>3. CASE v \notin S
    <3>1. KeepsTask(v)
      BY <1>1, <1>2, <2>2, <2>3 DEF KeepsTask
    <3> QED
      BY <2>1, <3>1, TaskKept
  <2>4. CASE v \in S
    <3>1. v \in may_block /\ v \in incremented'
      BY <1>1, <1>2, <2>4
    <3>2. scope[v] # "none" /\ pc[v] # "upgrade" /\ scope[v] # "WILL_BLOCK"
      BY <1>2, <2>1, <2>4, <3>1 DEF TaskOf
    <3> QED
      BY <1>1, <2>1, <3>1, <3>2 DEF TaskOf
  <2> QED
    BY <2>3, <2>4
<1> QED
  BY <1>14, <1>16, <1>17, <1>18, <1>19 DEF IndInv

-----------------------------------------------------------------------------
(***************************************************************************)
(* Steps: a worker waits and gets work.                                    *)
(***************************************************************************)
\* A worker may go to place v.
MoveOK(h, P, E, w, v) ==
  /\ P[w] \notin {"none", "exited"}
  /\ v \in WorkerPcs /\ v \notin {"none", "exited"}
  /\ v = "sleep" => w \in Elems(h.idle) \/ w \in E
  /\ w \in Elems(h.idle) => v \in {"sleep", "get", "get2"}

Goes(P, Q, w, v) ==
  /\ Places(Q) /\ Q[w] = v /\ Q[Main] = P[Main]
  /\ \A b \in Actors : b # w => Q[b] = P[b]

\* A worker goes from P[w] to v and nobody else moves.
LEMMA WorkerMoves ==
  ASSUME NEW h, NEW X, NEW P, Places(P), NEW E, NEW n, Shape(h, X, P, E, n), NEW w \in Pool,
         NEW v, MoveOK(h, P, E, w, v), NEW Q, Q = Moved(P, w, v)
  PROVE  Shape(h, X, Q, E, n) /\ Goes(P, Q, w, v)
<1>1. /\ Places(Q) /\ Q[w] = v /\ Q[Main] = P[Main]
      /\ \A b \in Actors : b # w => Q[b] = P[b]
  BY PlaceWorker DEF MoveOK
<1>2. Q = [P EXCEPT ![w] = v] /\ P \in [Actors -> Pcs]
  BY DEF Moved, Places
<1>3. w \in Actors
  BY ActorFacts
<1>4. Shape(h, X, Q, E, n)
  BY <1>2, <1>3, PlaceShape DEF MoveOK
<1> QED
  BY <1>1, <1>4 DEF Goes

\* Only one worker's task changes.
OthersKeep(w) == \A v \in Pool : v # w => KeepsTask(v)

\* Tasks holds again if the one worker that changed satisfies it.
LEMMA OneTask ==
  ASSUME Tasks, NEW w \in Pool, OthersKeep(w), TaskOf(w)'
  PROVE  Tasks'
<1>1. ASSUME NEW v \in Pool PROVE TaskOf(v)'
  <2>1. CASE v = w
    BY <2>1
  <2>2. CASE v # w
    BY <2>2, TaskKept DEF Tasks, OthersKeep
  <2> QED
    BY <2>1, <2>2
<1> QED
  BY <1>1 DEF Tasks

\* The waits: a worker's event is reset or its sleep times out.
LEMMA WaitKeeps ==
  ASSUME IndInv, NEW w \in Pool, pc[w] \in {"sleep", "reset"}, pc' = Moved(pc, w, "get"),
         event' \in {event, event \ {w}},
         UNCHANGED <<g, policy, exec, taskVars, adjust_tasks, posts, blockings>>
  PROVE  IndInv'
<1>0. /\ Typed /\ Control /\ Tasks /\ Counters(g, task, may_block, incremented)
      /\ Shape(g, exec, pc, event, adjust_tasks) /\ Places(pc) /\ pc \in [Actors -> Pcs]
  BY DEF IndInv, Typed, Places
<1>1. MoveOK(g, pc, event, w, "get")
  BY DEF MoveOK, WorkerPcs
<1>2. /\ Shape(g, exec, pc', event, adjust_tasks)
      /\ Places(pc') /\ pc'[w] = "get" /\ pc'[Main] = pc[Main]
      /\ \A b \in Actors : b # w => pc'[b] = pc[b]
  <2>1. Shape(g, exec, pc', event, adjust_tasks) /\ Goes(pc, pc', w, "get")
    BY <1>0, <1>1, WorkerMoves
  <2> QED
    BY <2>1 DEF Goes
<1>3. Shape(g, exec, pc', event \ {w}, adjust_tasks)
  <2>1. pc'[w] \notin {"none", "sleep"}
    BY <1>2
  <2> QED
    BY <1>2, <2>1, ResetShape
<1>4. Shape(g, exec, pc, event, adjust_tasks)'
  BY <1>2, <1>3
<1>5. Counters(g, task, may_block, incremented)'
  BY <1>0 DEF taskVars
<1>6. Typed'
  BY <1>0, <1>2 DEF Typed, taskVars
<1>7. Control'
  BY <1>0, <1>2 DEF Control, Flushed
<1>8. OthersKeep(w)
  BY <1>2, ActorFacts DEF OthersKeep, KeepsTask, taskVars
<1>9. TaskOf(w)'
  <2>1. TaskOf(w)
    BY <1>0 DEF Tasks
  <2> QED
    BY <1>2, <2>1 DEF TaskOf, taskVars
<1> QED
  BY <1>0, <1>4, <1>5, <1>6, <1>7, <1>8, <1>9, OneTask DEF IndInv

\* A top of the queue that may be taken exists.
LEMMA TopQueued ==
  ASSUME NEW h \in Members, MayTake(h)
  PROVE  TopPriority(h) \in Priorities /\ h.queue[TopPriority(h)] > 0
<1>1. h.queue["FG"] \in Nat /\ h.queue["BE"] \in Nat
  BY DEF Members, Priorities
<1>2. h.queue["FG"] # 0 \/ h.queue["BE"] # 0
  BY DEF MayTake, QueueEmpty, Priorities
<1> QED
  BY <1>1, <1>2 DEF TopPriority, Priorities

\* The end of GetWork(), from members and executor x; Y are the executors then.
AssignContext(w, x, Y) ==
  /\ pc[w] \in {"get", "get2"} /\ x \in Sections /\ Y = [exec EXCEPT ![w] = x.e]
  /\ Shape(x.g, Y, pc, event, adjust_tasks) /\ Counters(x.g, task, may_block, incremented)
  /\ x.g.max # 0

AssignFrame ==
  UNCHANGED <<policy, scope, may_block, aged, incremented, adjust_tasks, posts, blockings>>

\* The parts that all its outcomes have in common.
LEMMA AssignCommon ==
  ASSUME IndInv, NEW w \in Pool, NEW x, NEW Y, AssignContext(w, x, Y), AssignFrame, exec' = Y,
         Places(pc'), pc'[Main] = pc[Main], \A b \in Actors : b # w => pc'[b] = pc[b],
         event' \in SUBSET Pool, task' \in [Pool -> Priorities \cup {None}],
         \A v \in Pool : v # w => task'[v] = task[v],
         task'[w] # None <=> pc'[w] \in {"running", "upgrade"}, pc'[w] # "upgrade",
         g'.max # 0
  PROVE  Typed' /\ Control' /\ Tasks'
<1>0. /\ Typed /\ Control /\ Tasks /\ exec \in [Actors -> Executors] /\ x.e \in Executors
      /\ pc[w] \in {"get", "get2"} /\ Y = [exec EXCEPT ![w] = x.e]
  BY DEF IndInv, Shape, AssignContext, Sections
<1>1. Typed'
  BY <1>0 DEF Typed, AssignFrame
<1>2. \A b \in Actors : b # w => exec'[b] = exec[b]
  BY <1>0
<1>3. Control'
  <2>1. g.max # 0
    BY <1>0, Alive
  <2>2. exec'[Main] = exec[Main]
    BY <1>2, ActorFacts
  <2> QED
    BY <1>0, <2>1, <2>2, ControlKept
<1>4. OthersKeep(w)
  BY <1>2, ActorFacts DEF OthersKeep, KeepsTask, AssignFrame
<1>5. TaskOf(w)'
  <2>1. TaskOf(w) /\ scope[w] = "none"
    <3>1. TaskOf(w)
      BY <1>0 DEF Tasks
    <3> QED
      BY <1>0, <3>1 DEF TaskOf
  <2>2. w \notin may_block /\ w \notin incremented
    BY <2>1 DEF TaskOf
  <2> QED
    BY <2>1, <2>2 DEF TaskOf, AssignFrame
<1> QED
  BY <1>0, <1>1, <1>3, <1>4, <1>5, OneTask

\* Whatever GetWork() decides at its end, the invariant holds again.
LEMMA AssignKeeps ==
  ASSUME IndInv, NEW w \in Pool, NEW x, NEW Y, AssignContext(w, x, Y), AssignFrame,
         AssignWork(w, x)
  PROVE  IndInv' /\ exec' = Y
<1>0. /\ pc[w] \in {"get", "get2"} /\ pc[w] \notin {"none", "exited"}
      /\ x \in Sections /\ Y = [exec EXCEPT ![w] = x.e]
      /\ Shape(x.g, Y, pc, event, adjust_tasks) /\ Counters(x.g, task, may_block, incremented)
      /\ x.g.max # 0 /\ x.g \in Members /\ StackOK(x.g)
  BY DEF AssignContext, Sections, Shape
<1>1. /\ Places(pc) /\ pc \in [Actors -> Pcs] /\ event \in SUBSET Pool
      /\ task \in [Pool -> Priorities \cup {None}]
      /\ may_block \in SUBSET Pool /\ incremented \in SUBSET Pool
  BY DEF IndInv, Typed, Places
<1>2. task[w] = None /\ w \notin may_block \cup incremented
  <2>1. TaskOf(w)
    BY DEF IndInv, Tasks
  <2> QED
    BY <1>0, <2>1 DEF TaskOf
<1>3. w \in x.g.workers /\ (LooksIdle(w, x.g) <=> w \in Elems(x.g.idle))
  <2>1. w \in x.g.workers
    BY <1>0 DEF Shape, Life, LifeOf
  <2> QED
    BY <1>0, <2>1, LooksIdleIsOnStack
<1>4. CASE Cleanup(w, x)
  <2>1. PICK k : k = Cleaned(x.g, w)
    OBVIOUS
  <2>2. g' = k /\ exec' = Y
    <3>1. PICK y : y = [x EXCEPT !.g = [RemoveIdle(@, w) EXCEPT !.workers = x.g.workers \ {w}]]
      OBVIOUS
    <3>2. y.g = k /\ y.e = x.e
      BY <1>0, <2>1, <3>1 DEF Sections, Cleaned
    <3>3. g' = y.g /\ exec' = [exec EXCEPT ![w] = y.e]
      BY <1>4, <3>1 DEF Cleanup, Leave
    <3> QED
      BY <1>0, <3>2, <3>3
  <2>3. /\ w \in x.g.unused /\ Cardinality(x.g.created \ x.g.workers) < MaxCleanups
        /\ event' = event \cup {w} /\ pc' = Moved(pc, w, "exited") /\ task' = task
    BY <1>4 DEF Cleanup, Moved
  <2>4. Shape(k, Y, pc', event', adjust_tasks) /\ SameCounters(x.g, k)
    BY <1>0, <1>1, <2>1, <2>3, CleanupShape
  <2>5. /\ Places(pc') /\ pc'[w] = "exited" /\ pc'[Main] = pc[Main]
        /\ \A b \in Actors : b # w => pc'[b] = pc[b]
    <3>1. "exited" \in WorkerPcs
      BY DEF WorkerPcs
    <3> QED
      BY <1>1, <2>3, <3>1, PlaceWorker
  <2>6. Counters(g', task', may_block', incremented')
    <3>1. Counters(k, task, may_block, incremented)
      BY <1>0, <2>4, CountersSame DEF SameCounters
    <3> QED
      BY <2>2, <2>3, <3>1 DEF AssignFrame
  <2>7. g'.max # 0
    BY <1>0, <2>2, <2>4 DEF SameCounters, SameLimits
  <2>8. Typed' /\ Control' /\ Tasks'
    BY <1>1, <1>2, <2>2, <2>3, <2>5, <2>7, AssignCommon
  <2>9. Shape(g, exec, pc, event, adjust_tasks)'
    BY <2>2, <2>4 DEF AssignFrame
  <2> QED
    BY <2>2, <2>6, <2>8, <2>9 DEF IndInv
<1>5. CASE LooksIdle(w, x.g) /\ StayIdle(w, x)
  <2>1. /\ g' = x.g /\ exec' = Y /\ pc' = Moved(pc, w, "sleep") /\ event' = event /\ task' = task
    BY <1>0, <1>5 DEF StayIdle, Leave, Moved
  <2>2. MoveOK(x.g, pc, event, w, "sleep")
    BY <1>0, <1>3, <1>5 DEF MoveOK, WorkerPcs
  <2>3. /\ Shape(x.g, Y, pc', event, adjust_tasks)
        /\ Places(pc') /\ pc'[w] = "sleep" /\ pc'[Main] = pc[Main]
        /\ \A b \in Actors : b # w => pc'[b] = pc[b]
    <3>1. Shape(x.g, Y, pc', event, adjust_tasks) /\ Goes(pc, pc', w, "sleep")
      BY <1>0, <1>1, <2>1, <2>2, WorkerMoves
    <3> QED
      BY <3>1 DEF Goes
  <2>4. Typed' /\ Control' /\ Tasks'
    BY <1>0, <1>1, <1>2, <2>1, <2>3, AssignCommon
  <2>5. Shape(g, exec, pc, event, adjust_tasks)'
    BY <2>1, <2>3 DEF AssignFrame
  <2>6. Counters(g', task', may_block', incremented')
    BY <1>0, <2>1 DEF AssignFrame
  <2> QED
    BY <2>1, <2>4, <2>5, <2>6 DEF IndInv
<1>6. CASE ~LooksIdle(w, x.g) /\ OnWorkerBecomesIdle(w, x)
  <2>1. PICK k : k = PushIdle(x.g, w)
    OBVIOUS
  <2>2. g' = k /\ exec' = Y
    <3>1. PICK y : y = [x EXCEPT !.g = PushIdle(@, w)]
      OBVIOUS
    <3>2. y.g = k /\ y.e = x.e
      BY <1>0, <2>1, <3>1 DEF Sections
    <3>3. g' = y.g /\ exec' = [exec EXCEPT ![w] = y.e]
      BY <1>6, <3>1 DEF OnWorkerBecomesIdle, Leave
    <3> QED
      BY <1>0, <3>2, <3>3
  <2>3. event' = event /\ task' = task /\ pc' = Moved(pc, w, "sleep")
    BY <1>6 DEF OnWorkerBecomesIdle, Moved
  <2>4. Shape(k, Y, pc, event, adjust_tasks) /\ w \in Elems(k.idle) /\ SameCounters(x.g, k)
    BY <1>0, <1>6, <2>1, IdleShape
  <2>5. MoveOK(k, pc, event, w, "sleep")
    BY <1>0, <2>4 DEF MoveOK, WorkerPcs
  <2>6. /\ Shape(k, Y, pc', event, adjust_tasks)
        /\ Places(pc') /\ pc'[w] = "sleep" /\ pc'[Main] = pc[Main]
        /\ \A b \in Actors : b # w => pc'[b] = pc[b]
    <3>1. Shape(k, Y, pc', event, adjust_tasks) /\ Goes(pc, pc', w, "sleep")
      BY <1>0, <1>1, <2>3, <2>4, <2>5, WorkerMoves
    <3> QED
      BY <3>1 DEF Goes
  <2>7. g'.max # 0
    BY <1>0, <2>2, <2>4 DEF SameCounters, SameLimits
  <2>8. Typed' /\ Control' /\ Tasks'
    BY <1>1, <1>2, <2>2, <2>3, <2>6, <2>7, AssignCommon
  <2>9. Shape(g, exec, pc, event, adjust_tasks)'
    BY <2>2, <2>3, <2>6 DEF AssignFrame
  <2>10. Counters(g', task', may_block', incremented')
    <3>1. Counters(k, task, may_block, incremented)
      BY <1>0, <2>4, CountersSame DEF SameCounters
    <3> QED
      BY <2>2, <2>3, <3>1 DEF AssignFrame
  <2> QED
    BY <2>2, <2>8, <2>9, <2>10 DEF IndInv
<1>7. CASE ~LooksIdle(w, x.g) /\ MayTake(x.g) /\ TakeTaskSource(w, x)
  <2>1. PICK p \in Priorities : p = TopPriority(x.g) /\ x.g.queue[p] > 0
    BY <1>0, <1>7, TopQueued
  <2>2. PICK k : k = IncrementTasksRunning(Popped(x.g, p), p)
    OBVIOUS
  <2>3. /\ k \in Members /\ k.min_allowed = MinOf(k) /\ k.adjust_posted = x.g.adjust_posted
        /\ SameStack(x.g, k) /\ SameLimits(x.g, k) /\ SameUnresolved(x.g, k)
        /\ k.running = x.g.running + 1 /\ k.running_be = x.g.running_be + BE(p)
    BY <1>0, <2>1, <2>2, StartTaskFields
  <2>4. g' = k /\ exec' = Y
    <3>1. PICK y : y = [x EXCEPT !.g = IncrementTasksRunning(
                                         [@ EXCEPT !.queue[p] = x.g.queue[p] - 1], p)]
      OBVIOUS
    <3>2. y.g = k /\ y.e = x.e
      BY <1>0, <2>2, <3>1 DEF Sections, Popped
    <3>3. g' = y.g /\ exec' = [exec EXCEPT ![w] = y.e]
      BY <1>7, <2>1, <3>1 DEF TakeTaskSource, Leave
    <3> QED
      BY <1>0, <3>2, <3>3
  <2>5. event' = event /\ task' = [task EXCEPT ![w] = p] /\ pc' = Moved(pc, w, "running")
    BY <1>7, <2>1 DEF TakeTaskSource, Moved
  <2>6. Core(k, Y, pc, event, adjust_tasks)
    <3>1. Core(x.g, Y, pc, event, adjust_tasks)
      BY <1>0, ShapeCore
    <3> QED
      BY <2>3, <3>1, CoreSame
  <2>7. Shape(k, Y, pc, event, adjust_tasks)
    BY <2>3, <2>6 DEF Core, Shape, Threshold
  <2>8. MoveOK(k, pc, event, w, "running")
    BY <1>0, <1>3, <1>7, <2>3 DEF MoveOK, WorkerPcs, SameStack
  <2>9. /\ Shape(k, Y, pc', event, adjust_tasks)
        /\ Places(pc') /\ pc'[w] = "running" /\ pc'[Main] = pc[Main]
        /\ \A b \in Actors : b # w => pc'[b] = pc[b]
    <3>1. Shape(k, Y, pc', event, adjust_tasks) /\ Goes(pc, pc', w, "running")
      BY <1>0, <1>1, <2>5, <2>7, <2>8, WorkerMoves
    <3> QED
      BY <3>1 DEF Goes
  <2>10. g'.max # 0
    BY <1>0, <2>3, <2>4 DEF SameLimits
  <2>11. /\ task' \in [Pool -> Priorities \cup {None}] /\ task'[w] = p /\ p # None
         /\ \A v \in Pool : v # w => task'[v] = task[v]
    BY <1>1, <2>1, <2>5, ActorsAssumption
  <2>12. Typed' /\ Control' /\ Tasks'
    BY <1>1, <2>4, <2>5, <2>9, <2>10, <2>11, AssignCommon
  <2>13. Shape(g, exec, pc, event, adjust_tasks)'
    BY <2>4, <2>5, <2>9 DEF AssignFrame
  <2>14. Counters(g', task', may_block', incremented')
    <3>1. Counters(k, task', may_block, incremented)
      BY <1>0, <1>1, <1>2, <2>1, <2>3, <2>5, TaskStarts
    <3> QED
      BY <2>4, <3>1 DEF AssignFrame
  <2> QED
    BY <2>4, <2>12, <2>13, <2>14 DEF IndInv
<1> QED
  BY <1>4, <1>5, <1>6, <1>7 DEF AssignWork

\* GetWork() up to FlushWorkerCreation(), or to its end.
LEMMA GetWorkContext ==
  ASSUME IndInv, NEW w \in Pool, pc[w] = "get", Flushed(w), NEW z \in EnsureEnoughWorkers(Fresh),
         NEW Y, Y = [exec EXCEPT ![w] = z.e]
  PROVE  AssignContext(w, z, Y)
<1>0. /\ Counters(g, task, may_block, incremented) /\ adjust_tasks \in Nat
      /\ Shape(g, exec, pc, event, adjust_tasks) /\ g \in Members /\ w \in Actors
  BY ActorFacts DEF IndInv, Shape, Typed
<1>1. z \in EnsureEnoughWorkers([g |-> g, e |-> EmptyExecutor])
  BY FreshWith
<1>2. Core(g, exec, pc, event, adjust_tasks)
  BY <1>0, ShapeCore
<1>3. Shape(z.g, Y, pc, event, adjust_tasks) /\ SameCounters(g, z.g) /\ Good(z)
  BY <1>0, <1>1, <1>2, Section
<1>4. Counters(z.g, task, may_block, incremented)
  BY <1>0, <1>3, CountersSame DEF SameCounters
<1>5. z.g.max # 0
  BY <1>3, Alive DEF SameCounters, SameLimits
<1> QED
  BY <1>3, <1>4, <1>5 DEF AssignContext, Good

\* GetWork(), with or without a release of lock_ to wake up or start workers.
LEMMA GetWorkKeeps ==
  ASSUME IndInv, NEW w \in Pool, GetWork(w)
  PROVE  IndInv'
<1>0. pc[w] = "get" /\ Flushed(w) /\ AssignFrame
  BY DEF GetWork, AssignFrame
<1>1. PICK z \in EnsureEnoughWorkers(Fresh) :
        IF z.e.wake = <<>> /\ z.e.start = <<>>
        THEN AssignWork(w, z)
        ELSE /\ Leave(w, {z})
             /\ pc' = [pc EXCEPT ![w] = "get2"]
             /\ UNCHANGED <<event, task>>
  BY DEF GetWork
<1>2. PICK Y : Y = [exec EXCEPT ![w] = z.e]
  OBVIOUS
<1>3. AssignContext(w, z, Y)
  BY <1>0, <1>2, GetWorkContext
<1>4. CASE AssignWork(w, z)
  BY <1>0, <1>3, <1>4, AssignKeeps
<1>5. CASE Leave(w, {z}) /\ pc' = [pc EXCEPT ![w] = "get2"] /\ UNCHANGED <<event, task>>
  <2>1. g' = z.g /\ exec' = Y /\ pc' = Moved(pc, w, "get2") /\ event' = event /\ task' = task
    BY <1>2, <1>5 DEF Leave, Moved
  <2>2. /\ Places(pc) /\ pc \in [Actors -> Pcs] /\ event \in SUBSET Pool
        /\ task \in [Pool -> Priorities \cup {None}] /\ TaskOf(w)
    BY DEF IndInv, Typed, Places, Tasks
  <2>3. /\ Shape(z.g, Y, pc, event, adjust_tasks) /\ z.g.max # 0
        /\ Counters(z.g, task, may_block, incremented)
    BY <1>3 DEF AssignContext
  <2>4. MoveOK(z.g, pc, event, w, "get2")
    BY <1>0 DEF MoveOK, WorkerPcs
  <2>5. /\ Shape(z.g, Y, pc', event, adjust_tasks)
        /\ Places(pc') /\ pc'[w] = "get2" /\ pc'[Main] = pc[Main]
        /\ \A b \in Actors : b # w => pc'[b] = pc[b]
    <3>1. Shape(z.g, Y, pc', event, adjust_tasks) /\ Goes(pc, pc', w, "get2")
      BY <2>1, <2>2, <2>3, <2>4, WorkerMoves
    <3> QED
      BY <3>1 DEF Goes
  <2>6. task[w] = None
    BY <1>0, <2>2 DEF TaskOf
  <2>7. Typed' /\ Control' /\ Tasks'
    BY <1>0, <1>3, <2>1, <2>2, <2>3, <2>5, <2>6, AssignCommon
  <2>8. Shape(g, exec, pc, event, adjust_tasks)'
    BY <1>0, <2>1, <2>5 DEF AssignFrame
  <2>9. Counters(g', task', may_block', incremented')
    BY <1>0, <2>1, <2>3 DEF AssignFrame
  <2> QED
    BY <2>7, <2>8, <2>9 DEF IndInv
<1> QED
  BY <1>1, <1>4, <1>5

\* GetWork() after FlushWorkerCreation().
LEMMA AfterFlushContext ==
  ASSUME IndInv, NEW w \in Pool, pc[w] = "get2", Flushed(w)
  PROVE  AssignContext(w, Fresh, exec)
<1>0. /\ Counters(g, task, may_block, incremented) /\ g \in Members
      /\ Shape(g, exec, pc, event, adjust_tasks) /\ exec \in [Actors -> Executors]
  BY DEF IndInv, Shape
<1>1. Fresh.g = g /\ Fresh.e = EmptyExecutor /\ Fresh \in Sections
  BY <1>0, EmptyFields DEF Fresh, Sections
<1>2. exec = [exec EXCEPT ![w] = Fresh.e]
  BY <1>0, <1>1 DEF Flushed
<1>3. g.max # 0
  BY Alive
<1> QED
  BY <1>0, <1>1, <1>2, <1>3 DEF AssignContext

\* The end of GetWork() after lock_ was taken again.
LEMMA AfterFlushKeeps ==
  ASSUME IndInv, NEW w \in Pool, GetWorkAfterFlush(w)
  PROVE  IndInv'
<1>1. pc[w] = "get2" /\ Flushed(w) /\ AssignWork(w, Fresh) /\ AssignFrame
  BY DEF GetWorkAfterFlush, AssignFrame
<1>2. AssignContext(w, Fresh, exec)
  BY <1>1, AfterFlushContext
<1> QED
  BY <1>1, <1>2, AssignKeeps

-----------------------------------------------------------------------------
(***************************************************************************)
(* Steps: tasks end, and ScopedBlockingCalls.                              *)
(***************************************************************************)
\* A worker that runs a task is not on the stack.
LEMMA BusyMoves ==
  ASSUME NEW h, NEW X, NEW P, NEW E, NEW n, Shape(h, X, P, E, n), NEW w \in Pool,
         P[w] \in {"running", "upgrade"}, NEW v, v \in {"running", "upgrade", "reset"}
  PROVE  MoveOK(h, P, E, w, v)
<1>1. w \notin Elems(h.idle)
  BY DEF Shape, Life, LifeOf
<1> QED
  BY <1>1 DEF MoveOK, WorkerPcs

\* Facts about a worker that runs a task.
LEMMA RunningFacts ==
  ASSUME IndInv, NEW w \in Pool, pc[w] \in {"running", "upgrade"}
  PROVE  /\ Typed /\ Control /\ Tasks /\ Counters(g, task, may_block, incremented)
         /\ Shape(g, exec, pc, event, adjust_tasks) /\ exec \in [Actors -> Executors]
         /\ Core(g, exec, pc, event, adjust_tasks) /\ adjust_tasks \in Nat /\ g \in Members
         /\ may_block \in SUBSET Pool /\ incremented \in SUBSET Pool
         /\ Places(pc) /\ g.max # 0 /\ TaskOf(w) /\ w \in Actors /\ w # Main
         /\ task[w] \in Priorities
<1>1. /\ Typed /\ Control /\ Tasks /\ Counters(g, task, may_block, incremented)
      /\ Shape(g, exec, pc, event, adjust_tasks) /\ exec \in [Actors -> Executors]
      /\ adjust_tasks \in Nat /\ g \in Members
      /\ may_block \in SUBSET Pool /\ incremented \in SUBSET Pool
      /\ Places(pc) /\ TaskOf(w)
  BY DEF IndInv, Typed, Shape, Tasks
<1>2. Core(g, exec, pc, event, adjust_tasks)
  BY <1>1, ShapeCore
<1>3. g.max # 0
  BY Alive
<1>4. w \in Actors /\ w # Main
  BY ActorFacts
<1>5. task[w] \in Priorities
  BY <1>1 DEF TaskOf, Typed
<1> QED
  BY <1>1, <1>2, <1>3, <1>4, <1>5

\* A step that changes the counters only, and the threshold with them.
LEMMA CountedShape ==
  ASSUME NEW h, NEW X, NEW P, NEW E, NEW n, Core(h, X, P, E, n), NEW k \in Members,
         SameStack(h, k), k.adjust_posted = h.adjust_posted, k.min_allowed = MinOf(k)
  PROVE  Shape(k, X, P, E, n)
<1>1. Core(k, X, P, E, n)
  BY CoreSame
<1> QED
  BY <1>1 DEF Core, Shape, Threshold

\* A flushed executor stays as it is.
LEMMA StillFlushed ==
  ASSUME NEW a \in Actors, Flushed(a), exec \in [Actors -> Executors]
  PROVE  [exec EXCEPT ![a] = EmptyExecutor] = exec
BY DEF Flushed

\* DidProcessTask().
LEMMA DidProcessKeeps ==
  ASSUME IndInv, NEW w \in Pool, NEW again \in Priorities \cup {None}, DidProcessTask(w, again)
  PROVE  IndInv'
<1>0. pc[w] = "running" /\ pc[w] \in {"running", "upgrade"} /\ Flushed(w) /\ scope[w] = "none"
  BY DEF DidProcessTask
<1>1. /\ Typed /\ Control /\ Tasks /\ Counters(g, task, may_block, incremented)
      /\ Shape(g, exec, pc, event, adjust_tasks) /\ exec \in [Actors -> Executors]
      /\ Core(g, exec, pc, event, adjust_tasks) /\ adjust_tasks \in Nat /\ g \in Members
      /\ may_block \in SUBSET Pool /\ incremented \in SUBSET Pool
      /\ Places(pc) /\ g.max # 0 /\ TaskOf(w) /\ w \in Actors /\ w # Main
      /\ task[w] \in Priorities
  BY <1>0, RunningFacts
<1>2. w \notin may_block \cup incremented /\ task[w] # None
  BY <1>0, <1>1 DEF TaskOf
<1>3. /\ UNCHANGED <<policy, scope, may_block, aged, incremented, event, adjust_tasks, blockings>>
      /\ task' = [task EXCEPT ![w] = None] /\ pc' = Moved(pc, w, "reset")
  BY DEF DidProcessTask, Moved
<1>4. PICK i : i = DecrementTasksRunning(g, task[w])
  OBVIOUS
<1>5. /\ i \in Members /\ i.min_allowed = MinOf(i) /\ i.adjust_posted = g.adjust_posted
      /\ SameStack(g, i) /\ SameLimits(g, i) /\ SameUnresolved(g, i)
      /\ i.running = g.running - 1 /\ i.running_be = g.running_be - BE(task[w])
  BY <1>1, <1>4, EndTaskFields
<1>6. task \in [Pool -> Priorities \cup {None}]
  BY <1>1 DEF Typed
<1>7. Counters(i, task', may_block, incremented)
  BY <1>1, <1>2, <1>3, <1>5, <1>6, TaskEnds
<1>8. PICK x : x = [Fresh EXCEPT !.g = DecrementTasksRunning(@, task[w])]
  OBVIOUS
<1>9. x = [g |-> i, e |-> EmptyExecutor]
  BY <1>4, <1>8 DEF Fresh
<1>10. \/ again = None /\ Leave(w, {x}) /\ UNCHANGED posts
       \/ /\ again \in Priorities /\ Leave(w, EnsureEnoughWorkers(Push(x, again)))
          /\ posts' = [posts EXCEPT ![again] = @ + 1]
  BY <1>8 DEF DidProcessTask
<1>11. /\ Shape(g', exec', pc, event, adjust_tasks) /\ SameLimits(i, g') /\ SameRunning(i, g')
       /\ SameUnresolved(i, g') /\ posts' \in [Priorities -> Nat]
       /\ \A b \in Actors : b # w => exec'[b] = exec[b]
  <2>1. CASE again = None /\ Leave(w, {x}) /\ UNCHANGED posts
    <3>1. g' = i /\ exec' = exec
      <4>1. x.g = i /\ x.e = EmptyExecutor
        BY <1>9
      <4>2. g' = x.g /\ exec' = [exec EXCEPT ![w] = x.e]
        BY <2>1 DEF Leave
      <4> QED
        BY <1>0, <1>1, <4>1, <4>2, StillFlushed
    <3>2. Shape(i, exec, pc, event, adjust_tasks)
      BY <1>1, <1>5, CountedShape
    <3>3. posts' \in [Priorities -> Nat]
      BY <1>1, <2>1 DEF Typed
    <3> QED
      BY <3>1, <3>2, <3>3 DEF SameLimits, SameRunning, SameUnresolved
  <2>2. CASE /\ again \in Priorities /\ Leave(w, EnsureEnoughWorkers(Push(x, again)))
             /\ posts' = [posts EXCEPT ![again] = @ + 1]
    <3>1. PICK h : h = Pushed(i, again)
      OBVIOUS
    <3>2. /\ h \in Members /\ SameStack(i, h) /\ SameFlags(i, h)
          /\ SameLimits(i, h) /\ SameRunning(i, h) /\ SameUnresolved(i, h)
      BY <1>5, <2>2, <3>1, PushedFields
    <3>3. Push(x, again) = [g |-> h, e |-> EmptyExecutor]
      BY <1>5, <1>9, <2>2, <3>1, PushWith
    <3>4. PICK z \in EnsureEnoughWorkers([g |-> h, e |-> EmptyExecutor]) :
            g' = z.g /\ exec' = [exec EXCEPT ![w] = z.e]
      BY <2>2, <3>3 DEF Leave
    <3>5. Core(h, exec, pc, event, adjust_tasks)
      <4>1. Core(i, exec, pc, event, adjust_tasks)
        BY <1>1, <1>5, CoreSame
      <4> QED
        BY <3>2, <4>1, CoreSame DEF SameFlags
    <3>6. Shape(g', exec', pc, event, adjust_tasks) /\ SameCounters(h, g')
      BY <1>0, <1>1, <3>4, <3>5, Section
    <3>7. posts' \in [Priorities -> Nat]
      BY <1>1, <2>2 DEF Typed
    <3>8. \A b \in Actors : b # w => exec'[b] = exec[b]
      BY <1>1, <3>4
    <3> QED
      BY <3>2, <3>6, <3>7, <3>8 DEF SameCounters, SameLimits, SameRunning, SameUnresolved
  <2> QED
    BY <1>10, <2>1, <2>2
<1>12. /\ Shape(g', exec', pc', event, adjust_tasks)
       /\ Places(pc') /\ pc'[w] = "reset" /\ pc'[Main] = pc[Main]
       /\ \A b \in Actors : b # w => pc'[b] = pc[b]
  <2>1. MoveOK(g', pc, event, w, "reset")
    BY <1>0, <1>11, BusyMoves
  <2>2. Shape(g', exec', pc', event, adjust_tasks) /\ Goes(pc, pc', w, "reset")
    BY <1>1, <1>3, <1>11, <2>1, WorkerMoves
  <2> QED
    BY <2>2 DEF Goes
<1>13. Shape(g, exec, pc, event, adjust_tasks)'
  BY <1>3, <1>12
<1>14. Counters(g, task, may_block, incremented)'
  <2>1. Counters(g', task', may_block, incremented)
    BY <1>7, <1>11, CountersSame
  <2> QED
    BY <1>3, <2>1
<1>15. task' \in [Pool -> Priorities \cup {None}] /\ task'[w] = None
       /\ \A v \in Pool : v # w => task'[v] = task[v]
  BY <1>3, <1>6
<1>16. Typed'
  BY <1>1, <1>3, <1>11, <1>12, <1>15 DEF Typed
<1>17. Control'
  <2>1. g'.max # 0
    BY <1>1, <1>5, <1>11 DEF SameLimits
  <2>2. exec'[Main] = exec[Main]
    BY <1>1, <1>11, ActorFacts
  <2> QED
    BY <1>1, <1>12, <2>1, <2>2, ControlKept
<1>18. OthersKeep(w)
  BY <1>3, <1>11, <1>12, <1>15, ActorFacts DEF OthersKeep, KeepsTask
<1>19. TaskOf(w)'
  BY <1>0, <1>2, <1>3, <1>12, <1>15 DEF TaskOf
<1> QED
  BY <1>1, <1>13, <1>14, <1>16, <1>17, <1>18, <1>19, OneTask DEF IndInv

\* The worker is in a WILL_BLOCK scope: the limits go up.
LEMMA WillBlockKeeps ==
  ASSUME IndInv, NEW w \in Pool, pc[w] \in {"running", "upgrade"}, Flushed(w),
         w \notin may_block \cup incremented, WillBlock(w), blockings' \in 0..MaxBlocking,
         UNCHANGED <<policy, task, may_block, aged, event, adjust_tasks, posts>>
  PROVE  IndInv'
<1>1. /\ Typed /\ Control /\ Tasks /\ Counters(g, task, may_block, incremented)
      /\ Shape(g, exec, pc, event, adjust_tasks) /\ exec \in [Actors -> Executors]
      /\ Core(g, exec, pc, event, adjust_tasks) /\ adjust_tasks \in Nat /\ g \in Members
      /\ may_block \in SUBSET Pool /\ incremented \in SUBSET Pool
      /\ Places(pc) /\ g.max # 0 /\ TaskOf(w) /\ w \in Actors /\ w # Main
      /\ task[w] \in Priorities
  BY RunningFacts
<1>2. /\ incremented' = incremented \cup {w} /\ scope' = [scope EXCEPT ![w] = "WILL_BLOCK"]
      /\ pc' = Moved(pc, w, "running")
  BY DEF WillBlock, Moved
<1>3. PICK h : h = IncrementMaxTasks(g, task[w])
  OBVIOUS
<1>4. /\ h \in Members /\ h.min_allowed = MinOf(h) /\ h.adjust_posted = g.adjust_posted
      /\ SameStack(g, h) /\ SameRunning(g, h) /\ SameUnresolved(g, h)
      /\ h.max = g.max + 1 /\ h.max_be = g.max_be + 1 * BE(task[w])
  BY <1>1, <1>3, MaxTasksFields
<1>5. h.max_be = g.max_be + BE(task[w])
  BY <1>4, BEType
<1>6. Counters(h, task, may_block, incremented \cup {w})
  BY <1>1, <1>4, <1>5, WillBlockBegins
<1>7. PICK z \in EnsureEnoughWorkers([g |-> h, e |-> EmptyExecutor]) :
        g' = z.g /\ exec' = [exec EXCEPT ![w] = z.e]
  <2>1. [Fresh EXCEPT !.g = IncrementMaxTasks(@, task[w])] = [g |-> h, e |-> EmptyExecutor]
    BY <1>3 DEF Fresh
  <2> QED
    BY <2>1 DEF WillBlock, Leave
<1>8. Core(h, exec, pc, event, adjust_tasks)
  BY <1>1, <1>4, CoreSame
<1>9. Shape(g', exec', pc, event, adjust_tasks) /\ SameCounters(h, g')
  BY <1>1, <1>7, <1>8, Section
<1>10. \A b \in Actors : b # w => exec'[b] = exec[b]
  BY <1>1, <1>7
<1>11. /\ Shape(g', exec', pc', event, adjust_tasks)
       /\ Places(pc') /\ pc'[w] = "running" /\ pc'[Main] = pc[Main]
       /\ \A b \in Actors : b # w => pc'[b] = pc[b]
  <2>1. MoveOK(g', pc, event, w, "running")
    BY <1>9, BusyMoves
  <2>2. Shape(g', exec', pc', event, adjust_tasks) /\ Goes(pc, pc', w, "running")
    BY <1>1, <1>2, <1>9, <2>1, WorkerMoves
  <2> QED
    BY <2>2 DEF Goes
<1>12. Shape(g, exec, pc, event, adjust_tasks)'
  BY <1>11
<1>13. Counters(g, task, may_block, incremented)'
  <2>1. Counters(g', task, may_block, incremented \cup {w})
    BY <1>6, <1>9, CountersSame DEF SameCounters
  <2> QED
    BY <1>2, <2>1
<1>14. scope' \in [Pool -> Scopes] /\ scope'[w] = "WILL_BLOCK"
       /\ \A v \in Pool : v # w => scope'[v] = scope[v]
  BY <1>1, <1>2 DEF Typed, Scopes
<1>15. Typed'
  BY <1>1, <1>2, <1>11, <1>14 DEF Typed
<1>16. Control'
  <2>1. g'.max # 0
    <3>1. g.max \in Nat /\ g.max > 0
      BY <1>1, MaxPositive
    <3>2. h.max # 0
      BY <1>4, <3>1
    <3> QED
      BY <1>9, <3>2 DEF SameCounters, SameLimits
  <2>2. exec'[Main] = exec[Main]
    BY <1>1, <1>10, ActorFacts
  <2> QED
    BY <1>1, <1>11, <2>1, <2>2, ControlKept
<1>17. OthersKeep(w)
  BY <1>2, <1>10, <1>11, <1>14, ActorFacts DEF OthersKeep, KeepsTask
<1>18. TaskOf(w)'
  BY <1>1, <1>2, <1>11, <1>14 DEF TaskOf
<1> QED
  BY <1>1, <1>12, <1>13, <1>15, <1>16, <1>17, <1>18, OneTask DEF IndInv

\* The counters of MAY_BLOCK calls do not enter the threshold.
LEMMA UnresolvedThreshold ==
  ASSUME NEW h, NEW k, Threshold(h), SameFlags(h, k), MinOf(k) = MinOf(h), SameLimits(h, k)
  PROVE  Threshold(k)
BY DEF Threshold, SameFlags, SameLimits

\* MayBlockEntered().
LEMMA MayBlockKeeps ==
  ASSUME IndInv, NEW w \in Pool, MayBlockEntered(w)
  PROVE  IndInv'
<1>0. /\ pc[w] = "running" /\ pc[w] \in {"running", "upgrade"} /\ Flushed(w)
      /\ scope[w] = "none" /\ blockings < MaxBlocking /\ blockings' = blockings + 1
      /\ scope' = [scope EXCEPT ![w] = "MAY_BLOCK"] /\ may_block' = may_block \cup {w}
      /\ UNCHANGED <<policy, pc, task, aged, incremented, event, adjust_tasks, posts>>
  BY DEF MayBlockEntered
<1>1. /\ Typed /\ Control /\ Tasks /\ Counters(g, task, may_block, incremented)
      /\ Shape(g, exec, pc, event, adjust_tasks) /\ exec \in [Actors -> Executors]
      /\ Core(g, exec, pc, event, adjust_tasks) /\ adjust_tasks \in Nat /\ g \in Members
      /\ may_block \in SUBSET Pool /\ incremented \in SUBSET Pool
      /\ Places(pc) /\ g.max # 0 /\ TaskOf(w) /\ w \in Actors /\ w # Main
      /\ task[w] \in Priorities
  BY <1>0, RunningFacts
<1>2. w \notin may_block \cup incremented /\ task[w] # None
  BY <1>0, <1>1 DEF TaskOf
<1>3. PICK h : h = AddUnresolved(g, task[w], 1)
  OBVIOUS
<1>4. /\ h \in Members /\ SameFlags(g, h) /\ SameStack(g, h) /\ MinOf(h) = MinOf(g)
      /\ SameLimits(g, h) /\ SameRunning(g, h)
      /\ h.unresolved = g.unresolved + 1 /\ h.unresolved_be = g.unresolved_be + 1 * BE(task[w])
  BY <1>1, <1>3, AddUnresolvedFields
<1>5. h.unresolved_be = g.unresolved_be + BE(task[w])
  BY <1>4, BEType
<1>6. Counters(h, task, may_block \cup {w}, incremented)
  BY <1>1, <1>2, <1>4, <1>5, MayBlockBegins
<1>7. PICK x : x = [g |-> h, e |-> EmptyExecutor]
  OBVIOUS
<1>8. PICK z : z = MaybeScheduleAdjustMaxTasks(x)
  OBVIOUS
<1>9. g' = z.g /\ exec' = [exec EXCEPT ![w] = z.e]
  <2>1. [Fresh EXCEPT !.g = AddUnresolved(@, task[w], 1)] = x
    BY <1>3, <1>7 DEF Fresh
  <2> QED
    BY <1>8, <2>1 DEF MayBlockEntered, Leave
<1>10. Core(h, exec, pc, event, adjust_tasks)
  BY <1>1, <1>4, CoreSame DEF SameFlags
<1>11. Good(x) /\ x.g = h /\ x.e = EmptyExecutor /\ x \in Sections
  BY <1>7, <1>10, Begins DEF Core, Good
<1>12. /\ z \in Sections /\ Schedules(x, z) /\ SameStack(h, z.g) /\ SameCounters(h, z.g)
       /\ z.g.min_allowed = h.min_allowed
       /\ z.e.wake = x.e.wake /\ z.e.start = x.e.start
  BY <1>8, <1>11, ScheduleFields
<1>13. Outcome(x, z)
  <2>1. Good(z)
    BY <1>11, <1>12 DEF Good, StackOK, SameStack
  <2>2. Growth(x, z)
    <3>1. Growth(x, x)
      BY <1>11, GrowsRefl DEF Grows
    <3>2. New(x, z) = New(x, x)
      BY <1>11, <1>12 DEF New, SameStack
    <3> QED
      BY <1>11, <1>12, <3>1, <3>2 DEF Growth, SameStack
  <2>3. Threshold(z.g)
    <3>1. Threshold(h)
      BY <1>1, <1>4, UnresolvedThreshold DEF Shape
    <3>2. MinOf(z.g) = MinOf(h)
      BY <1>12 DEF MinOf, SameCounters, SameLimits, SameRunning, QueueEmpty, TopPriority
    <3> QED
      BY <1>12, <3>1, <3>2 DEF Threshold, SameCounters, SameLimits
  <2>4. x.g.max # 0
    BY <1>1, <1>4, <1>11 DEF SameLimits
  <2> QED
    BY <1>12, <2>1, <2>2, <2>3, <2>4 DEF Outcome
<1>14. Shape(g', exec', pc, event, adjust_tasks)
  <2>1. exec[w] = EmptyExecutor
    BY <1>0 DEF Flushed
  <2> QED
    BY <1>1, <1>9, <1>10, <1>11, <1>13, <2>1, EnsureShape
<1>15. Shape(g, exec, pc, event, adjust_tasks)'
  BY <1>0, <1>14
<1>16. Counters(g, task, may_block, incremented)'
  <2>1. Counters(g', task, may_block \cup {w}, incremented)
    BY <1>6, <1>9, <1>12, CountersSame DEF SameCounters
  <2> QED
    BY <1>0, <2>1
<1>17. scope' \in [Pool -> Scopes] /\ scope'[w] = "MAY_BLOCK"
       /\ \A v \in Pool : v # w => scope'[v] = scope[v]
  BY <1>0, <1>1 DEF Typed, Scopes
<1>18. Typed'
  <2>1. blockings' \in 0..MaxBlocking
    BY <1>0, <1>1, Limits DEF Typed
  <2> QED
    BY <1>0, <1>1, <1>17, <2>1 DEF Typed
<1>19. \A b \in Actors : b # w => exec'[b] = exec[b]
  BY <1>1, <1>9
<1>20. Control'
  <2>1. g'.max # 0
    BY <1>1, <1>4, <1>9, <1>12 DEF SameCounters, SameLimits
  <2>2. exec'[Main] = exec[Main]
    BY <1>1, <1>19, ActorFacts
  <2> QED
    BY <1>0, <1>1, <2>1, <2>2, ControlKept
<1>21. OthersKeep(w)
  BY <1>0, <1>17, <1>19, ActorFacts DEF OthersKeep, KeepsTask
<1>22. TaskOf(w)'
  BY <1>0, <1>1, <1>17 DEF TaskOf
<1> QED
  BY <1>1, <1>15, <1>16, <1>18, <1>20, <1>21, <1>22, OneTask DEF IndInv

\* A MAY_BLOCK scope gets old.
LEMMA ThresholdReached ==
  ASSUME IndInv, NEW w \in Pool, MayBlockThreshold(w)
  PROVE  IndInv'
<1>1. /\ UNCHANGED <<g, policy, exec, pc, task, scope, may_block, incremented,
                     event, adjust_tasks, posts, blockings>>
      /\ w \in may_block /\ aged' = aged \cup {w}
  BY DEF MayBlockThreshold
<1>2. Typed'
  BY <1>1 DEF IndInv, Typed
<1>3. Control'
  BY <1>1 DEF IndInv, Control, Flushed
<1>4. Tasks'
  <2>1. \A v \in Pool : KeepsTask(v)
    BY <1>1 DEF KeepsTask
  <2> QED
    BY <2>1, SameTasks DEF IndInv
<1>5. Shape(g, exec, pc, event, adjust_tasks)' /\ Counters(g, task, may_block, incremented)'
  BY <1>1 DEF IndInv
<1> QED
  BY <1>2, <1>3, <1>4, <1>5 DEF IndInv

\* A MAY_BLOCK scope that nobody has counted is left.
LEMMA UnresolvedLeaves ==
  ASSUME IndInv, NEW w \in Pool, pc[w] \in {"running", "upgrade"}, w \in may_block \ incremented,
         NEW k, k = AddUnresolved(g, task[w], -1)
  PROVE  /\ Shape(k, exec, pc, event, adjust_tasks) /\ k.max # 0
         /\ Counters(k, task, may_block \ {w}, incremented)
<1>1. /\ Counters(g, task, may_block, incremented)
      /\ Shape(g, exec, pc, event, adjust_tasks)
      /\ Core(g, exec, pc, event, adjust_tasks) /\ g \in Members
      /\ may_block \in SUBSET Pool /\ incremented \in SUBSET Pool /\ g.max # 0
  BY RunningFacts
<1>2. /\ k \in Members /\ SameFlags(g, k) /\ SameStack(g, k) /\ MinOf(k) = MinOf(g)
      /\ SameLimits(g, k) /\ SameRunning(g, k)
      /\ k.unresolved = g.unresolved + (-1)
      /\ k.unresolved_be = g.unresolved_be + (-1) * BE(task[w])
  BY <1>1, AddUnresolvedFields
<1>3. k.unresolved = g.unresolved - 1 /\ k.unresolved_be = g.unresolved_be - BE(task[w])
  <2>1. g.unresolved \in Int /\ g.unresolved_be \in Int
    BY <1>1 DEF Members
  <2> QED
    BY <1>2, <2>1, BEType
<1>4. Counters(k, task, may_block \ {w}, incremented)
  BY <1>1, <1>2, <1>3, MayBlockEnds
<1>5. Core(k, exec, pc, event, adjust_tasks)
  BY <1>1, <1>2, CoreSame DEF SameFlags
<1>6. Threshold(k)
  BY <1>1, <1>2, UnresolvedThreshold DEF Shape
<1>7. k.max # 0
  BY <1>1, <1>2 DEF SameLimits
<1> QED
  BY <1>4, <1>5, <1>6, <1>7 DEF Core, Shape

\* BlockingTypeUpgraded().
LEMMA UpgradeKeeps ==
  ASSUME IndInv, NEW w \in Pool, BlockingTypeUpgraded(w)
  PROVE  IndInv'
<1>0. /\ pc[w] = "running" /\ pc[w] \in {"running", "upgrade"} /\ Flushed(w)
      /\ scope[w] = "MAY_BLOCK"
      /\ UNCHANGED <<policy, exec, task, incremented, event, adjust_tasks, posts, blockings>>
  BY DEF BlockingTypeUpgraded
<1>1. /\ Typed /\ Control /\ Tasks /\ Counters(g, task, may_block, incremented)
      /\ Shape(g, exec, pc, event, adjust_tasks)
      /\ may_block \in SUBSET Pool /\ incremented \in SUBSET Pool
      /\ Places(pc) /\ g.max # 0 /\ TaskOf(w) /\ w \in Actors /\ w # Main
  BY <1>0, RunningFacts
<1>2. CASE w \in incremented
  <2>1. scope' = [scope EXCEPT ![w] = "WILL_BLOCK"] /\ UNCHANGED <<g, pc, may_block, aged>>
    BY <1>2 DEF BlockingTypeUpgraded
  <2>2. scope' \in [Pool -> Scopes] /\ scope'[w] = "WILL_BLOCK"
        /\ \A v \in Pool : v # w => scope'[v] = scope[v]
    BY <1>1, <2>1 DEF Typed, Scopes
  <2>3. Typed' /\ Control'
    BY <1>0, <1>1, <2>1, <2>2 DEF Typed, Control, Flushed
  <2>4. OthersKeep(w)
    BY <1>0, <2>1, <2>2 DEF OthersKeep, KeepsTask
  <2>5. TaskOf(w)'
    BY <1>0, <1>1, <1>2, <2>1, <2>2 DEF TaskOf
  <2>6. Shape(g, exec, pc, event, adjust_tasks)' /\ Counters(g, task, may_block, incremented)'
    BY <1>0, <1>1, <2>1
  <2> QED
    BY <1>1, <2>3, <2>4, <2>5, <2>6, OneTask DEF IndInv
<1>3. CASE w \notin incremented
  <2>1. /\ may_block' = may_block \ {w} /\ aged' = aged \ {w} /\ UNCHANGED scope
        /\ g' = AddUnresolved(g, task[w], -1) /\ pc' = Moved(pc, w, "upgrade")
    BY <1>3 DEF BlockingTypeUpgraded, Moved
  <2>2. w \in may_block \ incremented
    BY <1>0, <1>1, <1>3 DEF TaskOf
  <2>3. /\ Shape(g', exec, pc, event, adjust_tasks) /\ g'.max # 0
        /\ Counters(g', task, may_block \ {w}, incremented)
    BY <1>0, <2>1, <2>2, UnresolvedLeaves
  <2>4. /\ Shape(g', exec, pc', event, adjust_tasks)
        /\ Places(pc') /\ pc'[w] = "upgrade" /\ pc'[Main] = pc[Main]
        /\ \A b \in Actors : b # w => pc'[b] = pc[b]
    <3>1. MoveOK(g', pc, event, w, "upgrade")
      BY <1>0, <2>3, BusyMoves
    <3>2. Shape(g', exec, pc', event, adjust_tasks) /\ Goes(pc, pc', w, "upgrade")
      BY <1>1, <2>1, <2>3, <3>1, WorkerMoves
    <3> QED
      BY <3>2 DEF Goes
  <2>5. Shape(g, exec, pc, event, adjust_tasks)'
    BY <1>0, <2>4
  <2>6. Counters(g, task, may_block, incremented)'
    BY <1>0, <2>1, <2>3
  <2>7. Typed'
    BY <1>0, <1>1, <2>1, <2>4 DEF Typed
  <2>8. Control'
    BY <1>0, <1>1, <2>3, <2>4, ControlKept
  <2>9. OthersKeep(w)
    BY <1>0, <2>1, <2>4, ActorFacts DEF OthersKeep, KeepsTask
  <2>10. TaskOf(w)'
    BY <1>0, <1>1, <1>3, <2>1, <2>4 DEF TaskOf, Flushed
  <2> QED
    BY <1>1, <2>5, <2>6, <2>7, <2>8, <2>9, <2>10, OneTask DEF IndInv
<1> QED
  BY <1>2, <1>3

\* BlockingEnded().
LEMMA BlockingEndedKeeps ==
  ASSUME IndInv, NEW w \in Pool, BlockingEnded(w)
  PROVE  IndInv'
<1>0. /\ pc[w] = "running" /\ pc[w] \in {"running", "upgrade"} /\ scope[w] # "none"
      /\ scope' = [scope EXCEPT ![w] = "none"] /\ incremented' = incremented \ {w}
      /\ may_block' = may_block \ {w} /\ aged' = aged \ {w}
      /\ UNCHANGED <<policy, exec, pc, task, event, adjust_tasks, posts, blockings>>
      /\ g' = IF w \in incremented THEN DecrementMaxTasks(g, task[w])
                                   ELSE AddUnresolved(g, task[w], -1)
  BY DEF BlockingEnded
<1>1. /\ Typed /\ Control /\ Tasks /\ Counters(g, task, may_block, incremented)
      /\ Shape(g, exec, pc, event, adjust_tasks)
      /\ Core(g, exec, pc, event, adjust_tasks) /\ g \in Members
      /\ may_block \in SUBSET Pool /\ incremented \in SUBSET Pool
      /\ Places(pc) /\ g.max # 0 /\ TaskOf(w) /\ w \in Actors /\ w # Main
  BY <1>0, RunningFacts
<1>2. /\ Shape(g', exec, pc, event, adjust_tasks) /\ g'.max # 0
      /\ Counters(g', task, may_block \ {w}, incremented \ {w})
  <2>1. CASE w \in incremented
    <3>1. g' = DecrementMaxTasks(g, task[w])
      BY <1>0, <2>1
    <3>2. /\ g' \in Members /\ g'.min_allowed = MinOf(g') /\ g'.adjust_posted = g.adjust_posted
          /\ SameStack(g, g') /\ SameRunning(g, g') /\ SameUnresolved(g, g')
          /\ g'.max = g.max + (-1) /\ g'.max_be = g.max_be + (-1) * BE(task[w])
      BY <1>1, <3>1, MaxTasksFields
    <3>3. g'.max = g.max - 1 /\ g'.max_be = g.max_be - BE(task[w])
      <4>1. g.max \in Int /\ g.max_be \in Int
        BY <1>1 DEF Members
      <4> QED
        BY <3>2, <4>1, BEType
    <3>4. Counters(g', task, may_block \ {w}, incremented \ {w}) /\ g'.max > 0
      BY <1>1, <2>1, <3>2, <3>3, WillBlockEnds
    <3>5. Shape(g', exec, pc, event, adjust_tasks)
      BY <1>1, <3>2, CountedShape
    <3>6. g'.max # 0
      BY <3>4
    <3> QED
      BY <3>4, <3>5, <3>6
  <2>2. CASE w \notin incremented
    <3>1. g' = AddUnresolved(g, task[w], -1) /\ incremented \ {w} = incremented
      BY <1>0, <2>2
    <3>2. w \in may_block \ incremented
      BY <1>0, <1>1, <2>2 DEF TaskOf, Typed, Scopes
    <3> QED
      BY <1>0, <3>1, <3>2, UnresolvedLeaves
  <2> QED
    BY <2>1, <2>2
<1>3. Shape(g, exec, pc, event, adjust_tasks)' /\ Counters(g, task, may_block, incremented)'
  BY <1>0, <1>2
<1>4. scope' \in [Pool -> Scopes] /\ scope'[w] = "none"
      /\ \A v \in Pool : v # w => scope'[v] = scope[v]
  BY <1>0, <1>1 DEF Typed, Scopes
<1>5. Typed'
  BY <1>0, <1>1, <1>4 DEF Typed
<1>6. Control'
  BY <1>0, <1>1, <1>2, ControlKept
<1>7. OthersKeep(w)
  BY <1>0, <1>4 DEF OthersKeep, KeepsTask
<1>8. TaskOf(w)'
  BY <1>0, <1>1, <1>4 DEF TaskOf
<1> QED
  BY <1>1, <1>3, <1>5, <1>6, <1>7, <1>8, OneTask DEF IndInv

-----------------------------------------------------------------------------
(***************************************************************************)
(* The invariant holds initially and in every step.                        *)
(***************************************************************************)
\* Nobody has anything to wake up, to start or to schedule before Start().
LEMMA InitShape ==
  ASSUME Init
  PROVE  Shape(g, exec, pc, event, adjust_tasks)
<1>1. /\ g.workers = {} /\ g.created = {} /\ g.idle = <<>> /\ g.unused = {} /\ g.max = 0
      /\ g.adjust_posted = FALSE /\ adjust_tasks = 0 /\ event = {} /\ g \in Members
  <2>1. <<>> \in Seq(Pool) /\ [p \in Priorities |-> 0] \in [Priorities -> Nat]
    OBVIOUS
  <2> QED
    BY <2>1 DEF Init, Members, Priorities
<1>2. \A a \in Actors : exec[a] = EmptyExecutor
  BY DEF Init
<1>3. exec \in [Actors -> Executors]
  BY EmptyFields DEF Init
<1>4. \A w \in Pool : pc[w] = "none"
  BY ActorFacts DEF Init
<1>5. Elems(<<>>) = {} /\ Distinct(<<>>)
  BY DEF Elems, Distinct
<1>6. StackOK(g)
  BY <1>1, <1>5, FS_EmptySet, Limits DEF StackOK
<1>7. Life(g, exec, pc, event)
  BY <1>1, <1>4, <1>5 DEF Life, LifeOf
<1>8. Starts(g, exec, pc)
  BY <1>2, EmptyFields DEF Starts
<1>9. Adjusts(g, exec, adjust_tasks)
  <2>1. Adjusting(exec) = {}
    BY <1>2, EmptyFields DEF Adjusting
  <2> QED
    BY <1>1, <2>1, FS_EmptySet DEF Adjusts
<1> QED
  BY <1>1, <1>3, <1>6, <1>7, <1>8, <1>9 DEF Shape, Threshold

\* The invariant holds before Start().
LEMMA InitInv == Init => IndInv
<1> SUFFICES ASSUME Init PROVE IndInv
  OBVIOUS
<1>1. Shape(g, exec, pc, event, adjust_tasks)
  BY InitShape
<1>2. /\ pc \in [Actors -> Pcs] /\ pc[Main] = "start" /\ pc[Poster] = "post"
      /\ pc[Service] = "serve" /\ \A w \in Pool : pc[w] = "none"
  BY ActorFacts DEF Init, Pcs, WorkerPcs
<1>3. Typed
  <2>1. Places(pc)
    BY <1>2 DEF Places, WorkerPcs
  <2>2. policy \in 1..Len(Policies) /\ blockings \in 0..MaxBlocking
    BY LimitsAssumption DEF Init
  <2>3. /\ task \in [Pool -> Priorities \cup {None}] /\ scope \in [Pool -> Scopes]
        /\ posts \in [Priorities -> Nat]
    BY DEF Init, Scopes
  <2> QED
    BY <2>1, <2>2, <2>3 DEF Init, Typed
<1>4. Control
  BY <1>2, ActorFacts DEF Control, Flushed, Init
<1>5. Tasks
  <2>1. \A w \in Pool : task[w] = None /\ scope[w] = "none"
    BY DEF Init
  <2>2. may_block = {} /\ incremented = {}
    BY DEF Init
  <2> QED
    BY <1>2, <2>1, <2>2 DEF Tasks, TaskOf
<1>6. Counters(g, task, may_block, incremented)
  <2>1. Busy(task) = {} /\ BestEffort(task, Busy(task)) = {}
    BY DEF Init, Busy, BestEffort
  <2>2. may_block \ incremented = {} /\ BestEffort(task, may_block \ incremented) = {}
    BY DEF Init, BestEffort
  <2>3. /\ g.running = 0 /\ g.running_be = 0 /\ g.max = 0 /\ g.unresolved = 0
        /\ g.unresolved_be = 0
    BY DEF Init
  <2> QED
    BY <2>1, <2>2, <2>3, FS_EmptySet DEF Counters
<1> QED
  BY <1>1, <1>3, <1>4, <1>5, <1>6 DEF IndInv

\* A step of a worker's own thread.
LEMMA WorkerStepKeeps ==
  ASSUME IndInv, NEW w \in Pool, WorkerStep(w)
  PROVE  IndInv'
<1>1. CASE WakeUp(w)
  <2>1. /\ pc[w] \in {"sleep", "reset"} /\ pc' = Moved(pc, w, "get")
        /\ event' \in {event, event \ {w}}
        /\ UNCHANGED <<g, policy, exec, taskVars, adjust_tasks, posts, blockings>>
    BY <1>1 DEF WakeUp, Moved
  <2> QED
    BY <2>1, WaitKeeps
<1>2. CASE ResetEvent(w)
  <2>1. /\ pc[w] \in {"sleep", "reset"} /\ pc' = Moved(pc, w, "get")
        /\ event' \in {event, event \ {w}}
        /\ UNCHANGED <<g, policy, exec, taskVars, adjust_tasks, posts, blockings>>
    BY <1>2 DEF ResetEvent, Moved
  <2> QED
    BY <2>1, WaitKeeps
<1>3. CASE GetWork(w)
  BY <1>3, GetWorkKeeps
<1>4. CASE GetWorkAfterFlush(w)
  BY <1>4, AfterFlushKeeps
<1>5. CASE \E again \in Priorities \cup {None} : DidProcessTask(w, again)
  BY <1>5, DidProcessKeeps
<1>6. CASE WillBlockAfterUpgrade(w)
  <2>1. pc[w] = "upgrade" /\ WillBlock(w) /\ blockings' = blockings
        /\ UNCHANGED <<policy, task, may_block, aged, event, adjust_tasks, posts>>
    BY <1>6 DEF WillBlockAfterUpgrade
  <2>2. TaskOf(w) /\ blockings \in 0..MaxBlocking
    BY DEF IndInv, Tasks, Typed
  <2>3. Flushed(w) /\ w \notin may_block \cup incremented
    BY <2>1, <2>2 DEF TaskOf
  <2> QED
    BY <2>1, <2>2, <2>3, WillBlockKeeps
<1> QED
  BY <1>1, <1>2, <1>3, <1>4, <1>5, <1>6 DEF WorkerStep

\* A sleep that times out, and the start of a WILL_BLOCK.
LEMMA TimeoutKeeps ==
  ASSUME IndInv, NEW w \in Pool, SleepTimeout(w)
  PROVE  IndInv'
<1>1. /\ pc[w] \in {"sleep", "reset"} /\ pc' = Moved(pc, w, "get")
      /\ event' \in {event, event \ {w}}
      /\ UNCHANGED <<g, policy, exec, taskVars, adjust_tasks, posts, blockings>>
  BY DEF SleepTimeout, Moved
<1> QED
  BY <1>1, WaitKeeps

\* A WILL_BLOCK scope is entered.
LEMMA WillBlockEnteredKeeps ==
  ASSUME IndInv, NEW w \in Pool, WillBlockEntered(w)
  PROVE  IndInv'
<1>1. /\ pc[w] = "running" /\ Flushed(w) /\ scope[w] = "none" /\ WillBlock(w)
      /\ blockings < MaxBlocking /\ blockings' = blockings + 1
      /\ UNCHANGED <<policy, task, may_block, aged, event, adjust_tasks, posts>>
  BY DEF WillBlockEntered
<1>2. TaskOf(w) /\ blockings \in 0..MaxBlocking
  BY DEF IndInv, Tasks, Typed
<1>3. w \notin may_block \cup incremented
  BY <1>1, <1>2 DEF TaskOf
<1>4. blockings' \in 0..MaxBlocking
  BY <1>1, <1>2, Limits
<1> QED
  BY <1>1, <1>3, <1>4, WillBlockKeeps

\* A step that changes nothing.
LEMMA StutterKeeps ==
  ASSUME IndInv, UNCHANGED vars
  PROVE  IndInv'
<1>1. /\ g' = g /\ policy' = policy /\ exec' = exec /\ pc' = pc /\ task' = task
      /\ scope' = scope /\ may_block' = may_block /\ aged' = aged
      /\ incremented' = incremented /\ event' = event /\ adjust_tasks' = adjust_tasks
      /\ posts' = posts /\ blockings' = blockings
  BY DEF vars, taskVars
<1>2. Typed'
  BY <1>1 DEF IndInv, Typed
<1>3. Control'
  BY <1>1 DEF IndInv, Control, Flushed
<1>4. Tasks'
  <2>1. \A v \in Pool : KeepsTask(v)
    BY <1>1 DEF KeepsTask
  <2> QED
    BY <2>1, SameTasks DEF IndInv
<1>5. Counters(g, task, may_block, incremented)' /\ Shape(g, exec, pc, event, adjust_tasks)'
  BY <1>1 DEF IndInv
<1> QED
  BY <1>2, <1>3, <1>4, <1>5 DEF IndInv

\* IndInv is inductive.
LEMMA NextInv == IndInv /\ [Next]_vars => IndInv'
<1> SUFFICES ASSUME IndInv, [Next]_vars PROVE IndInv'
  OBVIOUS
<1>1. CASE UNCHANGED vars
  BY <1>1, StutterKeeps
<1>2. ASSUME NEW a \in Actors, Flush(a) PROVE IndInv'
  BY <1>2, FlushWakeUpKeeps, FlushStartKeeps, ScheduleKeeps DEF Flush
<1>3. CASE Start \/ SetCanRunPolicy \/ DidUpdateCanRunPolicy \/ AdjustMaxTasks
  BY <1>3, StartKeeps, SetPolicyKeeps, DidUpdateKeeps, AdjustKeeps
<1>4. ASSUME NEW p \in Priorities,
             PushTaskSourceAndWakeUpWorkers(p) \/ UpdateSortKey(p) \/ RemoveTaskSource(p)
      PROVE  IndInv'
  BY <1>4, PushKeeps, SortKeyKeeps, RemoveKeeps
<1>5. ASSUME NEW w \in Pool,
             \/ WorkerStep(w) \/ SleepTimeout(w)
             \/ MayBlockEntered(w) \/ WillBlockEntered(w) \/ MayBlockThreshold(w)
             \/ BlockingTypeUpgraded(w) \/ BlockingEnded(w)
      PROVE  IndInv'
  BY <1>5, WorkerStepKeeps, TimeoutKeeps, MayBlockKeeps, WillBlockEnteredKeeps,
     ThresholdReached, UpgradeKeeps, BlockingEndedKeeps
<1> QED
  BY <1>1, <1>2, <1>3, <1>4, <1>5 DEF Next

\* Every state of ThreadGroupImpl, for any number of workers, posts and blocking
\* calls, satisfies IndInv: the counters, the idle stack, the life of the workers and
\* the threshold agree after every critical section.
THEOREM Invariance == Spec => []IndInv
<1> QED
  BY InitInv, NextInv, PTL DEF Spec

-----------------------------------------------------------------------------
(***************************************************************************)
(* The properties.                                                         *)
(***************************************************************************)
\* The smaller of two or three integers, the larger of two.
LEMMA MinTwo ==
  ASSUME NEW a \in Int, NEW b \in Int
  PROVE  Min({a, b}) \in {a, b} /\ Min({a, b}) <= a /\ Min({a, b}) <= b
<1>1. \E x \in {a, b} : \A y \in {a, b} : x =< y
  OBVIOUS
<1> QED
  BY <1>1 DEF Min

\* The smallest of three integers.
LEMMA MinThree ==
  ASSUME NEW a \in Int, NEW b \in Int, NEW c \in Int
  PROVE  /\ Min({a, b, c}) \in {a, b, c} /\ Min({a, b, c}) <= a
         /\ Min({a, b, c}) <= b /\ Min({a, b, c}) <= c
<1>1. \E x \in {a, b, c} : \A y \in {a, b, c} : x =< y
  <2>1. CASE a =< b /\ a =< c
    BY <2>1
  <2>2. CASE b =< a /\ b =< c
    BY <2>2
  <2>3. CASE c =< a /\ c =< b
    BY <2>3
  <2> QED
    BY <2>1, <2>2, <2>3
<1> QED
  BY <1>1 DEF Min

\* The larger of two integers.
LEMMA MaxTwo ==
  ASSUME NEW a \in Int, NEW b \in Int
  PROVE  Max({a, b}) \in {a, b} /\ Max({a, b}) >= a /\ Max({a, b}) >= b
<1>1. \E x \in {a, b} : \A y \in {a, b} : x >= y
  OBVIOUS
<1> QED
  BY <1>1 DEF Max

\* GetDesiredNumAwakeWorkersLockRequired() without its minima and maximum: e best-effort
\* tasks, e of those running and queued that the limit allows, and the foreground ones.
Desires(h, e, d) ==
  LET a == h.running_be + Additional(h, "BE")
      f == h.running - h.running_be + Additional(h, "FG")
  IN  /\ e \in Int /\ d \in Int
      /\ e = IF a <= h.max_be THEN (IF a >= h.running_be THEN a ELSE h.running_be)
             ELSE (IF h.max_be >= h.running_be THEN h.max_be ELSE h.running_be)
      /\ d <= e + f /\ d <= h.max /\ d <= KMaxNumberOfWorkers
      /\ d = e + f \/ d = h.max \/ d = KMaxNumberOfWorkers

\* The counts in it are integers.
LEMMA DesireTypes ==
  ASSUME NEW h \in Members
  PROVE  /\ h.running \in Int /\ h.running_be \in Int /\ h.max \in Int /\ h.max_be \in Int
         /\ Additional(h, "BE") \in Nat /\ Additional(h, "FG") \in Nat
         /\ KMaxNumberOfWorkers \in Int
<1>1. h.queue["BE"] \in Nat /\ h.queue["FG"] \in Nat
  BY DEF Members, Priorities
<1> QED
  BY <1>1, Limits DEF Members, Additional

\* GetDesiredNumAwakeWorkersLockRequired() computes this.
LEMMA DesiredIs ==
  ASSUME NEW h \in Members
  PROVE  \E e : Desires(h, e, DesiredNumAwakeWorkers(h))
<1>1. /\ h.running \in Int /\ h.running_be \in Int /\ h.max \in Int /\ h.max_be \in Int
      /\ Additional(h, "BE") \in Int /\ Additional(h, "FG") \in Int
      /\ KMaxNumberOfWorkers \in Int
  BY DesireTypes
<1> DEFINE a == h.running_be + Additional(h, "BE")
           f == h.running - h.running_be + Additional(h, "FG")
<1>2. a \in Int /\ f \in Int
  BY <1>1
<1>3. PICK m : m = Min({a, h.max_be})
  OBVIOUS
<1>4. m \in {a, h.max_be} /\ m <= a /\ m <= h.max_be
  BY <1>1, <1>2, <1>3, MinTwo
<1>5. PICK e : e = Max({m, h.running_be})
  OBVIOUS
<1>6. e \in {m, h.running_be} /\ e >= m /\ e >= h.running_be
  <2>1. m \in Int
    BY <1>1, <1>2, <1>4
  <2> QED
    BY <1>1, <1>5, <2>1, MaxTwo
<1>7. e \in Int /\ m \in Int
  BY <1>1, <1>2, <1>4, <1>6
<1>8. DesiredNumAwakeWorkers(h) = Min({e + f, h.max, KMaxNumberOfWorkers})
  BY <1>3, <1>5 DEF DesiredNumAwakeWorkers
<1>9. PICK s \in Int : s = e + f
  BY <1>2, <1>7
<1>10. PICK d : d = Min({s, h.max, KMaxNumberOfWorkers})
  OBVIOUS
<1>11. d \in {s, h.max, KMaxNumberOfWorkers} /\ d <= s /\ d <= h.max /\ d <= KMaxNumberOfWorkers
  BY <1>1, <1>10, MinThree
<1>12. DesiredNumAwakeWorkers(h) = d /\ d \in Int
  BY <1>1, <1>8, <1>9, <1>10, <1>11
<1>13. e = IF a <= h.max_be THEN (IF a >= h.running_be THEN a ELSE h.running_be)
           ELSE (IF h.max_be >= h.running_be THEN h.max_be ELSE h.running_be)
  BY <1>1, <1>2, <1>4, <1>6, <1>7
<1>14. Desires(h, e, d)
  BY <1>7, <1>9, <1>11, <1>12, <1>13 DEF Desires
<1> QED
  BY <1>12, <1>14

\* It respects both limits.
LEMMA DesiredWithinLimits ==
  ASSUME NEW h \in Members
  PROVE  /\ DesiredNumAwakeWorkers(h) \in Int /\ DesiredNumAwakeWorkers(h) <= h.max
         /\ DesiredNumAwakeWorkers(h) <= KMaxNumberOfWorkers
BY DesiredIs DEF Desires

\* While a foreground source waits and as many tasks run as may, the threshold tells
\* best-effort jobs to yield, in every interleaving of those who fill the queue, start and
\* end tasks, raise and lower the limits, or remove a source without updating it.
THEOREM ThresholdHolds == Spec => []YieldsToForeground
<1>1. IndInv => YieldsToForeground
  <2> SUFFICES ASSUME IndInv, g.max > 0, g.queue["FG"] > 0, g.running >= g.max
               PROVE  g.min_allowed = "FG"
    BY DEF YieldsToForeground
  <2>1. g \in Members /\ Threshold(g)
    BY DEF IndInv, Shape
  <2>2. MinOf(g) = "FG"
    BY <2>1, MinIsForeground
  <2>3. g.max # 0
    BY <2>1 DEF Members
  <2> QED
    BY <2>1, <2>2, <2>3 DEF Threshold
<1> QED
  BY <1>1, Invariance, PTL

\* The four parts of what the group believes of its workers.
LEMMA TypeHolds == IndInv => TypeOK
<1> SUFFICES ASSUME IndInv PROVE TypeOK
  OBVIOUS
<1>1. /\ Typed /\ Control /\ Counters(g, task, may_block, incremented)
      /\ g \in Members /\ exec \in [Actors -> Executors]
  BY DEF IndInv, Shape
<1>2. may_block \in SUBSET Pool /\ incremented \in SUBSET Pool
  BY <1>1 DEF Typed
<1>3. g \in Group
  <2>1. g.max = 0 => g.max_be = 0
    BY <1>1 DEF Control
  <2> QED
    BY <1>1, <1>2, <2>1, InGroup
<1> QED
  BY <1>1, <1>2, <1>3 DEF TypeOK, Typed, Executors, Places, WorkerPcs, Scopes

\* The counts of tasks, limits and unresolved MAY_BLOCKs.
LEMMA CountersHold == IndInv => CountersAgree
<1> SUFFICES ASSUME IndInv PROVE CountersAgree
  OBVIOUS
<1>1. Counters(g, task, may_block, incremented) /\ g.max \in Int
  BY DEF IndInv, Shape, Members
<1>2. /\ Running = Busy(task) /\ OfBE(Running) = BestEffort(task, Busy(task))
      /\ OfBE(incremented) = BestEffort(task, incremented)
      /\ Unresolved = may_block \ incremented
      /\ OfBE(Unresolved) = BestEffort(task, may_block \ incremented)
  BY DEF Running, Busy, OfBE, BestEffort, Unresolved
<1>3. g.max > 0 => g.max # 0
  BY <1>1
<1> QED
  BY <1>1, <1>2, <1>3 DEF Counters, CountersAgree

\* The idle stack and the workers that wait.
LEMMA IdleStackHolds == IndInv => IdleStackAgrees
<1> SUFFICES ASSUME IndInv PROVE IdleStackAgrees
  OBVIOUS
<1>1. g \in Members /\ StackOK(g) /\ Life(g, exec, pc, event) /\ g.workers \in SUBSET Pool
  BY DEF IndInv, Shape, Members
<1>2. \A w \in g.workers : /\ LooksIdle(w, g) <=> w \in Elems(g.idle)
                           /\ OnStack(g, w) <=> w \in Elems(g.idle)
  BY <1>1, LooksIdleIsOnStack
<1>3. ASSUME NEW w \in g.workers, pc[w] = "sleep"
      PROVE  OnStack(g, w) \/ WakeUpOnItsWay(w)
  <2>1. LifeOf(w, g, exec, pc, event)
    BY <1>1 DEF Life
  <2>2. w \in Elems(g.idle) \/ w \in event \/ Waking(w, exec)
    BY <1>3, <2>1 DEF LifeOf
  <2> QED
    BY <1>2, <2>2 DEF Waking, Elems, WakeUpOnItsWay
<1> QED
  BY <1>2, <1>3 DEF IdleStackAgrees

\* What the group believes of its workers is so after every step, in any interleaving of
\* MAY_BLOCKs, their upgrades and ends, AdjustMaxTasks(), cleanups and wake-ups: the
\* running, unresolved and maximum counts, the idle stack and the scheduled adjustment.
THEOREM BookkeepingHolds == Spec => []BookkeepingAgrees
<1>1. IndInv => OneAdjustOnItsWay
  BY DEF IndInv, Shape, Adjusts, Adjusting, OneAdjustOnItsWay
<1>2. IndInv => BookkeepingAgrees
  BY <1>1, TypeHolds, CountersHold, IdleStackHolds DEF BookkeepingAgrees
<1> QED
  BY <1>2, Invariance, PTL

\* More tasks run only if a worker has taken one.
LEMMA NotMoreRunning ==
  ASSUME IndInv, IndInv', \A v \in Pool : task'[v] # None => task[v] # None
  PROVE  g'.running <= g.running
<1>1. g.running = Cardinality(Busy(task)) /\ g'.running = Cardinality(Busy(task'))
  BY DEF IndInv, Counters
<1>2. Busy(task') \subseteq Busy(task) /\ Busy(task) \in SUBSET Pool
  BY DEF Busy
<1>3. IsFiniteSet(Busy(task)) /\ Cardinality(Busy(task)) \in Nat
  BY <1>2, PoolFinite
<1>4. Cardinality(Busy(task')) <= Cardinality(Busy(task))
  BY <1>2, <1>3, FS_Subset
<1> QED
  BY <1>1, <1>4

\* The DCHECKs of IncrementTasksRunningLockRequired().
Within ==
  g'.running > g.running =>
    /\ g'.running <= g'.max
    /\ g'.running_be > g.running_be => g'.running_be <= g'.max_be

Awake(h) == h.workers \ Elems(h.idle)

\* GetNumAwakeWorkersLockRequired() counts the workers that are not on the stack.
LEMMA AwakeCount ==
  ASSUME NEW h \in Members, StackOK(h)
  PROVE  /\ IsFiniteSet(Awake(h)) /\ Cardinality(Awake(h)) \in Nat
         /\ NumAwakeWorkers(h) = Cardinality(Awake(h))
<1>1. /\ h.workers \in SUBSET Pool /\ h.idle \in Seq(Pool) /\ Awake(h) \in SUBSET Pool
  BY DEF Members, Awake
<1>2. /\ IsFiniteSet(h.workers) /\ Cardinality(h.workers) \in Nat
      /\ IsFiniteSet(Awake(h)) /\ Cardinality(Awake(h)) \in Nat
  BY <1>1, PoolFinite
<1>3. /\ Cardinality(Elems(h.idle)) = Len(h.idle) /\ IsFiniteSet(Elems(h.idle))
      /\ Elems(h.idle) \subseteq h.workers
  BY <1>1, LenIsCardinality DEF StackOK
<1>4. h.workers \cap Elems(h.idle) = Elems(h.idle)
  BY <1>3
<1>5. Cardinality(h.workers \ Elems(h.idle))
        = Cardinality(h.workers) - Cardinality(h.workers \cap Elems(h.idle))
  BY <1>2, <1>3, FS_Difference
<1> QED
  BY <1>2, <1>3, <1>4, <1>5 DEF NumAwakeWorkers, Awake

\* The workers that run a task, and one that is in GetWork() off the stack, are awake.
LEMMA BusyAreAwake ==
  ASSUME NEW h \in Members, NEW Y, StackOK(h), Life(h, Y, pc, event), Tasks,
         NEW w \in Pool, pc[w] \in {"get", "get2"}, ~LooksIdle(w, h)
  PROVE  Cardinality(Busy(task)) \in Nat /\ Cardinality(Busy(task)) + 1 <= NumAwakeWorkers(h)
<1>1. w \notin Busy(task)
  BY DEF Busy, Tasks, TaskOf
<1>2. Busy(task) \cup {w} \subseteq Awake(h)
  <2>1. ASSUME NEW v \in Busy(task) \cup {w} PROVE v \in Awake(h)
    <3>1. v \in Pool /\ pc[v] \in {"get", "get2", "running", "upgrade"}
      BY DEF Busy, Tasks, TaskOf
    <3>2. LifeOf(v, h, Y, pc, event)
      BY <3>1 DEF Life
    <3>3. v \in h.workers
      BY <3>1, <3>2 DEF LifeOf
    <3>4. v \notin Elems(h.idle)
      <4>1. CASE v = w
        BY <3>3, <4>1, LooksIdleIsOnStack
      <4>2. CASE v \in Busy(task)
        <5>1. pc[v] \in {"running", "upgrade"}
          BY <4>2 DEF Busy, Tasks, TaskOf
        <5> QED
          BY <3>2, <5>1 DEF LifeOf
      <4> QED
        BY <4>1, <4>2
    <3> QED
      BY <3>3, <3>4 DEF Awake
  <2> QED
    BY <2>1
<1>3. Busy(task) \in SUBSET Pool
  BY DEF Busy
<1>4. /\ IsFiniteSet(Busy(task)) /\ Cardinality(Busy(task)) \in Nat
      /\ Cardinality(Busy(task) \cup {w}) = Cardinality(Busy(task)) + 1
  BY <1>1, <1>3, PoolFinite, CountAdd
<1>5. Cardinality(Busy(task) \cup {w}) <= Cardinality(Awake(h))
  BY <1>2, AwakeCount, FS_Subset
<1> QED
  BY <1>4, <1>5, AwakeCount

\* The workers that run a task, and the one that takes another, are awake; a worker
\* takes one only while no more are awake than desired, which is at most max_tasks_.
LEMMA TakesWithinLimits ==
  ASSUME IndInv, NEW w \in Pool, NEW x, NEW Y, AssignContext(w, x, Y), SameCounters(g, x.g),
         ~LooksIdle(w, x.g), ~Excess(x.g), MayTake(x.g), TakeTaskSource(w, x)
  PROVE  Within
<1>0. /\ pc[w] \in {"get", "get2"} /\ x \in Sections /\ x.g \in Members
      /\ Counters(x.g, task, may_block, incremented) /\ StackOK(x.g)
      /\ Life(x.g, Y, pc, event) /\ Tasks
  BY DEF AssignContext, Shape, IndInv
<1>1. PICK p : p = TopPriority(x.g)
  OBVIOUS
<1>2. p \in Priorities /\ x.g.queue[p] > 0
  BY <1>0, <1>1, TopQueued
<1>3. PICK k : k = IncrementTasksRunning(Popped(x.g, p), p)
  OBVIOUS
<1>4. /\ k \in Members /\ SameLimits(x.g, k)
      /\ k.running = x.g.running + 1 /\ k.running_be = x.g.running_be + BE(p)
  BY <1>0, <1>2, <1>3, StartTaskFields
<1>5. g' = k
  <2>1. g' = [x EXCEPT !.g = IncrementTasksRunning(
                                [@ EXCEPT !.queue[p] = x.g.queue[p] - 1], p)].g
    BY <1>1 DEF TakeTaskSource, Leave
  <2> QED
    BY <1>0, <1>3, <2>1 DEF Popped, Sections
<1>6. Cardinality(Busy(task)) + 1 <= NumAwakeWorkers(x.g)
  BY <1>0, BusyAreAwake
<1>7. Cardinality(Busy(task)) + 1 <= x.g.max
  <2>1. /\ DesiredNumAwakeWorkers(x.g) \in Int /\ DesiredNumAwakeWorkers(x.g) <= x.g.max
        /\ x.g.max \in Int
    BY <1>0, DesiredWithinLimits DEF Members
  <2>2. Cardinality(Busy(task)) \in Nat
    <3>1. Busy(task) \in SUBSET Pool
      BY DEF Busy
    <3> QED
      BY <3>1, PoolFinite
  <2>3. NumAwakeWorkers(x.g) \in Int
    <3>1. Cardinality(x.g.workers) \in Nat /\ Len(x.g.idle) \in Nat
      BY <1>0, PoolFinite, ElemsType DEF Members
    <3> QED
      BY <3>1 DEF NumAwakeWorkers
  <2>4. NumAwakeWorkers(x.g) <= DesiredNumAwakeWorkers(x.g)
    BY <2>1, <2>3 DEF Excess
  <2> QED
    BY <1>6, <2>1, <2>2, <2>3, <2>4
<1>8. k.running <= k.max
  BY <1>0, <1>4, <1>7 DEF Counters, SameLimits
<1>9. k.running_be > g.running_be => k.running_be <= k.max_be
  <2>1. x.g.running_be = g.running_be /\ g.running_be \in Int /\ x.g.max_be \in Int
    BY <1>0 DEF SameCounters, SameRunning, Members
  <2>2. CASE p = "BE"
    <3>1. x.g.running_be < x.g.max_be
      BY <1>1, <2>2 DEF MayTake
    <3> QED
      BY <1>4, <2>1, <2>2, <3>1 DEF SameLimits, BE
  <2>3. CASE p # "BE"
    BY <1>4, <2>1, <2>3 DEF BE
  <2> QED
    BY <2>2, <2>3
<1> QED
  BY <1>5, <1>8, <1>9 DEF Within

\* The end of GetWork(): only TakeTaskSource() starts a task.
LEMMA AssignWithinLimits ==
  ASSUME IndInv, IndInv', NEW w \in Pool, NEW x, NEW Y, AssignContext(w, x, Y),
         SameCounters(g, x.g), AssignWork(w, x)
  PROVE  Within
<1>1. CASE task' = task
  <2>1. g'.running <= g.running
    BY <1>1, NotMoreRunning
  <2>2. g'.running \in Int /\ g.running \in Int
    BY DEF IndInv, Shape, Members
  <2> QED
    BY <2>1, <2>2 DEF Within
<1>2. CASE ~LooksIdle(w, x.g) /\ ~Excess(x.g) /\ MayTake(x.g) /\ TakeTaskSource(w, x)
  BY <1>2, TakesWithinLimits
<1> QED
  BY <1>1, <1>2 DEF AssignWork, Cleanup, StayIdle, OnWorkerBecomesIdle

\* Of all steps, only GetWork() can start a task.
LEMMA StepsWithinLimits ==
  ASSUME IndInv, IndInv', [Next]_vars
  PROVE  Within
<1>1. g'.running \in Int /\ g.running \in Int
  BY DEF IndInv, Shape, Members
<1>2. CASE task' = task
  <2>1. g'.running <= g.running
    BY <1>2, NotMoreRunning
  <2> QED
    BY <1>1, <2>1 DEF Within
<1>3. ASSUME NEW w \in Pool, GetWork(w) PROVE Within
  <2>1. PICK z \in EnsureEnoughWorkers(Fresh) :
          \/ AssignWork(w, z)
          \/ UNCHANGED <<event, task>>
    BY <1>3 DEF GetWork
  <2>2. CASE task' = task
    BY <1>2, <2>2
  <2>3. CASE AssignWork(w, z)
    <3>0. pc[w] = "get" /\ Flushed(w)
      BY <1>3 DEF GetWork
    <3>1. PICK Y : Y = [exec EXCEPT ![w] = z.e]
      OBVIOUS
    <3>2. AssignContext(w, z, Y)
      BY <3>0, <3>1, GetWorkContext
    <3>3. SameCounters(g, z.g)
      <4>1. /\ adjust_tasks \in Nat /\ Core(g, exec, pc, event, adjust_tasks) /\ w \in Actors
        BY ShapeCore, ActorFacts DEF IndInv, Typed
      <4>2. z \in EnsureEnoughWorkers([g |-> g, e |-> EmptyExecutor])
        BY FreshWith
      <4> QED
        BY <3>0, <3>1, <4>1, <4>2, Section
    <3> QED
      BY <2>3, <3>2, <3>3, AssignWithinLimits
  <2> QED
    BY <2>1, <2>2, <2>3
<1>4. ASSUME NEW w \in Pool, GetWorkAfterFlush(w) PROVE Within
  <2>1. pc[w] = "get2" /\ Flushed(w) /\ AssignWork(w, Fresh)
    BY <1>4 DEF GetWorkAfterFlush
  <2>2. AssignContext(w, Fresh, exec)
    BY <2>1, AfterFlushContext
  <2>3. SameCounters(g, Fresh.g)
    BY FreshWith DEF SameCounters, SameLimits, SameRunning, SameUnresolved
  <2> QED
    BY <2>1, <2>2, <2>3, AssignWithinLimits
<1>5. ASSUME NEW w \in Pool, NEW again, DidProcessTask(w, again) PROVE Within
  <2>1. task \in [Pool -> Priorities \cup {None}]
    BY DEF IndInv, Typed
  <2>2. task' = [task EXCEPT ![w] = None]
    BY <1>5 DEF DidProcessTask
  <2>3. \A v \in Pool : task'[v] # None => task[v] # None
    BY <2>1, <2>2
  <2>4. g'.running <= g.running
    BY <2>3, NotMoreRunning
  <2> QED
    BY <1>1, <2>4 DEF Within
<1>6. ASSUME NEW w \in Pool, WorkerStep(w) PROVE Within
  <2>1. CASE WakeUp(w) \/ ResetEvent(w) \/ WillBlockAfterUpgrade(w)
    BY <1>2, <2>1 DEF WakeUp, ResetEvent, WillBlockAfterUpgrade, taskVars
  <2> QED
    BY <1>3, <1>4, <1>5, <1>6, <2>1 DEF WorkerStep
<1>7. ASSUME NEW w \in Pool,
             \/ SleepTimeout(w) \/ MayBlockEntered(w) \/ WillBlockEntered(w)
             \/ MayBlockThreshold(w) \/ BlockingTypeUpgraded(w) \/ BlockingEnded(w)
      PROVE  task' = task
  BY <1>7 DEF SleepTimeout, MayBlockEntered, WillBlockEntered, MayBlockThreshold,
     BlockingTypeUpgraded, BlockingEnded, taskVars
<1>8. ASSUME NEW a \in Actors, Flush(a) PROVE task' = task
  BY <1>8 DEF Flush, FlushWakeUp, FlushStart, ScheduleAdjustMaxTasks, taskVars
<1>9. CASE Start \/ SetCanRunPolicy \/ DidUpdateCanRunPolicy \/ AdjustMaxTasks
  <2>1. task' = task
    BY <1>9 DEF Start, SetCanRunPolicy, DidUpdateCanRunPolicy, AdjustMaxTasks, taskVars
  <2> QED
    BY <1>2, <2>1
<1>10. ASSUME NEW p \in Priorities,
              PushTaskSourceAndWakeUpWorkers(p) \/ UpdateSortKey(p) \/ RemoveTaskSource(p)
       PROVE  task' = task
  BY <1>10 DEF PushTaskSourceAndWakeUpWorkers, UpdateSortKey, RemoveTaskSource, taskVars
<1>11. CASE UNCHANGED vars
  <2>1. task' = task
    BY <1>11 DEF vars, taskVars
  <2> QED
    BY <1>2, <2>1
<1> QED
  BY <1>2, <1>6, <1>7, <1>8, <1>9, <1>10, <1>11 DEF Next

\* The DCHECKs of IncrementTasksRunningLockRequired(): a task starts only within
\* max_tasks_ and, if it is best-effort, max_best_effort_tasks_, also when other workers
\* changed the counts while GetWork() had released lock_ to create or wake up workers.
THEOREM StartsHold == Spec => StartsWithinLimits
<1>1. IndInv /\ IndInv' /\ [Next]_vars =>
        [g'.running > g.running =>
           /\ g'.running <= g'.max
           /\ g'.running_be > g.running_be => g'.running_be <= g'.max_be]_vars
  BY StepsWithinLimits DEF Within
<1> QED
  BY <1>1, Invariance, PTL DEF Spec, StartsWithinLimits

-----------------------------------------------------------------------------
(***************************************************************************)
(* Wake-ups are not lost.  Not all workers are asleep while more should be *)
(* awake: EnsureEnoughWorkersLockRequired() pops one if none is awake, and *)
(* a worker goes to sleep only if those that stay awake are enough.        *)
(***************************************************************************)
Attended(h) == DesiredNumAwakeWorkers(h) > NumAwakeWorkers(h) => Awake(h) # {}
Attends == g.max # 0 /\ pc[Main] # "updating" => Attended(g)

\* The number desired depends on the counters only, and the number awake on the stack.
LEMMA SameNumbers ==
  ASSUME NEW h, NEW k
  PROVE  /\ SameCounters(h, k) => DesiredNumAwakeWorkers(k) = DesiredNumAwakeWorkers(h)
         /\ SameStack(h, k) => NumAwakeWorkers(k) = NumAwakeWorkers(h) /\ Awake(k) = Awake(h)
<1>1. SameCounters(h, k) => /\ Additional(k, "BE") = Additional(h, "BE")
                            /\ Additional(k, "FG") = Additional(h, "FG")
  BY DEF SameCounters, Additional
<1>2. SameCounters(h, k) => DesiredNumAwakeWorkers(k) = DesiredNumAwakeWorkers(h)
  BY <1>1 DEF SameCounters, SameLimits, SameRunning, DesiredNumAwakeWorkers
<1> QED
  BY <1>2 DEF SameStack, NumAwakeWorkers, Awake

\* New workers and wake-ups put no worker to sleep.
LEMMA GrowthAwake ==
  ASSUME NEW x, NEW y, Good(x), Growth(x, y)
  PROVE  Awake(x.g) \subseteq Awake(y.g)
<1>1. \A v \in x.g.workers : v \in x.g.created
  BY DEF Good, StackOK
<1> QED
  BY <1>1 DEF Growth, New, Awake

\* With nobody awake and somebody wanted there is a worker to pop, or room to create
\* one: EnsureEnoughWorkersLockRequired()'s DCHECK(worker_to_wakeup).
LEMMA WakesSomebody ==
  ASSUME NEW x, Good(x), Awake(x.g) = {}, DesiredNumAwakeWorkers(x.g) > 0
  PROVE  Awake(WakeUpOneWorker(x).g) # {}
<1>0. x.g \in Members /\ StackOK(x.g) /\ x.g.workers \in SUBSET Pool /\ x.g.max \in Int
  BY DEF Good, Sections, Members
<1>1. PICK y : y = MaintainAtLeastOneIdleWorker(x)
  OBVIOUS
<1>2. Grows(x, y) /\ Good(y)
  BY <1>1, MaintainGrows DEF Grows
<1>3. y.g \in Members /\ StackOK(y.g) /\ y.g.idle \in Seq(Pool)
  BY <1>2 DEF Good, Sections, Members
<1>4. y.g.idle # <<>>
  <2>1. CASE x.g.idle # <<>>
    BY <1>1, <2>1 DEF MaintainAtLeastOneIdleWorker
  <2>2. CASE x.g.idle = <<>>
    <3>1. x.g.workers = {}
      <4>1. Elems(x.g.idle) = {}
        BY <2>2 DEF Elems
      <4> QED
        BY <4>1 DEF Awake
    <3>2. Cardinality(x.g.workers) = 0
      BY <3>1, FS_EmptySet
    <3>3. Cardinality(x.g.workers) < x.g.max /\ Cardinality(x.g.workers) # KMaxNumberOfWorkers
      BY <1>0, <3>2, DesiredWithinLimits, Limits
    <3>4. PICK w, k : w = Unborn(x.g) /\ k = Registered(x.g, w)
      OBVIOUS
    <3>5. w \in Pool /\ k \in Members
      BY <1>0, <3>3, <3>4, RegisterOK
    <3>6. y = [g |-> PushIdle(k, w), e |-> [x.e EXCEPT !.start = Append(@, w)]]
      <4>1. ~(\/ Cardinality(x.g.workers) = KMaxNumberOfWorkers \/ x.g.idle # <<>>
              \/ Cardinality(x.g.workers) >= x.g.max)
        BY <1>0, <2>2, <3>2, <3>3
      <4> QED
        BY <1>1, <3>4, <4>1 DEF MaintainAtLeastOneIdleWorker, Registered, Unborn
    <3>7. y.g.idle = Append(k.idle, w) /\ k.idle \in Seq(Pool)
      BY <3>5, <3>6, PushIdleFields DEF Members
    <3> QED
      BY <3>5, <3>7
  <2> QED
    BY <2>1, <2>2
<1>5. PICK k, t : k = PopIdle(y.g) /\ t = Top(y.g.idle)
  OBVIOUS
<1>6. WakeUpOneWorker(x).g = k
  BY <1>1, <1>4, <1>5 DEF WakeUpOneWorker
<1>7. Elems(k.idle) = Elems(y.g.idle) \ {t} /\ k.workers = y.g.workers
  BY <1>3, <1>4, <1>5, PopOK, PopIdleFields
<1>8. t \in Elems(y.g.idle)
  BY <1>3, <1>4, <1>5, TopType DEF Elems, Top
<1>9. t \in y.g.workers
  BY <1>3, <1>8 DEF StackOK
<1>10. t \in Awake(k)
  BY <1>7, <1>9 DEF Awake
<1> QED
  BY <1>6, <1>10

\* After EnsureEnoughWorkersLockRequired().
LEMMA EnsureAttends ==
  ASSUME NEW x, Good(x), x.g.max # 0, NEW z \in EnsureEnoughWorkers(x)
  PROVE  Attended(z.g)
<1> SUFFICES ASSUME DesiredNumAwakeWorkers(z.g) > NumAwakeWorkers(z.g), Awake(z.g) = {}
             PROVE  FALSE
  BY DEF Attended
<1>1. /\ Good(z) /\ Growth(x, z) /\ x.g \in Members /\ z.g \in Members
      /\ StackOK(x.g) /\ StackOK(z.g)
  BY EnsureOutcome DEF Outcome, Good, Sections
<1>2. Awake(x.g) = {}
  BY <1>1, GrowthAwake
<1>3. NumAwakeWorkers(x.g) = 0 /\ NumAwakeWorkers(z.g) = 0
  BY <1>1, <1>2, AwakeCount, FS_EmptySet
<1>4. DesiredNumAwakeWorkers(x.g) = DesiredNumAwakeWorkers(z.g)
  BY <1>1, SameNumbers DEF Growth
<1>5. DesiredNumAwakeWorkers(x.g) \in Int /\ DesiredNumAwakeWorkers(x.g) > 0
  BY <1>1, <1>3, <1>4, DesiredWithinLimits
<1>6. PICK o, t : o = WakeUpOneWorker(x) /\ t = WakeUpOneWorker(o)
  OBVIOUS
<1>7. PICK y \in {o, t} :
        z = MaybeScheduleAdjustMaxTasks([y EXCEPT !.g = UpdateMinAllowedPriority(@)])
  <2>1. ~(DesiredNumAwakeWorkers(x.g) = NumAwakeWorkers(x.g))
        /\ ~(DesiredNumAwakeWorkers(x.g) < NumAwakeWorkers(x.g))
    BY <1>3, <1>5
  <2>2. CASE DesiredNumAwakeWorkers(x.g) = NumAwakeWorkers(x.g) + 1
    BY <1>6, <2>1, <2>2 DEF EnsureEnoughWorkers
  <2>3. CASE DesiredNumAwakeWorkers(x.g) # NumAwakeWorkers(x.g) + 1
    BY <1>6, <2>1, <2>3 DEF EnsureEnoughWorkers
  <2> QED
    BY <2>2, <2>3
<1>8. Good(o) /\ Good(t) /\ Growth(o, t)
  BY <1>6, WakeUpGrows DEF Grows
<1>9. Awake(o.g) # {}
  BY <1>2, <1>5, <1>6, WakesSomebody
<1>10. Awake(y.g) # {}
  BY <1>7, <1>8, <1>9, GrowthAwake
<1>11. Good(y) /\ y \in Sections /\ y.g \in Members
  BY <1>7, <1>8 DEF Good, Sections
<1>12. PICK k, u : k = UpdateMinAllowedPriority(y.g) /\ u = [y EXCEPT !.g = k]
  OBVIOUS
<1>13. k \in Members /\ SameStack(y.g, k)
  BY <1>11, <1>12, UpdateFields
<1>14. u \in Sections /\ u.g = k
  BY <1>11, <1>12, <1>13 DEF Sections
<1>15. SameStack(u.g, z.g)
  BY <1>7, <1>12, <1>14, ScheduleFields
<1>16. Awake(z.g) = Awake(y.g)
  BY <1>13, <1>14, <1>15 DEF SameStack, Awake
<1> QED
  BY <1>10, <1>16

\* A critical section that changed counters of the group to those of h.
LEMMA SectionAttends ==
  ASSUME IndInv, NEW h \in Members, SameStack(g, h), h.max # 0,
         NEW z \in EnsureEnoughWorkers([g |-> h, e |-> EmptyExecutor])
  PROVE  Attended(z.g)
<1>1. PICK x : x = [g |-> h, e |-> EmptyExecutor]
  OBVIOUS
<1>2. StackOK(h)
  BY DEF IndInv, Shape, StackOK, SameStack
<1>3. Good(x) /\ x.g = h
  BY <1>1, <1>2, Begins
<1> QED
  BY <1>1, <1>3, EnsureAttends

\* A worker that finds nothing it may take leaves enough awake.
LEMMA NothingToTake ==
  ASSUME NEW h \in Members, ~MayTake(h)
  PROVE  DesiredNumAwakeWorkers(h) <= h.running
<1>1. PICK e : Desires(h, e, DesiredNumAwakeWorkers(h))
  BY DesiredIs
<1>2. /\ h.running \in Int /\ h.running_be \in Int /\ h.max_be \in Int
      /\ Additional(h, "BE") \in Nat /\ Additional(h, "FG") \in Nat
  BY DesireTypes
<1>3. h.queue["FG"] \in Nat /\ h.queue["BE"] \in Nat
  BY DEF Members, Priorities
<1>4. CASE h.queue["FG"] > 0
  <2>1. TopPriority(h) = "FG" /\ ~QueueEmpty(h)
    BY <1>3, <1>4 DEF TopPriority, QueueEmpty, Priorities
  <2>2. ~CanRunPriority("FG")
    BY <2>1 DEF MayTake
  <2>3. Additional(h, "FG") = 0 /\ Additional(h, "BE") = 0
    BY <2>2 DEF Additional, CanRunPriority
  <2> QED
    BY <1>1, <1>2, <2>3 DEF Desires
<1>5. CASE h.queue["FG"] = 0
  <2>1. Additional(h, "FG") = 0 /\ TopPriority(h) = "BE"
    BY <1>5 DEF Additional, TopPriority
  <2>2. h.queue["BE"] = 0 \/ ~CanRunPriority("BE") \/ ~(h.running_be < h.max_be)
    BY <1>3, <1>5, <2>1 DEF MayTake, QueueEmpty, Priorities
  <2>3. Additional(h, "BE") = 0 \/ h.running_be >= h.max_be
    BY <1>2, <2>2 DEF Additional
  <2> QED
    BY <1>1, <1>2, <2>1, <2>3 DEF Desires
<1> QED
  BY <1>3, <1>4, <1>5

\* The end of GetWork().
LEMMA AssignAttends ==
  ASSUME IndInv, IndInv', NEW w \in Pool, NEW x, NEW Y, AssignContext(w, x, Y),
         AssignWork(w, x), pc[Main] # "updating" => Attended(x.g), pc'[Main] = pc[Main]
  PROVE  pc[Main] # "updating" => Attended(g')
<1> SUFFICES ASSUME pc[Main] # "updating" PROVE Attended(g')
  OBVIOUS
<1>0. /\ pc[w] \in {"get", "get2"} /\ x \in Sections /\ x.g \in Members
      /\ Counters(x.g, task, may_block, incremented) /\ StackOK(x.g)
      /\ Life(x.g, Y, pc, event) /\ Tasks /\ Attended(x.g) /\ x.g.workers \in SUBSET Pool
  BY DEF AssignContext, Shape, IndInv, Sections, Members
<1>1. w \in x.g.workers /\ (LooksIdle(w, x.g) <=> w \in Elems(x.g.idle))
  <2>1. w \in x.g.workers
    BY <1>0 DEF Life, LifeOf
  <2> QED
    BY <1>0, <2>1, LooksIdleIsOnStack
<1>2. CASE LooksIdle(w, x.g) /\ Cleanup(w, x)
  <2>1. /\ w \in x.g.unused /\ Cardinality(x.g.created \ x.g.workers) < MaxCleanups
        /\ g' = Cleaned(x.g, w)
    BY <1>0, <1>2 DEF Cleanup, Leave, Cleaned, Sections
  <2>2. /\ g' \in Members /\ StackOK(g') /\ SameCounters(x.g, g')
        /\ Elems(g'.idle) = Elems(x.g.idle) \ {w} /\ g'.workers = x.g.workers \ {w}
    BY <1>0, <1>1, <2>1, CleanupOK
  <2>3. Awake(g') = Awake(x.g)
    BY <1>1, <1>2, <2>2 DEF Awake
  <2>4. NumAwakeWorkers(g') = NumAwakeWorkers(x.g)
    BY <1>0, <2>2, <2>3, AwakeCount
  <2>5. DesiredNumAwakeWorkers(g') = DesiredNumAwakeWorkers(x.g)
    BY <2>2, SameNumbers
  <2> QED
    BY <1>0, <2>3, <2>4, <2>5 DEF Attended
<1>3. CASE LooksIdle(w, x.g) /\ StayIdle(w, x)
  <2>1. g' = x.g
    BY <1>3 DEF StayIdle, Leave
  <2> QED
    BY <1>0, <2>1
<1>4. CASE /\ ~LooksIdle(w, x.g)
           /\ Excess(x.g) \/ ~MayTake(x.g)
           /\ OnWorkerBecomesIdle(w, x)
  <2>1. g' = PushIdle(x.g, w)
    BY <1>0, <1>4 DEF OnWorkerBecomesIdle, Leave, Sections
  <2>2. w \notin Elems(x.g.idle) /\ w \notin x.g.unused
    BY <1>0, <1>1, <1>4 DEF StackOK
  <2>3. /\ g' \in Members /\ StackOK(g') /\ Elems(g'.idle) = Elems(x.g.idle) \cup {w}
        /\ g'.workers = x.g.workers /\ SameCounters(x.g, g')
    BY <1>0, <1>1, <2>1, <2>2, PushOK, PushIdleFields
  <2>4. Awake(g') = Awake(x.g) \ {w} /\ w \in Awake(x.g)
    BY <1>1, <2>2, <2>3 DEF Awake
  <2>5. NumAwakeWorkers(g') = NumAwakeWorkers(x.g) - 1 /\ NumAwakeWorkers(x.g) \in Int
    BY <1>0, <2>3, <2>4, AwakeCount, FS_RemoveElement
  <2>6. DesiredNumAwakeWorkers(g') = DesiredNumAwakeWorkers(x.g)
        /\ DesiredNumAwakeWorkers(x.g) \in Int /\ x.g.running \in Int
    BY <1>0, <2>3, SameNumbers, DesiredWithinLimits DEF Members
  <2>7. CASE Excess(x.g)
    <3>1. NumAwakeWorkers(x.g) > DesiredNumAwakeWorkers(x.g)
      BY <2>7 DEF Excess
    <3> QED
      BY <2>5, <2>6, <3>1 DEF Attended
  <2>8. CASE ~MayTake(x.g)
    <3>1. DesiredNumAwakeWorkers(x.g) <= x.g.running
      BY <1>0, <2>8, NothingToTake
    <3>2. x.g.running + 1 <= NumAwakeWorkers(x.g)
      BY <1>0, <1>4, BusyAreAwake DEF Counters
    <3> QED
      BY <2>5, <2>6, <3>1, <3>2 DEF Attended
  <2> QED
    BY <1>4, <2>7, <2>8
<1>5. CASE TakeTaskSource(w, x)
  <2>1. pc'[w] = "running"
    <3>1. pc \in [Actors -> Pcs] /\ w \in Actors
      BY ActorFacts DEF IndInv, Typed, Places
    <3> QED
      BY <1>5, <3>1 DEF TakeTaskSource
  <2>2. LifeOf(w, g', exec', pc', event')
    BY DEF IndInv, Shape, Life
  <2>3. w \in Awake(g')
    BY <2>1, <2>2 DEF LifeOf, Awake
  <2> QED
    BY <2>3 DEF Attended
<1> QED
  BY <1>2, <1>3, <1>4, <1>5 DEF AssignWork

\* A worker that runs, or has just run, a task is awake.
LEMMA BusyAttends ==
  ASSUME IndInv', NEW w \in Pool, pc'[w] \in {"running", "upgrade", "reset"}
  PROVE  Attended(g')
<1>1. LifeOf(w, g', exec', pc', event')
  BY DEF IndInv, Shape, Life
<1>2. w \in Awake(g')
  BY <1>1 DEF LifeOf, Awake
<1> QED
  BY <1>2 DEF Attended

\* RemoveTaskSource() makes no worker more desirable.
LEMMA RemoveAttends ==
  ASSUME IndInv, NEW p \in Priorities, RemoveTaskSource(p), Attended(g)
  PROVE  Attended(g')
<1>0. g \in Members
  BY DEF IndInv, Shape
<1>1. g.queue[p] > 0 /\ g' = Popped(g, p)
  BY DEF RemoveTaskSource, Popped
<1>2. /\ g' \in Members /\ SameStack(g, g') /\ SameLimits(g, g') /\ SameRunning(g, g')
  BY <1>0, <1>1, PoppedFields
<1>3. \A q \in Priorities : g'.queue[q] <= g.queue[q] /\ g'.queue[q] \in Nat /\ g.queue[q] \in Nat
  <2>1. g.queue \in [Priorities -> Nat] /\ g'.queue \in [Priorities -> Nat]
    BY <1>0, <1>2 DEF Members
  <2>2. g'.queue = [g.queue EXCEPT ![p] = g.queue[p] - 1]
    BY <1>0, <1>1 DEF Popped, Members
  <2> QED
    BY <2>1, <2>2
<1>4. /\ Additional(g', "BE") <= Additional(g, "BE") /\ Additional(g', "FG") <= Additional(g, "FG")
  BY <1>3 DEF Additional, Priorities
<1>5. PICK d, e : Desires(g, e, d) /\ d = DesiredNumAwakeWorkers(g)
  BY <1>0, DesiredIs
<1>6. PICK c, b : Desires(g', b, c) /\ c = DesiredNumAwakeWorkers(g')
  BY <1>2, DesiredIs
<1>7. /\ g.running \in Int /\ g.running_be \in Int /\ g.max_be \in Int /\ g.max \in Int
      /\ Additional(g, "BE") \in Nat /\ Additional(g, "FG") \in Nat
      /\ Additional(g', "BE") \in Nat /\ Additional(g', "FG") \in Nat
      /\ KMaxNumberOfWorkers \in Int
  BY <1>0, <1>2, DesireTypes
<1>8. b <= e /\ b \in Int /\ e \in Int
  BY <1>2, <1>4, <1>5, <1>6, <1>7 DEF Desires, SameLimits, SameRunning
<1>9. c <= d /\ c \in Int /\ d \in Int
  BY <1>2, <1>4, <1>5, <1>6, <1>7, <1>8 DEF Desires, SameLimits, SameRunning
<1>10. NumAwakeWorkers(g') = NumAwakeWorkers(g) /\ Awake(g') = Awake(g)
  BY <1>2, SameNumbers
<1>11. NumAwakeWorkers(g) \in Int
  BY <1>0, AwakeCount DEF IndInv, Shape
<1> QED
  BY <1>5, <1>6, <1>9, <1>10, <1>11 DEF Attended

\* The policy does not change.
LEMMA SamePolicy ==
  ASSUME policy' = policy, pc'[Main] # "updating" => Attended(g')
  PROVE  Attends'
<1>1. pc'[Main] # "updating" => Attended(g)'
  BY DEF Attended, DesiredNumAwakeWorkers, Additional, CanRunPriority
<1> QED
  BY <1>1 DEF Attends

\* A step that leaves the group, the policy and Main alone.
LEMMA SameGroup ==
  ASSUME Attends, UNCHANGED <<g, policy>>, pc'[Main] = pc[Main]
  PROVE  Attends'
BY DEF Attends, Attended, DesiredNumAwakeWorkers, Additional, CanRunPriority,
       NumAwakeWorkers, Awake

\* A worker's own steps leave Main where it is.
LEMMA MainStays ==
  ASSUME IndInv, NEW w \in Pool, NEW v, pc' = [pc EXCEPT ![w] = v]
  PROVE  pc'[w] = v /\ pc'[Main] = pc[Main]
BY ActorFacts DEF IndInv, Typed, Places

\* GetWork().
LEMMA GetWorkAttends ==
  ASSUME IndInv, IndInv', Attends, NEW w \in Pool, GetWork(w)
  PROVE  Attends'
<1>0. pc[w] = "get" /\ Flushed(w) /\ policy' = policy
  BY DEF GetWork
<1>1. PICK z \in EnsureEnoughWorkers(Fresh) :
        \/ AssignWork(w, z)
        \/ Leave(w, {z}) /\ pc' = [pc EXCEPT ![w] = "get2"]
  BY DEF GetWork
<1>2. Attended(z.g)
  <2>1. g \in Members /\ SameStack(g, g) /\ g.max # 0
    BY <1>0, Alive DEF IndInv, Shape, SameStack
  <2>2. z \in EnsureEnoughWorkers([g |-> g, e |-> EmptyExecutor])
    BY FreshWith
  <2> QED
    BY <2>1, <2>2, SectionAttends
<1>3. pc'[Main] = pc[Main]
  <2>1. \E v : pc' = [pc EXCEPT ![w] = v]
    BY <1>1 DEF AssignWork, Cleanup, StayIdle, OnWorkerBecomesIdle, TakeTaskSource
  <2> QED
    BY <2>1, MainStays
<1>4. CASE AssignWork(w, z)
  <2>1. PICK Y : Y = [exec EXCEPT ![w] = z.e]
    OBVIOUS
  <2>2. AssignContext(w, z, Y)
    BY <1>0, <2>1, GetWorkContext
  <2>3. pc[Main] # "updating" => Attended(g')
    BY <1>2, <1>3, <1>4, <2>2, AssignAttends
  <2> QED
    BY <1>0, <1>3, <2>3, SamePolicy
<1>5. CASE Leave(w, {z})
  <2>1. g' = z.g
    BY <1>5 DEF Leave
  <2> QED
    BY <1>0, <1>2, <2>1, SamePolicy
<1> QED
  BY <1>1, <1>4, <1>5

\* The end of GetWork() after lock_ was taken again.
LEMMA AfterFlushAttends ==
  ASSUME IndInv, IndInv', Attends, NEW w \in Pool, GetWorkAfterFlush(w)
  PROVE  Attends'
<1>1. pc[w] = "get2" /\ Flushed(w) /\ AssignWork(w, Fresh) /\ policy' = policy
  BY DEF GetWorkAfterFlush
<1>2. AssignContext(w, Fresh, exec)
  BY <1>1, AfterFlushContext
<1>3. pc[Main] # "updating" => Attended(Fresh.g)
  BY <1>1, Alive, FreshWith DEF Attends
<1>4. pc'[Main] = pc[Main]
  <2>1. \E v : pc' = [pc EXCEPT ![w] = v]
    BY <1>1 DEF AssignWork, Cleanup, StayIdle, OnWorkerBecomesIdle, TakeTaskSource
  <2> QED
    BY <2>1, MainStays
<1>5. pc[Main] # "updating" => Attended(g')
  BY <1>1, <1>2, <1>3, <1>4, AssignAttends
<1> QED
  BY <1>1, <1>4, <1>5, SamePolicy

\* A worker with a task, before and after it: pc does not move or goes to v.
LEMMA TaskAttends ==
  ASSUME IndInv, IndInv', NEW w \in Pool, policy' = policy,
         \/ pc' = pc /\ pc[w] = "running"
         \/ \E v \in {"running", "upgrade", "reset"} : pc' = [pc EXCEPT ![w] = v]
  PROVE  Attends'
<1>1. pc'[w] \in {"running", "upgrade", "reset"}
  BY MainStays
<1> QED
  BY <1>1, BusyAttends, SamePolicy

\* The steps of a worker.
LEMMA WorkerAttends ==
  ASSUME IndInv, IndInv', Attends, NEW w \in Pool,
         \/ WorkerStep(w) \/ SleepTimeout(w)
         \/ MayBlockEntered(w) \/ WillBlockEntered(w) \/ MayBlockThreshold(w)
         \/ BlockingTypeUpgraded(w) \/ BlockingEnded(w)
  PROVE  Attends'
<1>1. CASE WakeUp(w) \/ ResetEvent(w) \/ SleepTimeout(w) \/ MayBlockThreshold(w)
  <2>1. UNCHANGED <<g, policy>> /\ pc'[Main] = pc[Main]
    <3>1. pc' = pc \/ pc' = [pc EXCEPT ![w] = "get"]
      BY <1>1 DEF WakeUp, ResetEvent, SleepTimeout, MayBlockThreshold
    <3>2. pc'[Main] = pc[Main]
      BY <3>1, MainStays
    <3> QED
      BY <1>1, <3>2 DEF WakeUp, ResetEvent, SleepTimeout, MayBlockThreshold
  <2> QED
    BY <2>1, SameGroup
<1>2. ASSUME NEW again, DidProcessTask(w, again) PROVE Attends'
  <2>1. policy' = policy /\ pc' = [pc EXCEPT ![w] = "reset"]
    BY <1>2 DEF DidProcessTask
  <2> QED
    BY <2>1, TaskAttends
<1>3. CASE \/ WillBlockAfterUpgrade(w) \/ MayBlockEntered(w) \/ WillBlockEntered(w)
           \/ BlockingTypeUpgraded(w) \/ BlockingEnded(w)
  <2>1. /\ policy' = policy
        /\ \/ pc' = pc /\ pc[w] = "running"
           \/ \E v \in {"running", "upgrade", "reset"} : pc' = [pc EXCEPT ![w] = v]
    BY <1>3 DEF WillBlockAfterUpgrade, MayBlockEntered, WillBlockEntered, WillBlock,
       BlockingTypeUpgraded, BlockingEnded
  <2> QED
    BY <2>1, TaskAttends
<1> QED
  BY <1>1, <1>2, <1>3, GetWorkAttends, AfterFlushAttends DEF WorkerStep

\* The steps of the other threads.
LEMMA OthersAttend ==
  ASSUME IndInv, IndInv', Attends,
         \/ Start \/ SetCanRunPolicy \/ DidUpdateCanRunPolicy \/ AdjustMaxTasks
         \/ \E p \in Priorities : \/ PushTaskSourceAndWakeUpWorkers(p)
                                  \/ UpdateSortKey(p) \/ RemoveTaskSource(p)
  PROVE  Attends'
<1>0. /\ g \in Members /\ SameStack(g, g) /\ pc \in [Actors -> Pcs] /\ Main \in Actors
      /\ may_block \in SUBSET Pool /\ incremented \in SUBSET Pool /\ aged \in SUBSET may_block
  BY ActorFacts DEF IndInv, Shape, Typed, Places, SameStack
<1>1. CASE SetCanRunPolicy
  <2>1. pc'[Main] = "updating"
    BY <1>0, <1>1 DEF SetCanRunPolicy
  <2> QED
    BY <2>1 DEF Attends
\* The others keep the policy and call EnsureEnoughWorkersLockRequired() with members h.
<1>2. ASSUME NEW h \in Members, SameStack(g, h), policy' = policy, NEW a,
             Leave(a, EnsureEnoughWorkers([g |-> h, e |-> EmptyExecutor]))
      PROVE  Attends'
  <2>1. PICK z \in EnsureEnoughWorkers([g |-> h, e |-> EmptyExecutor]) : g' = z.g
    BY <1>2 DEF Leave
  <2>2. CASE h.max # 0
    <3>1. Attended(g')
      BY <1>2, <2>1, <2>2, SectionAttends
    <3> QED
      BY <1>2, <3>1, SamePolicy
  <2>3. CASE h.max = 0
    <3>1. z = [g |-> h, e |-> EmptyExecutor]
      BY <2>1, <2>3 DEF EnsureEnoughWorkers
    <3>2. g'.max = 0
      BY <2>1, <2>3, <3>1
    <3> QED
      BY <3>2 DEF Attends
  <2> QED
    BY <2>2, <2>3
<1>3. CASE Start
  <2>1. PICK h : h = WithLimits(g, InitialMax, InitialMaxBE)
    OBVIOUS
  <2>2. h \in Members /\ SameStack(g, h)
    BY <1>0, <2>1, Limits, SetLimits
  <2>3. [Fresh EXCEPT !.g = [@ EXCEPT !.max = InitialMax, !.max_be = InitialMaxBE]]
          = [g |-> h, e |-> EmptyExecutor]
    BY <2>1 DEF Fresh, WithLimits
  <2> QED
    BY <1>2, <1>3, <2>2, <2>3 DEF Start
<1>4. CASE DidUpdateCanRunPolicy
  BY <1>0, <1>2, <1>4, FreshWith DEF DidUpdateCanRunPolicy
<1>5. CASE AdjustMaxTasks
  <2>1. PICK S \in SUBSET Pool : S = MustIncrement
    BY <1>0 DEF MustIncrement
  <2>2. PICK i, h : i = [g EXCEPT !.adjust_posted = FALSE] /\ h = Resolved(i, S)
    OBVIOUS
  <2>3. i \in Members /\ SameStack(g, i)
    BY <1>0, <2>2, SetFlags
  <2>4. h \in Members /\ SameStack(i, h)
    BY <2>1, <2>2, <2>3, ResolvedFields
  <2>5. [Fresh EXCEPT !.g = Resolved([@ EXCEPT !.adjust_posted = FALSE], MustIncrement)]
          = [g |-> h, e |-> EmptyExecutor]
    <3>1. Fresh.g = g /\ Resolved([g EXCEPT !.adjust_posted = FALSE], MustIncrement) = h
      BY <2>1, <2>2, FreshWith
    <3>2. [Fresh EXCEPT !.g = Resolved([@ EXCEPT !.adjust_posted = FALSE], MustIncrement)]
            = [Fresh EXCEPT !.g = h]
      BY <3>1
    <3> QED
      BY <3>2, FreshWith
  <2>6. SameStack(g, h)
    BY <2>3, <2>4 DEF SameStack
  <2>7. /\ policy' = policy
        /\ Leave(Service, EnsureEnoughWorkers([g |-> h, e |-> EmptyExecutor]))
    BY <1>5, <2>5 DEF AdjustMaxTasks
  <2> QED
    BY <1>2, <2>4, <2>6, <2>7
<1>6. ASSUME NEW p \in Priorities, PushTaskSourceAndWakeUpWorkers(p) PROVE Attends'
  <2>1. PICK h : h = Pushed(g, p)
    OBVIOUS
  <2>2. h \in Members /\ SameStack(g, h)
    BY <1>0, <2>1, PushedFields
  <2>3. Push(Fresh, p) = [g |-> h, e |-> EmptyExecutor]
    BY <1>0, <2>1, FreshWith, PushWith
  <2> QED
    BY <1>2, <1>6, <2>2, <2>3 DEF PushTaskSourceAndWakeUpWorkers
<1>7. ASSUME NEW p \in Priorities, UpdateSortKey(p) PROVE Attends'
  <2>1. PICK q : q = CHOOSE r \in Priorities : r # p
    OBVIOUS
  <2>2. q \in Priorities /\ q # p
    BY <2>1, OtherPriority
  <2>3. PICK h : h = [g EXCEPT !.queue[p] = @ - 1, !.queue[q] = @ + 1]
    OBVIOUS
  <2>4. /\ policy' = policy /\ g.queue[p] > 0
        /\ Leave(Poster, EnsureEnoughWorkers([Fresh EXCEPT !.g = h]))
    BY <1>7, <2>1, <2>3 DEF UpdateSortKey
  <2>5. h \in Members /\ SameStack(g, h)
    BY <1>0, <2>2, <2>3, <2>4, MovedFields
  <2> QED
    BY <1>2, <2>4, <2>5, FreshWith
<1>8. ASSUME NEW p \in Priorities, RemoveTaskSource(p) PROVE Attends'
  <2>1. policy' = policy /\ pc' = pc
    BY <1>8 DEF RemoveTaskSource
  <2>2. g'.max = g.max
    BY <1>0, <1>8 DEF RemoveTaskSource, Members
  <2>3. CASE g.max = 0 \/ pc[Main] = "updating"
    BY <2>1, <2>2, <2>3 DEF Attends
  <2>4. CASE g.max # 0 /\ pc[Main] # "updating"
    <3>1. Attended(g)
      BY <2>4 DEF Attends
    <3>2. Attended(g')
      BY <1>8, <3>1, RemoveAttends
    <3> QED
      BY <2>1, <3>2, SamePolicy
  <2> QED
    BY <2>3, <2>4
<1> QED
  BY <1>1, <1>3, <1>4, <1>5, <1>6, <1>7, <1>8

\* Every step keeps somebody awake while there is work for a worker.
LEMMA NextAttends == IndInv /\ IndInv' /\ Attends /\ [Next]_vars => Attends'
<1> SUFFICES ASSUME IndInv, IndInv', Attends, [Next]_vars PROVE Attends'
  OBVIOUS
<1>1. CASE UNCHANGED vars
  <2>1. UNCHANGED <<g, policy>> /\ pc' = pc
    BY <1>1 DEF vars
  <2> QED
    BY <2>1, SameGroup
<1>2. ASSUME NEW a \in Actors, Flush(a) PROVE Attends'
  <2>1. UNCHANGED <<g, policy>>
    BY <1>2 DEF Flush, FlushWakeUp, FlushStart, ScheduleAdjustMaxTasks
  <2>2. pc'[Main] = pc[Main]
    <3>1. CASE FlushStart(a)
      <4>1. PICK w : w = Head(exec[a].start) /\ pc' = [pc EXCEPT ![w] = "sleep"]
        BY <3>1 DEF FlushStart
      <4>2. w \in Pool
        <5>1. exec[a].start \in Seq(Pool) /\ exec[a].start # <<>>
          BY <3>1 DEF IndInv, Shape, Executors, FlushStart
        <5> QED
          BY <4>1, <5>1
      <4> QED
        BY <4>1, <4>2, MainStays
    <3>2. CASE FlushWakeUp(a) \/ ScheduleAdjustMaxTasks(a)
      BY <3>2 DEF FlushWakeUp, ScheduleAdjustMaxTasks
    <3> QED
      BY <1>2, <3>1, <3>2 DEF Flush
  <2> QED
    BY <2>1, <2>2, SameGroup
<1>3. CASE \/ Start \/ SetCanRunPolicy \/ DidUpdateCanRunPolicy \/ AdjustMaxTasks
           \/ \E p \in Priorities : \/ PushTaskSourceAndWakeUpWorkers(p)
                                    \/ UpdateSortKey(p) \/ RemoveTaskSource(p)
  BY <1>3, OthersAttend
<1>4. ASSUME NEW w \in Pool,
             \/ WorkerStep(w) \/ SleepTimeout(w)
             \/ MayBlockEntered(w) \/ WillBlockEntered(w) \/ MayBlockThreshold(w)
             \/ BlockingTypeUpgraded(w) \/ BlockingEnded(w)
      PROVE  Attends'
  BY <1>4, WorkerAttends
<1> QED
  BY <1>1, <1>2, <1>3, <1>4 DEF Next

\* Wake-ups are not lost: in every state in which more workers should be awake than are,
\* one is off the idle stack and runs a task, looks for work or is about to be woken up
\* (or DidUpdateCanRunPolicy() is still to come).
THEOREM WakeUpHolds == Spec => []WakeUpNotLost
<1>1. Init => Attends
  BY DEF Init, Attends
<1>2. IndInv /\ Attends => WakeUpNotLost
  <2> SUFFICES ASSUME IndInv, Attends, g.max > 0, pc[Main] # "updating",
                      DesiredNumAwakeWorkers(g) > NumAwakeWorkers(g)
               PROVE  \E w \in g.workers : /\ ~OnStack(g, w)
                                           /\ pc[w] \in {"none", "sleep"} => WakeUpOnItsWay(w)
    BY DEF WakeUpNotLost
  <2>1. /\ g \in Members /\ StackOK(g) /\ Life(g, exec, pc, event) /\ g.workers \in SUBSET Pool
        /\ g.max \in Int
    BY DEF IndInv, Shape, Members
  <2>2. PICK w \in g.workers : w \notin Elems(g.idle)
    BY <2>1 DEF Attends, Attended, Awake
  <2>3. ~OnStack(g, w)
    BY <2>1, <2>2, LooksIdleIsOnStack
  <2>4. pc[w] \in {"none", "sleep"} => w \in event \/ Waking(w, exec)
    BY <2>1, <2>2 DEF Life, LifeOf
  <2>5. pc[w] \in {"none", "sleep"} => WakeUpOnItsWay(w)
    BY <2>4 DEF Waking, Elems, WakeUpOnItsWay
  <2> QED
    BY <2>3, <2>5
<1> QED
  BY <1>1, <1>2, Invariance, NextAttends, PTL DEF Spec
=============================================================================
