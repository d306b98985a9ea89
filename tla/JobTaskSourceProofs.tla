------------------------ MODULE JobTaskSourceProofs ------------------------
(***************************************************************************)
(* Machine-checked proofs about JobTaskSource: the worker count of state_  *)
(* is exact, no more threads run worker_task_ than the max concurrency     *)
(* ever allowed, every registration has an owner, and Cancel() returns     *)
(* after the last worker. For any number of workers, items and yields.     *)
(***************************************************************************)
EXTENDS JobTaskSource, FiniteSetTheorems, TLAPS

\* Who holds the lock of the thread group, and where a call returns to.
Control ==
  \A w \in Workers : ret[w] = "process" /\ (pc[w] = "admit" <=> group_lock = w)

\* A thread with an item that it took and has not completed.
HasItem(t) == pc[t] = "process" \/ (pc[t] \in NotifyPcs /\ ret[t] = "process")
Processing == {t \in Threads : HasItem(t)}

Accounting ==
  /\ count = Cardinality(Counted)
  /\ entries <= 1 /\ (group_lock # None => entries = 1)
  /\ registered = entries + Cardinality(Holding) + Cardinality(Pushing)
  /\ work = todo + Cardinality(Processing) /\ work <= added

\* Only WillJoin() may exceed the max concurrency, by one, and then the joining thread waits
\* until it finds a lower count.
JoinerWaits ==
  count > Cap => /\ count = Cap + 1
                 /\ pc[Joiner] \in {"load_max", "wait_lock", "wait_max", "waiting"}
                 /\ pc[Joiner] \in {"load_max", "wait_max"} => seen[Joiner] > Cap

\* Workers are admitted up to the max concurrency that they have read.
Admission ==
  /\ \A w \in Workers : pc[w] = "admit" => seen[w] <= Cap
  /\ JoinerWaits

\* Once canceled, the count only goes down, and what the joining thread has read bounds it.
Cancellation ==
  /\ how = "cancel" => canceled
  /\ how = "cancel" /\ pc[Joiner] = "wait_max" => count <= seen[Joiner]
  /\ how = "cancel" /\ pc[Joiner] \in {"remove", "joined"} => count = 0

IndInv == TypeOK /\ Control /\ Accounting /\ Admission /\ Cancellation

-----------------------------------------------------------------------------
(***************************************************************************)
(* Places of the threads, and counting them.                               *)
(***************************************************************************)
LoadPcs == {"load", "load_max", "wait_lock", "wait_max", "waiting"}

\* What a place and a return address say of a thread.
InTaskAt(p, r) == p \in TaskPcs \/ (p \in NotifyPcs /\ r = "process")
CountedAt(p, r) == InTaskAt(p, r) \/ p \in {"before", "clear", "did"} \cup LoadPcs
HoldingAt(p, r) == InTaskAt(p, r) \/ p \in {"before", "clear", "did", "did_max", "reenqueue"}
HasItemAt(p, r) == p = "process" \/ (p \in NotifyPcs /\ r = "process")

\* t moves; nobody else does, but the joining thread may be woken up.
Moves(t) ==
  \A u \in Threads : u # t =>
    /\ ret'[u] = ret[u]
    /\ pc'[u] = pc[u] \/ (u = Joiner /\ pc[u] = "waiting" /\ pc'[u] = "wait_lock")

\* The sets that are counted, place by place.
ByPlace ==
  /\ Counted = {t \in Threads : CountedAt(pc[t], ret[t])}
  /\ Holding = {w \in Workers : HoldingAt(pc[w], ret[w])}
  /\ Processing = {t \in Threads : HasItemAt(pc[t], ret[t])}

\* Whether a thread is counted, holds a registration or has an item is a matter of its place.
LEMMA Places == TypeOK => ByPlace
<1> SUFFICES ASSUME TypeOK PROVE ByPlace
  OBVIOUS
<1>1. ASSUME NEW t PROVE t \in Counted <=> t \in Threads /\ CountedAt(pc[t], ret[t])
  <2>1. CASE t = Joiner
    <3>1. t \notin Workers /\ t \in Threads /\ pc[t] \in JoinPcs
      BY <2>1, ThreadsAssumption DEF Threads, TypeOK
    <3> QED
      BY <2>1, <3>1
         DEF Counted, CountedAt, InTask, InTaskAt, LoadPcs, JoinPcs, TaskPcs, NotifyPcs
  <2>2. CASE t \in Workers
    <3>1. t # Joiner /\ t \in Threads /\ pc[t] \in WorkerPcs
      BY <2>2, ThreadsAssumption DEF Threads, TypeOK
    <3> QED
      BY <2>2, <3>1
         DEF Counted, CountedAt, InTask, InTaskAt, LoadPcs, WorkerPcs, TaskPcs, NotifyPcs
  <2>3. CASE t \notin Threads
    BY <2>3 DEF Counted, Threads
  <2> QED
    BY <2>1, <2>2, <2>3 DEF Threads
<1>2. ASSUME NEW t PROVE t \in Holding <=> t \in Workers /\ HoldingAt(pc[t], ret[t])
  <2>1. CASE t \in Workers
    <3>1. t \in Threads /\ pc[t] \in WorkerPcs
      BY <2>1 DEF Threads, TypeOK
    <3> QED
      BY <1>1, <2>1, <3>1
         DEF Holding, HoldingAt, CountedAt, InTaskAt, LoadPcs, WorkerPcs, TaskPcs, NotifyPcs
  <2> QED
    BY <2>1 DEF Holding
<1>3. Processing = {t \in Threads : HasItemAt(pc[t], ret[t])}
  BY DEF Processing, HasItem, HasItemAt
<1> QED
  BY <1>1, <1>2, <1>3 DEF ByPlace

\* There are finitely many threads.
LEMMA FiniteThreads == IsFiniteSet(Threads)
BY ThreadsAssumption, FS_AddElement DEF Threads

\* The sets are finite.
LEMMA FiniteSets_ ==
  /\ IsFiniteSet(Counted) /\ IsFiniteSet(Holding) /\ IsFiniteSet(Pushing) /\ IsFiniteSet(Processing)
  /\ Cardinality(Counted) \in Nat /\ Cardinality(Holding) \in Nat
  /\ Cardinality(Pushing) \in Nat /\ Cardinality(Processing) \in Nat
<1>1. /\ Counted \subseteq Threads /\ Holding \subseteq Threads
      /\ Pushing \subseteq Threads /\ Processing \subseteq Threads
  BY DEF Counted, Holding, Pushing, Processing, Threads
<1>2. IsFiniteSet(Counted) /\ IsFiniteSet(Holding) /\ IsFiniteSet(Pushing) /\ IsFiniteSet(Processing)
  BY <1>1, FiniteThreads, FS_Subset
<1> QED
  BY <1>2, FS_CardinalityType

\* A set of which one element may come or go.
LEMMA CardStep ==
  ASSUME NEW S, NEW T, NEW t, IsFiniteSet(S), \A u : u # t => (u \in T <=> u \in S)
  PROVE  /\ Cardinality(S) \in Nat /\ Cardinality(T) \in Nat
         /\ Cardinality(T) = Cardinality(S) + (IF t \in T THEN 1 ELSE 0)
                                            - (IF t \in S THEN 1 ELSE 0)
<1>1. Cardinality(S) \in Nat
  BY FS_CardinalityType
<1>2. CASE t \in T /\ t \notin S
  <2>1. T = S \cup {t}
    BY <1>2
  <2>2. Cardinality(T) = Cardinality(S) + 1
    BY <1>2, <2>1, FS_AddElement
  <2> QED
    BY <1>1, <1>2, <2>2
<1>3. CASE t \notin T /\ t \in S
  <2>1. T = S \ {t}
    BY <1>3
  <2>2. IsFiniteSet(T) /\ Cardinality(T) = Cardinality(S) - 1
    BY <1>3, <2>1, FS_RemoveElement
  <2>3. Cardinality(T) \in Nat
    BY <2>2, FS_CardinalityType
  <2> QED
    BY <1>1, <1>3, <2>2, <2>3
<1>4. CASE t \in T <=> t \in S
  <2>1. T = S
    BY <1>4
  <2> QED
    BY <1>1, <1>4, <2>1
<1> QED
  BY <1>2, <1>3, <1>4

Num(b) == IF b THEN 1 ELSE 0

\* How the numbers change when t moves.
LEMMA Counts ==
  ASSUME TypeOK, TypeOK', NEW t \in Threads, Moves(t)
  PROVE  /\ Cardinality(Counted') = Cardinality(Counted)
              + Num(CountedAt(pc'[t], ret'[t])) - Num(CountedAt(pc[t], ret[t]))
         /\ Cardinality(Holding') = Cardinality(Holding)
              + Num(t \in Workers /\ HoldingAt(pc'[t], ret'[t]))
              - Num(t \in Workers /\ HoldingAt(pc[t], ret[t]))
         /\ Cardinality(Pushing') = Cardinality(Pushing) + Num(pc'[t] = "push") - Num(pc[t] = "push")
         /\ Cardinality(Processing') = Cardinality(Processing)
              + Num(HasItemAt(pc'[t], ret'[t])) - Num(HasItemAt(pc[t], ret[t]))
<1>1. /\ Counted' = {u \in Threads : CountedAt(pc'[u], ret'[u])}
      /\ Holding' = {w \in Workers : HoldingAt(pc'[w], ret'[w])}
      /\ Processing' = {u \in Threads : HasItemAt(pc'[u], ret'[u])}
  <2>1. (TypeOK => ByPlace)'
    BY Places, PTL
  <2> QED
    BY <2>1 DEF ByPlace, CountedAt, HoldingAt, HasItemAt, InTaskAt
<1>2. /\ Counted = {u \in Threads : CountedAt(pc[u], ret[u])}
      /\ Holding = {w \in Workers : HoldingAt(pc[w], ret[w])}
      /\ Processing = {u \in Threads : HasItemAt(pc[u], ret[u])}
  BY Places DEF ByPlace
<1>3. ASSUME NEW u \in Threads, u # t
      PROVE  /\ CountedAt(pc'[u], ret'[u]) <=> CountedAt(pc[u], ret[u])
             /\ u \in Workers => (HoldingAt(pc'[u], ret'[u]) <=> HoldingAt(pc[u], ret[u]))
             /\ HasItemAt(pc'[u], ret'[u]) <=> HasItemAt(pc[u], ret[u])
             /\ pc'[u] = "push" <=> pc[u] = "push"
  <2>1. ret'[u] = ret[u]
    BY <1>3 DEF Moves
  <2>2. CASE pc'[u] = pc[u]
    BY <2>1, <2>2
  <2>3. CASE u = Joiner /\ pc[u] = "waiting" /\ pc'[u] = "wait_lock"
    BY <2>1, <2>3, ThreadsAssumption
       DEF CountedAt, HasItemAt, InTaskAt, LoadPcs, TaskPcs, NotifyPcs
  <2> QED
    BY <1>3, <2>2, <2>3 DEF Moves
<1>4. Cardinality(Counted') = Cardinality(Counted)
        + (IF t \in Counted' THEN 1 ELSE 0) - (IF t \in Counted THEN 1 ELSE 0)
  <2>1. \A u : u # t => (u \in Counted' <=> u \in Counted)
    BY <1>1, <1>2, <1>3
  <2> QED
    BY <2>1, FiniteSets_, CardStep
<1>5. Cardinality(Holding') = Cardinality(Holding)
        + (IF t \in Holding' THEN 1 ELSE 0) - (IF t \in Holding THEN 1 ELSE 0)
  <2>1. \A u : u # t => (u \in Holding' <=> u \in Holding)
    BY <1>1, <1>2, <1>3 DEF Threads
  <2> QED
    BY <2>1, FiniteSets_, CardStep
<1>6. Cardinality(Pushing') = Cardinality(Pushing)
        + (IF t \in Pushing' THEN 1 ELSE 0) - (IF t \in Pushing THEN 1 ELSE 0)
  <2>1. \A u : u # t => (u \in Pushing' <=> u \in Pushing)
    BY <1>3 DEF Pushing
  <2> QED
    BY <2>1, FiniteSets_, CardStep
<1>7. Cardinality(Processing') = Cardinality(Processing)
        + (IF t \in Processing' THEN 1 ELSE 0) - (IF t \in Processing THEN 1 ELSE 0)
  <2>1. \A u : u # t => (u \in Processing' <=> u \in Processing)
    BY <1>1, <1>2, <1>3
  <2> QED
    BY <2>1, FiniteSets_, CardStep
<1>8. (t \in Pushing <=> pc[t] = "push") /\ (t \in Pushing' <=> pc'[t] = "push")
  BY DEF Pushing
<1>9. /\ t \in Counted <=> CountedAt(pc[t], ret[t])
      /\ t \in Counted' <=> CountedAt(pc'[t], ret'[t])
      /\ t \in Holding <=> t \in Workers /\ HoldingAt(pc[t], ret[t])
      /\ t \in Holding' <=> t \in Workers /\ HoldingAt(pc'[t], ret'[t])
      /\ t \in Processing <=> HasItemAt(pc[t], ret[t])
      /\ t \in Processing' <=> HasItemAt(pc'[t], ret'[t])
  BY <1>1, <1>2
<1> QED
  BY <1>4, <1>5, <1>6, <1>7, <1>8, <1>9 DEF Num

\* A thread that is counted makes its counter positive.
LEMMA Positive ==
  ASSUME IndInv, NEW t \in Threads
  PROVE  /\ CountedAt(pc[t], ret[t]) => count >= 1
         /\ t \in Workers /\ HoldingAt(pc[t], ret[t]) => registered >= 1
         /\ pc[t] = "push" => registered >= 1
         /\ HasItemAt(pc[t], ret[t]) => work >= 1
         /\ registered - entries \in Nat /\ todo <= work /\ work <= added
<1>0. TypeOK /\ Accounting
  BY DEF IndInv
<1>1. /\ Counted = {u \in Threads : CountedAt(pc[u], ret[u])}
      /\ Holding = {w \in Workers : HoldingAt(pc[w], ret[w])}
      /\ Processing = {u \in Threads : HasItemAt(pc[u], ret[u])}
  BY <1>0, Places DEF ByPlace
<1>2. \A S : IsFiniteSet(S) /\ t \in S => Cardinality(S) >= 1
  <2> SUFFICES ASSUME NEW S, IsFiniteSet(S), t \in S PROVE Cardinality(S) >= 1
    OBVIOUS
  <2>1. Cardinality(S) \in Nat /\ Cardinality(S) # 0
    BY FS_CardinalityType, FS_EmptySet
  <2> QED
    BY <2>1
<1>3. /\ CountedAt(pc[t], ret[t]) => Cardinality(Counted) >= 1
      /\ t \in Workers /\ HoldingAt(pc[t], ret[t]) => Cardinality(Holding) >= 1
      /\ HasItemAt(pc[t], ret[t]) => Cardinality(Processing) >= 1
      /\ pc[t] = "push" => Cardinality(Pushing) >= 1
  BY <1>1, <1>2, FiniteSets_ DEF Pushing
<1>4. /\ count \in Nat /\ entries \in Nat /\ registered \in Nat /\ todo \in Nat /\ work \in Nat
      /\ added \in Nat
  BY <1>0, BoundsAssumption DEF TypeOK
<1>5. /\ count = Cardinality(Counted)
      /\ registered = entries + Cardinality(Holding) + Cardinality(Pushing)
      /\ work = todo + Cardinality(Processing) /\ work <= added
  BY <1>0 DEF Accounting
<1> QED
  BY <1>3, <1>4, <1>5, FiniteSets_

-----------------------------------------------------------------------------
(***************************************************************************)
(* What the two ways to move do.                                           *)
(***************************************************************************)
\* The places of a thread, and those of all threads.
PcsOf(t) == IF t = Joiner THEN JoinPcs ELSE WorkerPcs

PcsOK ==
  /\ pc \in [Threads -> WorkerPcs \cup JoinPcs]
  /\ \A w \in Workers : pc[w] \in WorkerPcs
  /\ pc[Joiner] \in JoinPcs

\* The place of a thread is one of its own.
LEMMA PcOf ==
  ASSUME TypeOK, NEW t \in Threads PROVE pc[t] \in PcsOf(t)
BY DEF TypeOK, Threads, PcsOf

\* Go() moves one thread.
LEMMA GoPoints ==
  ASSUME TypeOK, NEW t \in Threads, NEW p, Go(t, p)
  PROVE  /\ pc'[t] = p /\ \A u \in Threads : u # t => pc'[u] = pc[u]
         /\ ret' = ret => Moves(t) /\ ret'[t] = ret[t]
         /\ p \in PcsOf(t) => PcsOK'
<1>1. pc'[t] = p /\ \A u \in Threads : u # t => pc'[u] = pc[u]
  BY DEF Go, TypeOK
<1>2. ASSUME p \in PcsOf(t) PROVE PcsOK'
  <2>1. Joiner \in Threads /\ Joiner \notin Workers /\ \A w \in Workers : w \in Threads
    BY ThreadsAssumption DEF Threads
  <2>2. \A u \in Threads : pc'[u] \in PcsOf(u)
    BY <1>1, <1>2, PcOf
  <2>3. \A w \in Workers : pc'[w] \in WorkerPcs
    BY <2>1, <2>2 DEF PcsOf
  <2>4. pc'[Joiner] \in JoinPcs
    BY <2>1, <2>2 DEF PcsOf
  <2>5. p \in WorkerPcs \cup JoinPcs
    BY <1>2 DEF PcsOf
  <2>6. pc' \in [Threads -> WorkerPcs \cup JoinPcs]
    BY <2>5 DEF Go, TypeOK
  <2> QED
    BY <2>3, <2>4, <2>6 DEF PcsOK
<1> QED
  BY <1>1, <1>2 DEF Moves

\* SignalAndGo() moves one thread, and may wake up the joining thread.
LEMMA SignalPoints ==
  ASSUME TypeOK, NEW t \in Threads, NEW p, pc[t] # "waiting", SignalAndGo(t, p), ret' = ret
  PROVE  /\ pc'[t] = p /\ Moves(t) /\ ret'[t] = ret[t]
         /\ p \in PcsOf(t) => PcsOK'
<1>1. Joiner \in Threads /\ Joiner \notin Workers /\ \A w \in Workers : w \in Threads
  BY ThreadsAssumption DEF Threads
<1>2. /\ pc'[t] = p
      /\ \A u \in Threads : u # t =>
           pc'[u] = pc[u] \/ (u = Joiner /\ pc[u] = "waiting" /\ pc'[u] = "wait_lock")
  <2>1. CASE t = Joiner
    BY <2>1 DEF SignalAndGo, Waiting, TypeOK
  <2>2. CASE t # Joiner
    BY <2>2, <1>1 DEF SignalAndGo, Waiting, TypeOK
  <2> QED
    BY <2>1, <2>2
<1>3. ASSUME p \in PcsOf(t) PROVE PcsOK'
  <2>1. "wait_lock" \in JoinPcs
    BY DEF JoinPcs
  <2>2. \A u \in Threads : pc'[u] \in PcsOf(u)
    BY <1>2, <1>3, <2>1, PcOf DEF PcsOf
  <2>3. \A w \in Workers : pc'[w] \in WorkerPcs
    BY <1>1, <2>2 DEF PcsOf
  <2>4. pc'[Joiner] \in JoinPcs
    BY <1>1, <2>2 DEF PcsOf
  <2>5. DOMAIN pc' = Threads /\ pc' = [u \in DOMAIN pc' |-> pc'[u]]
    BY DEF SignalAndGo, TypeOK
  <2>6. \A u \in Threads : pc'[u] \in WorkerPcs \cup JoinPcs
    BY <2>2 DEF PcsOf
  <2>7. pc' \in [Threads -> WorkerPcs \cup JoinPcs]
    BY <2>5, <2>6
  <2> QED
    BY <2>3, <2>4, <2>7 DEF PcsOK
<1> QED
  BY <1>2, <1>3 DEF Moves

\* The counters change by what the thread that moves brings or takes along.
Balanced(t) ==
  /\ count' = count + Num(CountedAt(pc'[t], ret'[t])) - Num(CountedAt(pc[t], ret[t]))
  /\ registered' - entries' = registered - entries
       + Num(t \in Workers /\ HoldingAt(pc'[t], ret'[t]))
       - Num(t \in Workers /\ HoldingAt(pc[t], ret[t]))
       + Num(pc'[t] = "push") - Num(pc[t] = "push")
  /\ work' - todo' = work - todo
       + Num(HasItemAt(pc'[t], ret'[t])) - Num(HasItemAt(pc[t], ret[t]))
  /\ work' <= added' /\ entries' <= 1
  /\ group_lock' # None => entries' = 1

\* Balanced steps keep the accounts.
LEMMA Balance ==
  ASSUME TypeOK, Accounting, TypeOK', NEW t \in Threads, Moves(t), Balanced(t)
  PROVE  Accounting'
<1>1. /\ Cardinality(Counted) \in Nat /\ Cardinality(Holding) \in Nat
      /\ Cardinality(Pushing) \in Nat /\ Cardinality(Processing) \in Nat
  BY FiniteSets_
<1>2. /\ count \in Int /\ entries \in Int /\ registered \in Int /\ todo \in Int /\ work \in Int
      /\ count' \in Int /\ entries' \in Int /\ registered' \in Int /\ todo' \in Int /\ work' \in Int
  BY DEF TypeOK
<1>3. \A b : Num(b) \in Int
  BY DEF Num
<1>4. count' = Cardinality(Counted')
  <2>1. Cardinality(Counted') = Cardinality(Counted)
              + Num(CountedAt(pc'[t], ret'[t])) - Num(CountedAt(pc[t], ret[t]))
    BY Counts
  <2>2. count = Cardinality(Counted)
    BY DEF Accounting
  <2> QED
    BY <2>1, <2>2 DEF Balanced
<1>5. registered' = entries' + Cardinality(Holding') + Cardinality(Pushing')
  <2>1. /\ Cardinality(Holding') = Cardinality(Holding)
              + Num(t \in Workers /\ HoldingAt(pc'[t], ret'[t]))
              - Num(t \in Workers /\ HoldingAt(pc[t], ret[t]))
        /\ Cardinality(Pushing') = Cardinality(Pushing) + Num(pc'[t] = "push") - Num(pc[t] = "push")
    BY Counts
  <2>2. registered = entries + Cardinality(Holding) + Cardinality(Pushing)
    BY DEF Accounting
  <2>3. registered' - entries' = registered - entries
          + Num(t \in Workers /\ HoldingAt(pc'[t], ret'[t]))
          - Num(t \in Workers /\ HoldingAt(pc[t], ret[t]))
          + Num(pc'[t] = "push") - Num(pc[t] = "push")
    BY DEF Balanced
  <2> QED
    BY <1>1, <1>2, <1>3, <2>1, <2>2, <2>3
<1>6. work' = todo' + Cardinality(Processing')
  <2>1. Cardinality(Processing') = Cardinality(Processing)
          + Num(HasItemAt(pc'[t], ret'[t])) - Num(HasItemAt(pc[t], ret[t]))
    BY Counts
  <2>2. work = todo + Cardinality(Processing)
    BY DEF Accounting
  <2>3. work' - todo' = work - todo
          + Num(HasItemAt(pc'[t], ret'[t])) - Num(HasItemAt(pc[t], ret[t]))
    BY DEF Balanced
  <2> QED
    BY <1>1, <1>2, <1>3, <2>1, <2>2, <2>3
<1> QED
  BY <1>4, <1>5, <1>6 DEF Balanced, Accounting

-----------------------------------------------------------------------------
(***************************************************************************)
(* Types and accounts.                                                     *)
(***************************************************************************)
\* A worker is admitted only below the max concurrency that it has read, and not to a canceled job.
LEMMA AdmittedBelow ==
  ASSUME TypeOK, NEW w \in Workers, RunStatus(w) # "kDisallowed"
  PROVE  ~canceled /\ count < seen[w]
<1>1. count \in Nat /\ seen[w] \in Nat
  BY DEF TypeOK, Threads
<1>2. ASSUME canceled \/ count >= seen[w] PROVE FALSE
  <2>1. RunStatus(w) = "kDisallowed"
    BY <1>2, Zenon DEF RunStatus
  <2> QED
    BY <2>1
<1> QED
  BY <1>1, <1>2

\* The outcomes of TakeRegisteredTaskSource().
LEMMA TakeCases ==
  ASSUME IndInv, NEW w \in Workers, TakeRegisteredTaskSource(w)
  PROVE  /\ pc[w] = "admit" /\ Moves(w) /\ ret'[w] = ret[w] /\ PcsOK'
         /\ registered' \in Nat /\ entries' \in Nat /\ entries' <= 1
         /\ \/ /\ pc'[w] = "idle" /\ count' = count
               /\ registered' - entries' = registered - entries
            \/ /\ pc'[w] = "before" /\ count' = count + 1 /\ ~canceled /\ count < seen[w]
               /\ registered' - entries' = registered - entries + 1
<1>1. w \in Threads /\ w # Joiner /\ w # None
  BY ThreadsAssumption DEF Threads
<1>2. TypeOK /\ pc[w] = "admit" /\ ret' = ret
  BY DEF IndInv, TakeRegisteredTaskSource
<1>3. entries = 1
  BY <1>1, <1>2 DEF IndInv, Control, Accounting
<1>4. registered \in Nat /\ registered >= 1 /\ registered - entries \in Nat
  BY <1>1, <1>2, <1>3, Positive DEF TypeOK
<1>5. "idle" \in PcsOf(w) /\ "before" \in PcsOf(w)
  BY <1>1 DEF PcsOf, WorkerPcs
<1>6. CASE Disallowed(w)
  <2>1. Go(w, "idle")
    BY <1>6 DEF Disallowed
  <2>2. pc'[w] = "idle" /\ Moves(w) /\ ret'[w] = ret[w] /\ PcsOK'
    BY <1>1, <1>2, <1>5, <2>1, GoPoints
  <2> QED
    BY <1>2, <1>3, <1>4, <1>6, <2>2 DEF Disallowed
<1>7. CASE AllowedSaturated(w)
  <2>1. Go(w, "before") /\ RunStatus(w) # "kDisallowed"
    BY <1>7 DEF AllowedSaturated
  <2>2. pc'[w] = "before" /\ Moves(w) /\ ret'[w] = ret[w] /\ PcsOK'
    BY <1>1, <1>2, <1>5, <2>1, GoPoints
  <2>3. ~canceled /\ count < seen[w]
    BY <1>2, <2>1, AdmittedBelow
  <2> QED
    BY <1>2, <1>3, <1>4, <1>7, <2>2, <2>3 DEF AllowedSaturated
<1>8. CASE AllowedNotSaturated(w)
  <2>1. Go(w, "before") /\ RunStatus(w) # "kDisallowed"
    BY <1>8 DEF AllowedNotSaturated
  <2>2. pc'[w] = "before" /\ Moves(w) /\ ret'[w] = ret[w] /\ PcsOK'
    BY <1>1, <1>2, <1>5, <2>1, GoPoints
  <2>3. ~canceled /\ count < seen[w]
    BY <1>2, <2>1, AdmittedBelow
  <2> QED
    BY <1>2, <1>3, <1>4, <1>8, <2>2, <2>3 DEF AllowedNotSaturated
<1> QED
  BY <1>6, <1>7, <1>8 DEF TakeRegisteredTaskSource

\* PushOrRelease() uses up one registration.
LEMMA PushCases ==
  ASSUME TypeOK, Accounting, registered >= 1, PushOrRelease
  PROVE  /\ registered' \in Nat /\ entries' = 1
         /\ registered' - entries' = registered - entries - 1
<1>1. registered \in Nat /\ entries \in Nat /\ entries <= 1
  BY DEF TypeOK, Accounting
<1> QED
  BY <1>1 DEF PushOrRelease

\* A worker is at its own places, and returns to the item it was processing.
LEMMA WorkerFacts ==
  ASSUME IndInv, NEW w \in Workers
  PROVE  /\ TypeOK /\ Accounting /\ w \in Threads /\ w # Joiner /\ w # None
         /\ pc[w] \in WorkerPcs /\ ret[w] = "process"
BY ThreadsAssumption DEF IndInv, Threads, TypeOK, Control

\* The joining thread is at its own places.
LEMMA JoinerFacts ==
  ASSUME IndInv
  PROVE  /\ TypeOK /\ Accounting /\ Joiner \in Threads /\ Joiner \notin Workers
         /\ pc[Joiner] \in JoinPcs /\ ret[Joiner] \in {"open", "process"}
BY ThreadsAssumption DEF IndInv, Threads, TypeOK

\* A thread returns to a place of its own.
LEMMA ReturnFacts ==
  ASSUME IndInv, NEW t \in Threads
  PROVE  /\ TypeOK /\ Accounting /\ ret[t] \in PcsOf(t) /\ ret[t] \in {"open", "process"}
         /\ ret[t] = "open" => t = Joiner
<1>1. CASE t = Joiner
  BY <1>1, JoinerFacts DEF PcsOf, JoinPcs, TaskPcs
<1>2. CASE t \in Workers
  BY <1>2, WorkerFacts DEF PcsOf, WorkerPcs, TaskPcs
<1> QED
  BY <1>1, <1>2 DEF Threads

\* The numbers of the type invariant are numbers.
LEMMA Numbers ==
  ASSUME TypeOK
  PROVE  /\ count \in Nat /\ entries \in Nat /\ registered \in Nat
         /\ todo \in Nat /\ work \in Nat /\ added \in Nat
         /\ todo <= MaxItems /\ work <= MaxItems /\ added <= MaxItems /\ MaxItems \in Nat
         /\ GetMaxConcurrency \in Nat /\ GetMaxConcurrency <= Cap
BY BoundsAssumption DEF TypeOK, GetMaxConcurrency

-----------------------------------------------------------------------------
(***************************************************************************)
(* Control, admission and cancellation.                                    *)
(***************************************************************************)
\* The other threads have read what they had, and hold the group lock if they did.
OthersKept(t) ==
  \A u \in Threads : u # t => seen'[u] = seen[u] /\ (group_lock' = u <=> group_lock = u)

\* Steps of a worker: the group lock is with the worker that is being admitted, and the count
\* grows only when the job is not canceled and the count is below what the worker has read.
LEMMA WorkerKept ==
  ASSUME IndInv, TypeOK', NEW w \in Workers, Moves(w), ret'[w] = "process", OthersKept(w),
         pc'[w] = "admit" <=> group_lock' = w, pc'[w] = "admit" => seen'[w] <= Cap,
         count' <= count \/ (count' <= Cap /\ ~canceled),
         how' = how, canceled => canceled'
  PROVE  Control' /\ Admission' /\ Cancellation'
<1>1. /\ TypeOK /\ w \in Threads /\ w # Joiner /\ Joiner \in Threads /\ Joiner \notin Workers
      /\ \A u \in Workers : u \in Threads
  BY ThreadsAssumption DEF IndInv, Threads
<1>2. /\ count \in Nat /\ count' \in Nat /\ Cap \in Nat /\ seen[Joiner] \in Nat
  BY <1>1, BoundsAssumption DEF TypeOK
<1>3. ASSUME NEW u \in Workers, u # w PROVE pc'[u] = pc[u] /\ ret'[u] = ret[u]
  BY <1>1, <1>3 DEF Moves
<1>4. Control'
  <2>1. ASSUME NEW u \in Workers PROVE ret'[u] = "process" /\ (pc'[u] = "admit" <=> group_lock' = u)
    <3>1. CASE u = w
      BY <3>1
    <3>2. CASE u # w
      BY <1>1, <1>3, <3>2 DEF IndInv, Control, OthersKept
    <3> QED
      BY <3>1, <3>2
  <2> QED
    BY <2>1 DEF Control
<1>5. seen'[Joiner] = seen[Joiner]
  BY <1>1 DEF OthersKept
<1>6. pc'[Joiner] = pc[Joiner] \/ (pc[Joiner] = "waiting" /\ pc'[Joiner] = "wait_lock")
  BY <1>1 DEF Moves
<1>7. \A u \in Workers : pc'[u] = "admit" => seen'[u] <= Cap
  BY <1>1, <1>3 DEF IndInv, Admission, OthersKept
<1>8. JoinerWaits'
  BY <1>2, <1>5, <1>6 DEF IndInv, Admission, JoinerWaits
<1>9. Cancellation'
  BY <1>2, <1>5, <1>6 DEF IndInv, Cancellation
<1> QED
  BY <1>4, <1>7, <1>8, <1>9 DEF Admission

\* Steps of the joining thread.
LEMMA JoinerKept ==
  ASSUME IndInv, Moves(Joiner), group_lock' = group_lock,
         \A u \in Threads : u # Joiner => seen'[u] = seen[u],
         JoinerWaits', Cancellation'
  PROVE  Control' /\ Admission' /\ Cancellation'
<1>1. ASSUME NEW w \in Workers PROVE pc'[w] = pc[w] /\ ret'[w] = ret[w] /\ seen'[w] = seen[w]
  <2>1. w \in Threads /\ w # Joiner
    BY ThreadsAssumption DEF Threads
  <2> QED
    BY <2>1 DEF Moves
<1> QED
  BY <1>1 DEF IndInv, Control, Admission

\* Steps inside worker_task_ or a notification change neither the count nor what is canceled.
LEMMA QuietKept ==
  ASSUME IndInv, TypeOK', NEW t \in Threads, Moves(t), t \in Workers => ret'[t] = "process",
         count' = count, seen' = seen, how' = how, canceled' = canceled, group_lock' = group_lock,
         pc[t] \in TaskPcs \cup NotifyPcs \cup {"open"},
         pc'[t] \in TaskPcs \cup NotifyPcs \cup {"open", "gone", "did", "load"}
  PROVE  Control' /\ Admission' /\ Cancellation'
<1>1. pc[t] # "admit" /\ pc'[t] # "admit"
  BY DEF TaskPcs, NotifyPcs
<1>2. CASE t \in Workers
  <2>1. group_lock # t
    BY <1>1, <1>2 DEF IndInv, Control
  <2>2. count' <= count
    BY DEF IndInv, TypeOK
  <2> QED
    BY <1>1, <1>2, <2>1, <2>2, WorkerKept DEF OthersKept
<1>3. CASE t = Joiner
  <2>1. /\ pc[Joiner] \notin {"load_max", "wait_lock", "wait_max", "waiting"}
        /\ pc'[Joiner] \notin {"wait_max", "remove", "joined"}
    BY <1>3 DEF TaskPcs, NotifyPcs
  <2>2. ~(count > Cap)
    BY <2>1 DEF IndInv, Admission, JoinerWaits
  <2>3. JoinerWaits'
    BY <2>2 DEF JoinerWaits
  <2>4. Cancellation'
    BY <2>1 DEF IndInv, Cancellation
  <2> QED
    BY <1>3, <2>3, <2>4, JoinerKept
<1> QED
  BY <1>2, <1>3 DEF Threads

-----------------------------------------------------------------------------
\* Every step keeps the invariant.
LEMMA NextInd ==
  ASSUME IndInv, Next
  PROVE  IndInv'
<1>0. TypeOK /\ Accounting
  BY DEF IndInv
<1>1. ASSUME NEW w \in Workers, GetWork(w) PROVE IndInv'
  <2>1. PICK p : p = "admit"
    OBVIOUS
  <2>2. Go(w, p) /\ ret' = ret
    BY <1>1, <2>1 DEF GetWork
  <2>3. p \in PcsOf(w)
    BY <1>1, <2>1, WorkerFacts DEF GetWork, PcsOf, WorkerPcs, JoinPcs, TaskPcs, NotifyPcs
  <2>4. pc'[w] = p /\ Moves(w) /\ ret'[w] = ret[w] /\ PcsOK'
    BY <1>0, <1>1, <2>2, <2>3, GoPoints, WorkerFacts
  <2>5. TypeOK'
    BY <1>0, <1>1, <2>4, Numbers, WorkerFacts DEF TypeOK, PcsOK, GetWork, jobVars, poolVars,
           userVars, envVars
  <2>6. Balanced(w)
    BY <1>0, <1>1, <2>1, <2>4, Numbers, WorkerFacts DEF Accounting, GetWork, Balanced, Num,
           CountedAt, HoldingAt, HasItemAt, InTaskAt, TaskPcs, NotifyPcs, LoadPcs, jobVars,
           poolVars, userVars, envVars
  <2>7. Accounting'
    BY <1>0, <1>1, <2>4, <2>5, <2>6, Balance, WorkerFacts
  <2>8. count' <= count \/ (count' <= Cap /\ ~canceled)
    BY <1>0, <1>1, <2>4, Numbers DEF GetWork, jobVars, poolVars, userVars, envVars
  <2>9. pc'[w] = "admit" <=> group_lock' = w
    BY <1>0, <1>1, <2>1, <2>4, WorkerFacts DEF IndInv, Control, GetWork
  <2>10. OthersKept(w) /\ (pc'[w] = "admit" => seen'[w] <= Cap)
    BY <1>0, <1>1, <2>1, <2>4, <2>9, Numbers, WorkerFacts, ThreadsAssumption DEF OthersKept,
           TypeOK, GetWork
  <2>11. how' = how /\ (canceled => canceled') /\ ret'[w] = "process"
    BY <1>1, <2>4, WorkerFacts DEF GetWork, jobVars
  <2>12. Control' /\ Admission' /\ Cancellation'
    BY <2>5, <1>1, <2>4, <2>8, <2>9, <2>10, <2>11, WorkerKept
  <2> QED
    BY <2>5, <2>7, <2>12 DEF IndInv
<1>2. ASSUME NEW w \in Workers, TakeRegisteredTaskSource(w) PROVE IndInv'
  <2>1. /\ pc[w] = "admit" /\ Moves(w) /\ ret'[w] = ret[w] /\ PcsOK'
        /\ registered' \in Nat /\ entries' \in Nat /\ entries' <= 1
        /\ \/ /\ pc'[w] = "idle" /\ count' = count
              /\ registered' - entries' = registered - entries
           \/ /\ pc'[w] = "before" /\ count' = count + 1 /\ ~canceled /\ count < seen[w]
              /\ registered' - entries' = registered - entries + 1
    BY <1>2, TakeCases
  <2>2. count' \in Nat
    BY <1>0, <2>1, Numbers
  <2>3. TypeOK'
    BY <1>0, <1>2, <2>1, <2>2 DEF TypeOK, PcsOK, TakeRegisteredTaskSource, jobVars, poolVars,
                                  userVars, envVars
  <2>4. Balanced(w)
    BY <1>0, <1>2, <2>1, Numbers, WorkerFacts DEF Accounting, TakeRegisteredTaskSource,
           Balanced, Num, CountedAt, HoldingAt, HasItemAt, InTaskAt, TaskPcs, NotifyPcs,
           LoadPcs, jobVars, poolVars, userVars, envVars
  <2>5. Accounting'
    BY <1>0, <1>2, <2>1, <2>3, <2>4, Balance, WorkerFacts
  <2>6. seen[w] <= Cap /\ seen[w] \in Nat /\ Cap \in Nat
    BY <1>0, <1>2, <2>1, WorkerFacts, BoundsAssumption DEF IndInv, Admission, TypeOK
  <2>7. count' <= count \/ (count' <= Cap /\ ~canceled)
    BY <1>0, <2>1, <2>6, Numbers
  <2>8. pc'[w] = "admit" <=> group_lock' = w
    BY <1>0, <1>2, <2>1, WorkerFacts DEF IndInv, Control, TakeRegisteredTaskSource
  <2>9. OthersKept(w) /\ (pc'[w] = "admit" => seen'[w] <= Cap)
    BY <1>0, <1>2, <2>1, <2>8, Numbers, WorkerFacts, ThreadsAssumption DEF OthersKept, TypeOK,
           TakeRegisteredTaskSource, IndInv, Control
  <2>10. how' = how /\ (canceled => canceled') /\ ret'[w] = "process"
    BY <1>2, <2>1, WorkerFacts DEF TakeRegisteredTaskSource, jobVars
  <2>11. Control' /\ Admission' /\ Cancellation'
    BY <2>3, <1>2, <2>1, <2>7, <2>8, <2>9, <2>10, WorkerKept
  <2> QED
    BY <2>3, <2>5, <2>11 DEF IndInv
<1>3. ASSUME NEW w \in Workers, BeforeRunTask(w) PROVE IndInv'
  <2>1. PICK p : p = IF shutdown THEN "clear" ELSE "task"
    OBVIOUS
  <2>2. Go(w, p) /\ ret' = ret
    BY <1>3, <2>1 DEF BeforeRunTask
  <2>3. p \in PcsOf(w)
    BY <1>3, <2>1, WorkerFacts DEF BeforeRunTask, PcsOf, WorkerPcs, JoinPcs, TaskPcs, NotifyPcs
  <2>4. pc'[w] = p /\ Moves(w) /\ ret'[w] = ret[w] /\ PcsOK'
    BY <1>0, <1>3, <2>2, <2>3, GoPoints, WorkerFacts
  <2>5. TypeOK'
    BY <1>0, <1>3, <2>4, Numbers DEF TypeOK, PcsOK, BeforeRunTask, jobVars, poolVars, userVars,
                                     envVars
  <2>6. Balanced(w)
    BY <1>0, <1>3, <2>1, <2>4, Numbers, WorkerFacts DEF Accounting, BeforeRunTask, Balanced,
           Num, CountedAt, HoldingAt, HasItemAt, InTaskAt, TaskPcs, NotifyPcs, LoadPcs, jobVars,
           poolVars, userVars, envVars
  <2>7. Accounting'
    BY <1>0, <1>3, <2>4, <2>5, <2>6, Balance, WorkerFacts
  <2>8. count' <= count \/ (count' <= Cap /\ ~canceled)
    BY <1>0, <1>3, <2>4, Numbers DEF BeforeRunTask, jobVars, poolVars, userVars, envVars
  <2>9. pc'[w] = "admit" <=> group_lock' = w
    BY <1>0, <1>3, <2>1, <2>4, WorkerFacts DEF IndInv, Control, BeforeRunTask
  <2>10. OthersKept(w) /\ (pc'[w] = "admit" => seen'[w] <= Cap)
    BY <1>0, <1>3, <2>1, <2>4, <2>9, Numbers, WorkerFacts, ThreadsAssumption DEF OthersKept,
           TypeOK, BeforeRunTask
  <2>11. how' = how /\ (canceled => canceled') /\ ret'[w] = "process"
    BY <1>3, <2>4, WorkerFacts DEF BeforeRunTask, jobVars
  <2>12. Control' /\ Admission' /\ Cancellation'
    BY <2>5, <1>3, <2>4, <2>8, <2>9, <2>10, <2>11, WorkerKept
  <2> QED
    BY <2>5, <2>7, <2>12 DEF IndInv
<1>4. ASSUME NEW w \in Workers, Clear(w) PROVE IndInv'
  <2>1. PICK p : p = "did"
    OBVIOUS
  <2>2. Go(w, p) /\ ret' = ret
    BY <1>4, <2>1 DEF Clear
  <2>3. p \in PcsOf(w)
    BY <1>4, <2>1, WorkerFacts DEF Clear, PcsOf, WorkerPcs, JoinPcs, TaskPcs, NotifyPcs
  <2>4. pc'[w] = p /\ Moves(w) /\ ret'[w] = ret[w] /\ PcsOK'
    BY <1>0, <1>4, <2>2, <2>3, GoPoints, WorkerFacts
  <2>5. TypeOK'
    BY <1>0, <1>4, <2>4, Numbers DEF TypeOK, PcsOK, Clear, jobVars, poolVars, userVars, envVars
  <2>6. Balanced(w)
    BY <1>0, <1>4, <2>1, <2>4, Numbers, WorkerFacts DEF Accounting, Clear, Balanced, Num,
           CountedAt, HoldingAt, HasItemAt, InTaskAt, TaskPcs, NotifyPcs, LoadPcs, jobVars,
           poolVars, userVars, envVars
  <2>7. Accounting'
    BY <1>0, <1>4, <2>4, <2>5, <2>6, Balance, WorkerFacts
  <2>8. count' <= count \/ (count' <= Cap /\ ~canceled)
    BY <1>0, <1>4, <2>4, Numbers DEF Clear, jobVars, poolVars, userVars, envVars
  <2>9. pc'[w] = "admit" <=> group_lock' = w
    BY <1>0, <1>4, <2>1, <2>4, WorkerFacts DEF IndInv, Control, Clear
  <2>10. OthersKept(w) /\ (pc'[w] = "admit" => seen'[w] <= Cap)
    BY <1>0, <1>4, <2>1, <2>4, <2>9, Numbers, WorkerFacts, ThreadsAssumption DEF OthersKept,
           TypeOK, Clear
  <2>11. how' = how /\ (canceled => canceled') /\ ret'[w] = "process"
    BY <1>4, <2>4, WorkerFacts DEF Clear, jobVars
  <2>12. Control' /\ Admission' /\ Cancellation'
    BY <2>5, <1>4, <2>4, <2>8, <2>9, <2>10, <2>11, WorkerKept
  <2> QED
    BY <2>5, <2>7, <2>12 DEF IndInv
<1>5. ASSUME NEW w \in Workers, DidProcessTask(w) PROVE IndInv'
  <2>1. PICK p : p = IF canceled THEN "idle" ELSE "did_max"
    OBVIOUS
  <2>2. SignalAndGo(w, p) /\ ret' = ret /\ pc[w] # "waiting"
    BY <1>5, <2>1 DEF DidProcessTask
  <2>3. p \in PcsOf(w)
    BY <1>5, <2>1, WorkerFacts DEF DidProcessTask, PcsOf, WorkerPcs, JoinPcs, TaskPcs, NotifyPcs
  <2>4. pc'[w] = p /\ Moves(w) /\ ret'[w] = ret[w] /\ PcsOK'
    BY <1>0, <1>5, <2>2, <2>3, SignalPoints, WorkerFacts
  <2>5. count >= 1 /\ registered >= 1
    BY <1>5, Positive, WorkerFacts DEF DidProcessTask, CountedAt, HoldingAt
  <2>6. TypeOK'
    BY <1>0, <1>5, <2>4, Numbers, <2>5, WorkerFacts DEF TypeOK, PcsOK, DidProcessTask, jobVars,
           poolVars, userVars, envVars, SignalAndGo
  <2>7. Balanced(w)
    BY <1>0, <1>5, <2>1, <2>4, Numbers, WorkerFacts, <2>5 DEF Accounting, DidProcessTask,
           Balanced, Num, CountedAt, HoldingAt, HasItemAt, InTaskAt, TaskPcs, NotifyPcs,
           LoadPcs, jobVars, poolVars, userVars, envVars
  <2>8. Accounting'
    BY <1>0, <1>5, <2>4, <2>6, <2>7, Balance, WorkerFacts
  <2>9. count' <= count \/ (count' <= Cap /\ ~canceled)
    BY <1>0, <1>5, <2>4, Numbers DEF DidProcessTask, jobVars, poolVars, userVars, envVars
  <2>10. pc'[w] = "admit" <=> group_lock' = w
    BY <1>0, <1>5, <2>1, <2>4, WorkerFacts DEF IndInv, Control, DidProcessTask
  <2>11. OthersKept(w) /\ (pc'[w] = "admit" => seen'[w] <= Cap)
    BY <1>0, <1>5, <2>1, <2>4, <2>10, Numbers, WorkerFacts, ThreadsAssumption DEF OthersKept,
           TypeOK, DidProcessTask
  <2>12. how' = how /\ (canceled => canceled') /\ ret'[w] = "process"
    BY <1>5, <2>4, WorkerFacts DEF DidProcessTask, jobVars
  <2>13. Control' /\ Admission' /\ Cancellation'
    BY <2>6, <1>5, <2>4, <2>9, <2>10, <2>11, <2>12, WorkerKept
  <2> QED
    BY <2>6, <2>8, <2>13 DEF IndInv
<1>6. ASSUME NEW w \in Workers, DidProcessTaskMax(w) PROVE IndInv'
  <2>1. PICK p : p = IF MustReenqueue(w) THEN "reenqueue" ELSE "idle"
    OBVIOUS
  <2>2. Go(w, p) /\ ret' = ret
    BY <1>6, <2>1 DEF DidProcessTaskMax
  <2>3. p \in PcsOf(w)
    BY <1>6, <2>1, WorkerFacts DEF DidProcessTaskMax, PcsOf, WorkerPcs, JoinPcs, TaskPcs, NotifyPcs
  <2>4. pc'[w] = p /\ Moves(w) /\ ret'[w] = ret[w] /\ PcsOK'
    BY <1>0, <1>6, <2>2, <2>3, GoPoints, WorkerFacts
  <2>5. registered >= 1
    BY <1>6, Positive, WorkerFacts DEF DidProcessTaskMax, HoldingAt
  <2>6. TypeOK'
    BY <1>0, <1>6, <2>4, Numbers, <2>5, WorkerFacts DEF TypeOK, PcsOK, DidProcessTaskMax,
           jobVars, poolVars, userVars, envVars
  <2>7. Balanced(w)
    BY <1>0, <1>6, <2>1, <2>4, Numbers, WorkerFacts, <2>5 DEF Accounting, DidProcessTaskMax,
           Balanced, Num, CountedAt, HoldingAt, HasItemAt, InTaskAt, TaskPcs, NotifyPcs,
           LoadPcs, jobVars, poolVars, userVars, envVars
  <2>8. Accounting'
    BY <1>0, <1>6, <2>4, <2>6, <2>7, Balance, WorkerFacts
  <2>9. count' <= count \/ (count' <= Cap /\ ~canceled)
    BY <1>0, <1>6, <2>4, Numbers DEF DidProcessTaskMax, jobVars, poolVars, userVars, envVars
  <2>10. pc'[w] = "admit" <=> group_lock' = w
    BY <1>0, <1>6, <2>1, <2>4, WorkerFacts DEF IndInv, Control, DidProcessTaskMax
  <2>11. OthersKept(w) /\ (pc'[w] = "admit" => seen'[w] <= Cap)
    BY <1>0, <1>6, <2>1, <2>4, <2>10, Numbers, WorkerFacts, ThreadsAssumption DEF OthersKept,
           TypeOK, DidProcessTaskMax
  <2>12. how' = how /\ (canceled => canceled') /\ ret'[w] = "process"
    BY <1>6, <2>4, WorkerFacts DEF DidProcessTaskMax, jobVars
  <2>13. Control' /\ Admission' /\ Cancellation'
    BY <2>6, <1>6, <2>4, <2>9, <2>10, <2>11, <2>12, WorkerKept
  <2> QED
    BY <2>6, <2>8, <2>13 DEF IndInv
<1>7. ASSUME NEW w \in Workers, ReEnqueueTaskSource(w) PROVE IndInv'
  <2>1. PICK p : p = "idle"
    OBVIOUS
  <2>2. Go(w, p) /\ ret' = ret
    BY <1>7, <2>1 DEF ReEnqueueTaskSource
  <2>3. p \in PcsOf(w)
    BY <1>7, <2>1, WorkerFacts DEF ReEnqueueTaskSource, PcsOf, WorkerPcs, JoinPcs, TaskPcs,
                                   NotifyPcs
  <2>4. pc'[w] = p /\ Moves(w) /\ ret'[w] = ret[w] /\ PcsOK'
    BY <1>0, <1>7, <2>2, <2>3, GoPoints, WorkerFacts
  <2>5. registered >= 1
    BY <1>7, Positive, WorkerFacts DEF ReEnqueueTaskSource, HoldingAt
  <2>6. /\ registered' \in Nat /\ entries' = 1
        /\ registered' - entries' = registered - entries - 1
    BY <1>0, <1>7, <2>5, PushCases DEF ReEnqueueTaskSource
  <2>7. TypeOK'
    BY <1>0, <1>7, <2>4, Numbers, <2>6 DEF TypeOK, PcsOK, ReEnqueueTaskSource, jobVars,
           poolVars, userVars, envVars
  <2>8. Balanced(w)
    BY <1>0, <1>7, <2>1, <2>4, Numbers, WorkerFacts, <2>6 DEF Accounting, ReEnqueueTaskSource,
           Balanced, Num, CountedAt, HoldingAt, HasItemAt, InTaskAt, TaskPcs, NotifyPcs,
           LoadPcs, jobVars, poolVars, userVars, envVars
  <2>9. Accounting'
    BY <1>0, <1>7, <2>4, <2>7, <2>8, Balance, WorkerFacts
  <2>10. count' <= count \/ (count' <= Cap /\ ~canceled)
    BY <1>0, <1>7, <2>4, Numbers DEF ReEnqueueTaskSource, jobVars, poolVars, userVars, envVars
  <2>11. pc'[w] = "admit" <=> group_lock' = w
    BY <1>0, <1>7, <2>1, <2>4, WorkerFacts DEF IndInv, Control, ReEnqueueTaskSource
  <2>12. OthersKept(w) /\ (pc'[w] = "admit" => seen'[w] <= Cap)
    BY <1>0, <1>7, <2>1, <2>4, <2>11, Numbers, WorkerFacts, ThreadsAssumption DEF OthersKept,
           TypeOK, ReEnqueueTaskSource
  <2>13. how' = how /\ (canceled => canceled') /\ ret'[w] = "process"
    BY <1>7, <2>4, WorkerFacts DEF ReEnqueueTaskSource, jobVars
  <2>14. Control' /\ Admission' /\ Cancellation'
    BY <2>7, <1>7, <2>4, <2>10, <2>11, <2>12, <2>13, WorkerKept
  <2> QED
    BY <2>7, <2>9, <2>14 DEF IndInv
<1>8. ASSUME NEW t \in Threads, ShouldWorkerYield(t) PROVE IndInv'
  <2>1. PICK p : p = IF join_flag = "kWaitingForWorkerToYield" THEN TaskReturns(t) ELSE "yield"
    OBVIOUS
  <2>2. Go(t, p) /\ ret' = ret
    BY <1>8, <2>1 DEF ShouldWorkerYield
  <2>3. p \in PcsOf(t)
    BY <1>8, <2>1, ReturnFacts DEF ShouldWorkerYield, PcsOf, WorkerPcs, JoinPcs, TaskPcs,
                                   NotifyPcs, TaskReturns
  <2>4. pc'[t] = p /\ Moves(t) /\ ret'[t] = ret[t] /\ PcsOK'
    BY <1>0, <1>8, <2>2, <2>3, GoPoints, ReturnFacts
  <2>5. TypeOK'
    BY <1>0, <1>8, <2>4, Numbers DEF TypeOK, PcsOK, ShouldWorkerYield, jobVars, poolVars,
                                     userVars, envVars
  <2>6. Balanced(t)
    BY <1>0, <1>8, <2>1, <2>4, Numbers, ReturnFacts, JoinerFacts DEF Accounting,
           ShouldWorkerYield, Balanced, Num, CountedAt, HoldingAt, HasItemAt, InTaskAt, TaskPcs,
           NotifyPcs, LoadPcs, jobVars, poolVars, userVars, envVars, TaskReturns
  <2>7. Accounting'
    BY <1>0, <1>8, <2>4, <2>5, <2>6, Balance
  <2>8. Control' /\ Admission' /\ Cancellation'
    BY <1>0, <1>8, <2>1, <2>4, <2>5, QuietKept, ReturnFacts, WorkerFacts DEF ShouldWorkerYield,
           TaskReturns, TaskPcs, NotifyPcs, jobVars, poolVars, userVars, envVars
  <2> QED
    BY <2>5, <2>7, <2>8 DEF IndInv
<1>9. ASSUME NEW t \in Threads, ShouldYield(t) PROVE IndInv'
  <2>1. PICK p : p \in {TaskReturns(t), "take"} /\ Go(t, p)
    BY <1>9 DEF ShouldYield
  <2>2. ret' = ret
    BY <1>9 DEF ShouldYield
  <2>3. p \in PcsOf(t)
    BY <1>9, <2>1, ReturnFacts DEF ShouldYield, PcsOf, WorkerPcs, JoinPcs, TaskPcs, NotifyPcs,
                                   TaskReturns
  <2>4. pc'[t] = p /\ Moves(t) /\ ret'[t] = ret[t] /\ PcsOK'
    BY <1>0, <1>9, <2>1, <2>2, <2>3, GoPoints, ReturnFacts
  <2>5. TypeOK'
    BY <1>0, <1>9, <2>4, Numbers, BoundsAssumption DEF TypeOK, PcsOK, ShouldYield, jobVars,
           poolVars, userVars, envVars
  <2>6. Balanced(t)
    BY <1>0, <1>9, <2>1, <2>4, Numbers, ReturnFacts, JoinerFacts DEF Accounting, ShouldYield,
           Balanced, Num, CountedAt, HoldingAt, HasItemAt, InTaskAt, TaskPcs, NotifyPcs,
           LoadPcs, jobVars, poolVars, userVars, envVars, TaskReturns
  <2>7. Accounting'
    BY <1>0, <1>9, <2>4, <2>5, <2>6, Balance
  <2>8. Control' /\ Admission' /\ Cancellation'
    BY <1>0, <1>9, <2>1, <2>4, <2>5, QuietKept, ReturnFacts, WorkerFacts DEF ShouldYield,
           TaskReturns, TaskPcs, NotifyPcs, jobVars, poolVars, userVars, envVars
  <2> QED
    BY <2>5, <2>7, <2>8 DEF IndInv
<1>10. ASSUME NEW t \in Threads, TakeWorkItem(t) PROVE IndInv'
  <2>1. PICK p : p = IF todo > 0 THEN "process" ELSE TaskReturns(t)
    OBVIOUS
  <2>2. Go(t, p) /\ ret' = ret
    BY <1>10, <2>1 DEF TakeWorkItem
  <2>3. p \in PcsOf(t)
    BY <1>10, <2>1, ReturnFacts DEF TakeWorkItem, PcsOf, WorkerPcs, JoinPcs, TaskPcs, NotifyPcs,
                                    TaskReturns
  <2>4. pc'[t] = p /\ Moves(t) /\ ret'[t] = ret[t] /\ PcsOK'
    BY <1>0, <1>10, <2>2, <2>3, GoPoints, ReturnFacts
  <2>5. TypeOK'
    BY <1>0, <1>10, <2>4, Numbers DEF TypeOK, PcsOK, TakeWorkItem, jobVars, poolVars, userVars,
                                      envVars
  <2>6. Balanced(t)
    BY <1>0, <1>10, <2>1, <2>4, Numbers, ReturnFacts, JoinerFacts DEF Accounting, TakeWorkItem,
           Balanced, Num, CountedAt, HoldingAt, HasItemAt, InTaskAt, TaskPcs, NotifyPcs,
           LoadPcs, jobVars, poolVars, userVars, envVars, TaskReturns
  <2>7. Accounting'
    BY <1>0, <1>10, <2>4, <2>5, <2>6, Balance
  <2>8. Control' /\ Admission' /\ Cancellation'
    BY <1>0, <1>10, <2>1, <2>4, <2>5, QuietKept, ReturnFacts, WorkerFacts DEF TakeWorkItem,
           TaskReturns, TaskPcs, NotifyPcs, jobVars, poolVars, userVars, envVars
  <2> QED
    BY <2>5, <2>7, <2>8 DEF IndInv
<1>11. ASSUME NEW t \in Threads, ProcessWork(t) PROVE IndInv'
  <2>1. PICK p : p = "task"
    OBVIOUS
  <2>2. Go(t, p) /\ ret' = ret
    BY <1>11, <2>1 DEF ProcessWork
  <2>3. p \in PcsOf(t)
    BY <1>11, <2>1, ReturnFacts DEF ProcessWork, PcsOf, WorkerPcs, JoinPcs, TaskPcs, NotifyPcs
  <2>4. pc'[t] = p /\ Moves(t) /\ ret'[t] = ret[t] /\ PcsOK'
    BY <1>0, <1>11, <2>2, <2>3, GoPoints, ReturnFacts
  <2>5. work >= 1
    BY <1>11, Positive DEF ProcessWork, HasItemAt
  <2>6. TypeOK'
    BY <1>0, <1>11, <2>4, Numbers, <2>5 DEF TypeOK, PcsOK, ProcessWork, jobVars, poolVars,
           userVars, envVars
  <2>7. Balanced(t)
    BY <1>0, <1>11, <2>1, <2>4, Numbers, ReturnFacts, <2>5 DEF Accounting, ProcessWork,
           Balanced, Num, CountedAt, HoldingAt, HasItemAt, InTaskAt, TaskPcs, NotifyPcs,
           LoadPcs, jobVars, poolVars, userVars, envVars
  <2>8. Accounting'
    BY <1>0, <1>11, <2>4, <2>6, <2>7, Balance
  <2>9. Control' /\ Admission' /\ Cancellation'
    BY <1>0, <1>11, <2>1, <2>4, <2>6, QuietKept, ReturnFacts, WorkerFacts DEF ProcessWork,
           TaskReturns, TaskPcs, NotifyPcs, jobVars, poolVars, userVars, envVars
  <2> QED
    BY <2>6, <2>8, <2>9 DEF IndInv
<1>12. ASSUME NEW t \in Threads, Notify(t) PROVE IndInv'
  <2>1. PICK p : p = "register"
    OBVIOUS
  <2>2. SignalAndGo(t, p) /\ ret' = ret /\ pc[t] # "waiting"
    BY <1>12, <2>1 DEF Notify
  <2>3. p \in PcsOf(t)
    BY <1>12, <2>1, ReturnFacts DEF Notify, PcsOf, WorkerPcs, JoinPcs, TaskPcs, NotifyPcs
  <2>4. pc'[t] = p /\ Moves(t) /\ ret'[t] = ret[t] /\ PcsOK'
    BY <1>0, <1>12, <2>2, <2>3, SignalPoints, ReturnFacts
  <2>5. TypeOK'
    BY <1>0, <1>12, <2>4, Numbers DEF TypeOK, PcsOK, Notify, jobVars, poolVars, userVars,
                                      envVars, SignalAndGo
  <2>6. Balanced(t)
    BY <1>0, <1>12, <2>1, <2>4, Numbers, ReturnFacts DEF Accounting, Notify, Balanced, Num,
           CountedAt, HoldingAt, HasItemAt, InTaskAt, TaskPcs, NotifyPcs, LoadPcs, jobVars,
           poolVars, userVars, envVars
  <2>7. Accounting'
    BY <1>0, <1>12, <2>4, <2>5, <2>6, Balance
  <2>8. Control' /\ Admission' /\ Cancellation'
    BY <1>0, <1>12, <2>1, <2>4, <2>5, QuietKept, ReturnFacts, WorkerFacts DEF Notify,
           TaskReturns, TaskPcs, NotifyPcs, jobVars, poolVars, userVars, envVars
  <2> QED
    BY <2>5, <2>7, <2>8 DEF IndInv
<1>13. ASSUME NEW t \in Threads, RegisterTaskSource(t) PROVE IndInv'
  <2>1. PICK p : p = IF ~shutdown THEN "push" ELSE IF ret[t] = "open" /\ added = Items THEN "gone" ELSE ret[t]
    OBVIOUS
  <2>2. Go(t, p) /\ ret' = ret
    BY <1>13, <2>1 DEF RegisterTaskSource
  <2>3. p \in PcsOf(t)
    BY <1>13, <2>1, ReturnFacts DEF RegisterTaskSource, PcsOf, WorkerPcs, JoinPcs, TaskPcs,
                                    NotifyPcs
  <2>4. pc'[t] = p /\ Moves(t) /\ ret'[t] = ret[t] /\ PcsOK'
    BY <1>0, <1>13, <2>2, <2>3, GoPoints, ReturnFacts
  <2>5. TypeOK'
    BY <1>0, <1>13, <2>4, Numbers DEF TypeOK, PcsOK, RegisterTaskSource, jobVars, poolVars,
                                      userVars, envVars
  <2>6. Balanced(t)
    BY <1>0, <1>13, <2>1, <2>4, Numbers, ReturnFacts DEF Accounting, RegisterTaskSource,
           Balanced, Num, CountedAt, HoldingAt, HasItemAt, InTaskAt, TaskPcs, NotifyPcs,
           LoadPcs, jobVars, poolVars, userVars, envVars
  <2>7. Accounting'
    BY <1>0, <1>13, <2>4, <2>5, <2>6, Balance
  <2>8. Control' /\ Admission' /\ Cancellation'
    BY <1>0, <1>13, <2>1, <2>4, <2>5, QuietKept, ReturnFacts, WorkerFacts DEF
           RegisterTaskSource, TaskReturns, TaskPcs, NotifyPcs, jobVars, poolVars, userVars,
           envVars
  <2> QED
    BY <2>5, <2>7, <2>8 DEF IndInv
<1>14. ASSUME NEW t \in Threads, PushTaskSourceAndWakeUpWorkers(t) PROVE IndInv'
  <2>1. PICK p : p = ret[t]
    OBVIOUS
  <2>2. Go(t, p) /\ ret' = ret
    BY <1>14, <2>1 DEF PushTaskSourceAndWakeUpWorkers
  <2>3. p \in PcsOf(t)
    BY <1>14, <2>1, ReturnFacts DEF PushTaskSourceAndWakeUpWorkers, PcsOf, WorkerPcs, JoinPcs,
                                    TaskPcs, NotifyPcs
  <2>4. pc'[t] = p /\ Moves(t) /\ ret'[t] = ret[t] /\ PcsOK'
    BY <1>0, <1>14, <2>2, <2>3, GoPoints, ReturnFacts
  <2>5. registered >= 1
    BY <1>14, Positive DEF PushTaskSourceAndWakeUpWorkers
  <2>6. /\ registered' \in Nat /\ entries' = 1
        /\ registered' - entries' = registered - entries - 1
    BY <1>0, <1>14, <2>5, PushCases DEF PushTaskSourceAndWakeUpWorkers
  <2>7. TypeOK'
    BY <1>0, <1>14, <2>4, Numbers, <2>6 DEF TypeOK, PcsOK, PushTaskSourceAndWakeUpWorkers,
           jobVars, poolVars, userVars, envVars
  <2>8. Balanced(t)
    BY <1>0, <1>14, <2>1, <2>4, Numbers, ReturnFacts, <2>6 DEF Accounting,
           PushTaskSourceAndWakeUpWorkers, Balanced, Num, CountedAt, HoldingAt, HasItemAt,
           InTaskAt, TaskPcs, NotifyPcs, LoadPcs, jobVars, poolVars, userVars, envVars
  <2>9. Accounting'
    BY <1>0, <1>14, <2>4, <2>7, <2>8, Balance
  <2>10. Control' /\ Admission' /\ Cancellation'
    BY <1>0, <1>14, <2>1, <2>4, <2>7, QuietKept, ReturnFacts, WorkerFacts DEF
           PushTaskSourceAndWakeUpWorkers, TaskReturns, TaskPcs, NotifyPcs, jobVars, poolVars,
           userVars, envVars
  <2> QED
    BY <2>7, <2>9, <2>10 DEF IndInv
<1>15. ASSUME NEW t \in Threads, AddWork(t) PROVE IndInv'
  <2>1. Go(t, "notify") /\ "notify" \in PcsOf(t)
    BY <1>15 DEF AddWork, PcsOf, WorkerPcs, JoinPcs, TaskPcs, NotifyPcs
  <2>2. ret'[t] = pc[t] /\ \A u \in Threads : u # t => ret'[u] = ret[u]
    BY <1>0, <1>15 DEF AddWork, TypeOK
  <2>3. pc'[t] = "notify" /\ Moves(t) /\ PcsOK'
    BY <1>0, <1>15, <2>1, <2>2, GoPoints DEF Moves
  <2>4. t \in Workers => ret'[t] = "process"
    BY <1>15, <2>2, WorkerFacts DEF AddWork, WorkerPcs, TaskPcs, NotifyPcs
  <2>5. todo <= work /\ work <= added
    BY <1>15, Positive DEF AddWork
  <2>6. ret' \in [Threads -> {"open", "process"}]
    BY <1>0, <1>15 DEF AddWork, TypeOK
  <2>7. todo' \in 0..MaxItems /\ work' \in 0..MaxItems /\ added' \in 0..MaxItems
    BY <1>0, <1>15, <2>5, Numbers DEF AddWork
  <2>8. TypeOK'
    BY <1>0, <1>15, <2>3, <2>6, <2>7 DEF TypeOK, PcsOK, AddWork, jobVars, poolVars, userVars,
           envVars
  <2>9. Balanced(t)
    BY <1>0, <1>15, <2>5, <2>3, <2>2, Numbers, ReturnFacts DEF Accounting, AddWork, Balanced,
           Num, CountedAt, HoldingAt, HasItemAt, InTaskAt, TaskPcs, NotifyPcs, LoadPcs, jobVars,
           poolVars, userVars, envVars
  <2>10. Accounting'
    BY <1>0, <1>15, <2>3, <2>8, <2>9, Balance
  <2>11. Control' /\ Admission' /\ Cancellation'
    BY <1>0, <1>15, <2>4, <2>3, <2>8, QuietKept, ReturnFacts, WorkerFacts DEF AddWork,
           TaskReturns, TaskPcs, NotifyPcs, jobVars, poolVars, userVars, envVars
  <2> QED
    BY <2>8, <2>10, <2>11 DEF IndInv
<1>16. ASSUME NEW op \in Ops, EndWith(op) PROVE IndInv'
  <2>1. PICK p : p = IF op \in {"join", "cancel"} THEN "will_join" ELSE "gone"
    OBVIOUS
  <2>2. Go(Joiner, p) /\ ret' = ret
    BY <1>16, <2>1 DEF EndWith
  <2>3. p \in PcsOf(Joiner)
    BY <1>16, <2>1, JoinerFacts DEF EndWith, PcsOf, WorkerPcs, JoinPcs, TaskPcs, NotifyPcs
  <2>4. pc'[Joiner] = p /\ Moves(Joiner) /\ ret'[Joiner] = ret[Joiner] /\ PcsOK'
    BY <1>0, <1>16, <2>2, <2>3, GoPoints, JoinerFacts
  <2>5. TypeOK'
    BY <1>0, <1>16, <2>4, Numbers, BoundsAssumption DEF TypeOK, PcsOK, EndWith, jobVars,
           poolVars, userVars, envVars
  <2>6. Balanced(Joiner)
    BY <1>0, <1>16, <2>1, <2>4, Numbers, JoinerFacts DEF Accounting, EndWith, Balanced, Num,
           CountedAt, HoldingAt, HasItemAt, InTaskAt, TaskPcs, NotifyPcs, LoadPcs, jobVars,
           poolVars, userVars, envVars
  <2>7. Accounting'
    BY <1>0, <1>16, <2>4, <2>5, <2>6, Balance, JoinerFacts
  <2>8. JoinerWaits'
    BY <1>0, <1>16, <2>1, <2>4, Numbers, JoinerFacts, BoundsAssumption DEF IndInv, Admission,
           JoinerWaits, TypeOK, MayContribute, OnlyJoinerLeft, Waiting, EndWith, jobVars,
           poolVars, userVars, envVars
  <2>9. Cancellation'
    BY <1>0, <1>16, <2>1, <2>4, <2>5, Numbers, JoinerFacts DEF IndInv, Cancellation, TypeOK,
           OnlyJoinerLeft, EndWith, jobVars, poolVars, userVars, envVars
  <2>10. group_lock' = group_lock /\ \A u \in Threads : u # Joiner => seen'[u] = seen[u]
    BY <1>0, <1>16 DEF TypeOK, EndWith, jobVars, poolVars, userVars, envVars
  <2>11. Control' /\ Admission' /\ Cancellation'
    BY <1>16, <2>4, <2>8, <2>9, <2>10, JoinerKept
  <2> QED
    BY <2>5, <2>7, <2>11 DEF IndInv
<1>17. ASSUME WillJoin PROVE IndInv'
  <2>1. PICK p : p = "load_max"
    OBVIOUS
  <2>2. Go(Joiner, p) /\ ret' = ret
    BY <1>17, <2>1 DEF WillJoin
  <2>3. p \in PcsOf(Joiner)
    BY <1>17, <2>1, JoinerFacts DEF WillJoin, PcsOf, WorkerPcs, JoinPcs, TaskPcs, NotifyPcs
  <2>4. pc'[Joiner] = p /\ Moves(Joiner) /\ ret'[Joiner] = ret[Joiner] /\ PcsOK'
    BY <1>0, <1>17, <2>2, <2>3, GoPoints, JoinerFacts
  <2>5. TypeOK'
    BY <1>0, <1>17, <2>4, Numbers, JoinerFacts DEF TypeOK, PcsOK, WillJoin, jobVars, poolVars,
           userVars, envVars
  <2>6. Balanced(Joiner)
    BY <1>0, <1>17, <2>1, <2>4, Numbers, JoinerFacts DEF Accounting, WillJoin, Balanced, Num,
           CountedAt, HoldingAt, HasItemAt, InTaskAt, TaskPcs, NotifyPcs, LoadPcs, jobVars,
           poolVars, userVars, envVars
  <2>7. Accounting'
    BY <1>0, <1>17, <2>4, <2>5, <2>6, Balance, JoinerFacts
  <2>8. JoinerWaits'
    BY <1>0, <1>17, <2>1, <2>4, Numbers, JoinerFacts, BoundsAssumption DEF IndInv, Admission,
           JoinerWaits, TypeOK, MayContribute, OnlyJoinerLeft, Waiting, WillJoin, jobVars,
           poolVars, userVars, envVars
  <2>9. Cancellation'
    BY <1>0, <1>17, <2>1, <2>4, <2>5, Numbers, JoinerFacts DEF IndInv, Cancellation, TypeOK,
           OnlyJoinerLeft, WillJoin, jobVars, poolVars, userVars, envVars
  <2>10. group_lock' = group_lock /\ \A u \in Threads : u # Joiner => seen'[u] = seen[u]
    BY <1>0, <1>17 DEF TypeOK, WillJoin, jobVars, poolVars, userVars, envVars
  <2>11. Control' /\ Admission' /\ Cancellation'
    BY <1>17, <2>4, <2>8, <2>9, <2>10, JoinerKept
  <2> QED
    BY <2>5, <2>7, <2>11 DEF IndInv
<1>18. ASSUME RunJoinTaskLoad PROVE IndInv'
  <2>1. PICK p : p = "load_max"
    OBVIOUS
  <2>2. Go(Joiner, p) /\ ret' = ret
    BY <1>18, <2>1 DEF RunJoinTaskLoad
  <2>3. p \in PcsOf(Joiner)
    BY <1>18, <2>1, JoinerFacts DEF RunJoinTaskLoad, PcsOf, WorkerPcs, JoinPcs, TaskPcs, NotifyPcs
  <2>4. pc'[Joiner] = p /\ Moves(Joiner) /\ ret'[Joiner] = ret[Joiner] /\ PcsOK'
    BY <1>0, <1>18, <2>2, <2>3, GoPoints, JoinerFacts
  <2>5. TypeOK'
    BY <1>0, <1>18, <2>4, Numbers, JoinerFacts DEF TypeOK, PcsOK, RunJoinTaskLoad, jobVars,
           poolVars, userVars, envVars
  <2>6. Balanced(Joiner)
    BY <1>0, <1>18, <2>1, <2>4, Numbers, JoinerFacts DEF Accounting, RunJoinTaskLoad, Balanced,
           Num, CountedAt, HoldingAt, HasItemAt, InTaskAt, TaskPcs, NotifyPcs, LoadPcs, jobVars,
           poolVars, userVars, envVars
  <2>7. Accounting'
    BY <1>0, <1>18, <2>4, <2>5, <2>6, Balance, JoinerFacts
  <2>8. JoinerWaits'
    BY <1>0, <1>18, <2>1, <2>4, Numbers, JoinerFacts, BoundsAssumption DEF IndInv, Admission,
           JoinerWaits, TypeOK, MayContribute, OnlyJoinerLeft, Waiting, RunJoinTaskLoad,
           jobVars, poolVars, userVars, envVars
  <2>9. Cancellation'
    BY <1>0, <1>18, <2>1, <2>4, <2>5, Numbers, JoinerFacts DEF IndInv, Cancellation, TypeOK,
           OnlyJoinerLeft, RunJoinTaskLoad, jobVars, poolVars, userVars, envVars
  <2>10. group_lock' = group_lock /\ \A u \in Threads : u # Joiner => seen'[u] = seen[u]
    BY <1>0, <1>18 DEF TypeOK, RunJoinTaskLoad, jobVars, poolVars, userVars, envVars
  <2>11. Control' /\ Admission' /\ Cancellation'
    BY <1>18, <2>4, <2>8, <2>9, <2>10, JoinerKept
  <2> QED
    BY <2>5, <2>7, <2>11 DEF IndInv
<1>19. ASSUME RunJoinTaskMax PROVE IndInv'
  <2>1. PICK p : p = IF MayContribute THEN "task" ELSE "wait_lock"
    OBVIOUS
  <2>2. Go(Joiner, p) /\ ret' = ret
    BY <1>19, <2>1 DEF RunJoinTaskMax
  <2>3. p \in PcsOf(Joiner)
    BY <1>19, <2>1, JoinerFacts DEF RunJoinTaskMax, PcsOf, WorkerPcs, JoinPcs, TaskPcs, NotifyPcs
  <2>4. pc'[Joiner] = p /\ Moves(Joiner) /\ ret'[Joiner] = ret[Joiner] /\ PcsOK'
    BY <1>0, <1>19, <2>2, <2>3, GoPoints, JoinerFacts
  <2>5. TypeOK'
    BY <1>0, <1>19, <2>4, Numbers DEF TypeOK, PcsOK, RunJoinTaskMax, jobVars, poolVars,
                                      userVars, envVars
  <2>6. Balanced(Joiner)
    BY <1>0, <1>19, <2>1, <2>4, Numbers, JoinerFacts DEF Accounting, RunJoinTaskMax, Balanced,
           Num, CountedAt, HoldingAt, HasItemAt, InTaskAt, TaskPcs, NotifyPcs, LoadPcs, jobVars,
           poolVars, userVars, envVars
  <2>7. Accounting'
    BY <1>0, <1>19, <2>4, <2>5, <2>6, Balance, JoinerFacts
  <2>8. JoinerWaits'
    BY <1>0, <1>19, <2>1, <2>4, Numbers, JoinerFacts, BoundsAssumption DEF IndInv, Admission,
           JoinerWaits, TypeOK, MayContribute, OnlyJoinerLeft, Waiting, RunJoinTaskMax, jobVars,
           poolVars, userVars, envVars
  <2>9. Cancellation'
    BY <1>0, <1>19, <2>1, <2>4, <2>5, Numbers, JoinerFacts DEF IndInv, Cancellation, TypeOK,
           OnlyJoinerLeft, RunJoinTaskMax, jobVars, poolVars, userVars, envVars
  <2>10. group_lock' = group_lock /\ \A u \in Threads : u # Joiner => seen'[u] = seen[u]
    BY <1>0, <1>19 DEF TypeOK, RunJoinTaskMax, jobVars, poolVars, userVars, envVars
  <2>11. Control' /\ Admission' /\ Cancellation'
    BY <1>19, <2>4, <2>8, <2>9, <2>10, JoinerKept
  <2> QED
    BY <2>5, <2>7, <2>11 DEF IndInv
<1>20. ASSUME WaitLoad PROVE IndInv'
  <2>1. PICK p : p = "wait_max"
    OBVIOUS
  <2>2. Go(Joiner, p) /\ ret' = ret
    BY <1>20, <2>1 DEF WaitLoad
  <2>3. p \in PcsOf(Joiner)
    BY <1>20, <2>1, JoinerFacts DEF WaitLoad, PcsOf, WorkerPcs, JoinPcs, TaskPcs, NotifyPcs
  <2>4. pc'[Joiner] = p /\ Moves(Joiner) /\ ret'[Joiner] = ret[Joiner] /\ PcsOK'
    BY <1>0, <1>20, <2>2, <2>3, GoPoints, JoinerFacts
  <2>5. TypeOK'
    BY <1>0, <1>20, <2>4, Numbers, JoinerFacts DEF TypeOK, PcsOK, WaitLoad, jobVars, poolVars,
           userVars, envVars
  <2>6. Balanced(Joiner)
    BY <1>0, <1>20, <2>1, <2>4, Numbers, JoinerFacts DEF Accounting, WaitLoad, Balanced, Num,
           CountedAt, HoldingAt, HasItemAt, InTaskAt, TaskPcs, NotifyPcs, LoadPcs, jobVars,
           poolVars, userVars, envVars
  <2>7. Accounting'
    BY <1>0, <1>20, <2>4, <2>5, <2>6, Balance, JoinerFacts
  <2>8. JoinerWaits'
    BY <1>0, <1>20, <2>1, <2>4, Numbers, JoinerFacts, BoundsAssumption DEF IndInv, Admission,
           JoinerWaits, TypeOK, MayContribute, OnlyJoinerLeft, Waiting, WaitLoad, jobVars,
           poolVars, userVars, envVars
  <2>9. Cancellation'
    BY <1>0, <1>20, <2>1, <2>4, <2>5, Numbers, JoinerFacts DEF IndInv, Cancellation, TypeOK,
           OnlyJoinerLeft, WaitLoad, jobVars, poolVars, userVars, envVars
  <2>10. group_lock' = group_lock /\ \A u \in Threads : u # Joiner => seen'[u] = seen[u]
    BY <1>0, <1>20 DEF TypeOK, WaitLoad, jobVars, poolVars, userVars, envVars
  <2>11. Control' /\ Admission' /\ Cancellation'
    BY <1>20, <2>4, <2>8, <2>9, <2>10, JoinerKept
  <2> QED
    BY <2>5, <2>7, <2>11 DEF IndInv
<1>21. ASSUME WaitMax PROVE IndInv'
  <2>1. PICK p : p = IF MayContribute THEN "task" ELSE IF OnlyJoinerLeft THEN "remove" ELSE "waiting"
    OBVIOUS
  <2>2. Go(Joiner, p) /\ ret' = ret
    BY <1>21, <2>1 DEF WaitMax
  <2>3. p \in PcsOf(Joiner)
    BY <1>21, <2>1, JoinerFacts DEF WaitMax, PcsOf, WorkerPcs, JoinPcs, TaskPcs, NotifyPcs
  <2>4. pc'[Joiner] = p /\ Moves(Joiner) /\ ret'[Joiner] = ret[Joiner] /\ PcsOK'
    BY <1>0, <1>21, <2>2, <2>3, GoPoints, JoinerFacts
  <2>5. count >= 1
    BY <1>21, Positive, JoinerFacts DEF WaitMax, CountedAt, LoadPcs
  <2>6. TypeOK'
    BY <1>0, <1>21, <2>4, Numbers, <2>5 DEF TypeOK, PcsOK, WaitMax, jobVars, poolVars, userVars,
           envVars
  <2>7. Balanced(Joiner)
    BY <1>0, <1>21, <2>1, <2>4, Numbers, JoinerFacts, <2>5 DEF Accounting, WaitMax, Balanced,
           Num, CountedAt, HoldingAt, HasItemAt, InTaskAt, TaskPcs, NotifyPcs, LoadPcs, jobVars,
           poolVars, userVars, envVars
  <2>8. Accounting'
    BY <1>0, <1>21, <2>4, <2>6, <2>7, Balance, JoinerFacts
  <2>9. JoinerWaits'
    BY <1>0, <1>21, <2>1, <2>4, <2>5, Numbers, JoinerFacts, BoundsAssumption DEF IndInv,
           Admission, JoinerWaits, TypeOK, MayContribute, OnlyJoinerLeft, Waiting, WaitMax,
           jobVars, poolVars, userVars, envVars
  <2>10. Cancellation'
    BY <1>0, <1>21, <2>1, <2>4, <2>5, <2>6, Numbers, JoinerFacts DEF IndInv, Cancellation,
           TypeOK, OnlyJoinerLeft, WaitMax, jobVars, poolVars, userVars, envVars
  <2>11. group_lock' = group_lock /\ \A u \in Threads : u # Joiner => seen'[u] = seen[u]
    BY <1>0, <1>21 DEF TypeOK, WaitMax, jobVars, poolVars, userVars, envVars
  <2>12. Control' /\ Admission' /\ Cancellation'
    BY <1>21, <2>4, <2>9, <2>10, <2>11, JoinerKept
  <2> QED
    BY <2>6, <2>8, <2>12 DEF IndInv
<1>22. ASSUME RemoveJobTaskSource PROVE IndInv'
  <2>1. PICK p : p = "joined"
    OBVIOUS
  <2>2. Go(Joiner, p) /\ ret' = ret
    BY <1>22, <2>1 DEF RemoveJobTaskSource
  <2>3. p \in PcsOf(Joiner)
    BY <1>22, <2>1, JoinerFacts DEF RemoveJobTaskSource, PcsOf, WorkerPcs, JoinPcs, TaskPcs,
                                    NotifyPcs
  <2>4. pc'[Joiner] = p /\ Moves(Joiner) /\ ret'[Joiner] = ret[Joiner] /\ PcsOK'
    BY <1>0, <1>22, <2>2, <2>3, GoPoints, JoinerFacts
  <2>5. registered - entries \in Nat
    BY <1>22, Positive, JoinerFacts
  <2>6. TypeOK'
    BY <1>0, <1>22, <2>4, Numbers, <2>5 DEF TypeOK, PcsOK, RemoveJobTaskSource, jobVars,
           poolVars, userVars, envVars
  <2>7. Balanced(Joiner)
    BY <1>0, <1>22, <2>1, <2>4, Numbers, JoinerFacts, <2>5 DEF Accounting, RemoveJobTaskSource,
           Balanced, Num, CountedAt, HoldingAt, HasItemAt, InTaskAt, TaskPcs, NotifyPcs,
           LoadPcs, jobVars, poolVars, userVars, envVars
  <2>8. Accounting'
    BY <1>0, <1>22, <2>4, <2>6, <2>7, Balance, JoinerFacts
  <2>9. JoinerWaits'
    BY <1>0, <1>22, <2>1, <2>4, <2>5, Numbers, JoinerFacts, BoundsAssumption DEF IndInv,
           Admission, JoinerWaits, TypeOK, MayContribute, OnlyJoinerLeft, Waiting,
           RemoveJobTaskSource, jobVars, poolVars, userVars, envVars
  <2>10. Cancellation'
    BY <1>0, <1>22, <2>1, <2>4, <2>5, <2>6, Numbers, JoinerFacts DEF IndInv, Cancellation,
           TypeOK, OnlyJoinerLeft, RemoveJobTaskSource, jobVars, poolVars, userVars, envVars
  <2>11. group_lock' = group_lock /\ \A u \in Threads : u # Joiner => seen'[u] = seen[u]
    BY <1>0, <1>22 DEF TypeOK, RemoveJobTaskSource, jobVars, poolVars, userVars, envVars
  <2>12. Control' /\ Admission' /\ Cancellation'
    BY <1>22, <2>4, <2>9, <2>10, <2>11, JoinerKept
  <2> QED
    BY <2>6, <2>8, <2>12 DEF IndInv
<1>23. ASSUME SpuriousWakeUp PROVE IndInv'
  <2>1. PICK p : p = "wait_lock"
    OBVIOUS
  <2>2. Go(Joiner, p) /\ ret' = ret
    BY <1>23, <2>1 DEF SpuriousWakeUp
  <2>3. p \in PcsOf(Joiner)
    BY <1>23, <2>1, JoinerFacts DEF SpuriousWakeUp, PcsOf, WorkerPcs, JoinPcs, TaskPcs, NotifyPcs
  <2>4. pc'[Joiner] = p /\ Moves(Joiner) /\ ret'[Joiner] = ret[Joiner] /\ PcsOK'
    BY <1>0, <1>23, <2>2, <2>3, GoPoints, JoinerFacts
  <2>5. TypeOK'
    BY <1>0, <1>23, <2>4, Numbers, BoundsAssumption DEF TypeOK, PcsOK, SpuriousWakeUp, jobVars,
           poolVars, userVars, envVars
  <2>6. Balanced(Joiner)
    BY <1>0, <1>23, <2>1, <2>4, Numbers, JoinerFacts DEF Accounting, SpuriousWakeUp, Balanced,
           Num, CountedAt, HoldingAt, HasItemAt, InTaskAt, TaskPcs, NotifyPcs, LoadPcs, jobVars,
           poolVars, userVars, envVars, Waiting
  <2>7. Accounting'
    BY <1>0, <1>23, <2>4, <2>5, <2>6, Balance, JoinerFacts
  <2>8. JoinerWaits'
    BY <1>0, <1>23, <2>1, <2>4, Numbers, JoinerFacts, BoundsAssumption DEF IndInv, Admission,
           JoinerWaits, TypeOK, MayContribute, OnlyJoinerLeft, Waiting, SpuriousWakeUp, jobVars,
           poolVars, userVars, envVars
  <2>9. Cancellation'
    BY <1>0, <1>23, <2>1, <2>4, <2>5, Numbers, JoinerFacts DEF IndInv, Cancellation, TypeOK,
           OnlyJoinerLeft, SpuriousWakeUp, jobVars, poolVars, userVars, envVars
  <2>10. group_lock' = group_lock /\ \A u \in Threads : u # Joiner => seen'[u] = seen[u]
    BY <1>0, <1>23 DEF TypeOK, SpuriousWakeUp, jobVars, poolVars, userVars, envVars
  <2>11. Control' /\ Admission' /\ Cancellation'
    BY <1>23, <2>4, <2>8, <2>9, <2>10, JoinerKept
  <2> QED
    BY <2>5, <2>7, <2>11 DEF IndInv
<1>24. ASSUME StartShutdown PROVE IndInv'
  <2>1. Moves(Joiner) /\ pc' = pc /\ ret' = ret
    BY <1>24 DEF StartShutdown, Moves
  <2>2. TypeOK'
    BY <1>0, <1>24 DEF TypeOK, StartShutdown, jobVars, poolVars, userVars, envVars
  <2>3. Balanced(Joiner)
    BY <1>0, <1>24, <2>1, Numbers, JoinerFacts DEF Accounting, StartShutdown, Balanced, Num,
           CountedAt, HoldingAt, HasItemAt, InTaskAt, TaskPcs, NotifyPcs, LoadPcs, jobVars,
           poolVars, userVars, envVars
  <2>4. Accounting'
    BY <1>0, <1>24, <2>1, <2>2, <2>3, Balance, JoinerFacts
  <2>5. JoinerWaits'
    BY <1>0, <1>24, <2>1, Numbers, JoinerFacts, BoundsAssumption DEF IndInv, Admission,
           JoinerWaits, TypeOK, MayContribute, OnlyJoinerLeft, Waiting, StartShutdown, jobVars,
           poolVars, userVars, envVars
  <2>6. Cancellation'
    BY <1>0, <1>24, <2>1, <2>2, Numbers, JoinerFacts DEF IndInv, Cancellation, TypeOK,
           OnlyJoinerLeft, StartShutdown, jobVars, poolVars, userVars, envVars
  <2>7. group_lock' = group_lock /\ \A u \in Threads : u # Joiner => seen'[u] = seen[u]
    BY <1>0, <1>24 DEF TypeOK, StartShutdown, jobVars, poolVars, userVars, envVars
  <2>8. Control' /\ Admission' /\ Cancellation'
    BY <1>24, <2>1, <2>5, <2>6, <2>7, JoinerKept
  <2> QED
    BY <2>2, <2>4, <2>8 DEF IndInv
<1> QED
  BY <1>1, <1>2, <1>3, <1>4, <1>5, <1>6, <1>7, <1>8, <1>9, <1>10, <1>11, <1>12, <1>13, <1>14,
     <1>15, <1>16, <1>17, <1>18, <1>19, <1>20, <1>21, <1>22, <1>23, <1>24
     DEF Next, WorkerStep, TaskStep, JoinStep

-----------------------------------------------------------------------------
(***************************************************************************)
(* The theorems.                                                           *)
(***************************************************************************)
\* PostJob() starts with a consistent job.
LEMMA InitInd == Init => IndInv
<1> SUFFICES ASSUME Init PROVE IndInv
  OBVIOUS
<1>1. Joiner \in Threads /\ Joiner \notin Workers /\ \A w \in Workers : w \in Threads /\ w # None
  BY ThreadsAssumption DEF Threads
<1>2. /\ pc[Joiner] = "register" /\ ret[Joiner] = "open"
      /\ \A w \in Workers : pc[w] = "idle" /\ ret[w] = "process"
  BY <1>1 DEF Init
<1>3. TypeOK
  <2>1. pc \in [Threads -> WorkerPcs \cup JoinPcs]
    BY DEF Init, WorkerPcs, JoinPcs, NotifyPcs
  <2>2. pc[Joiner] \in JoinPcs /\ \A w \in Workers : pc[w] \in WorkerPcs
    BY <1>2 DEF WorkerPcs, JoinPcs, NotifyPcs
  <2>3. ret \in [Threads -> {"open", "process"}] /\ seen \in [Threads -> Nat]
    BY DEF Init
  <2>4. /\ todo \in 0..MaxItems /\ work \in 0..MaxItems /\ added \in 0..MaxItems
        /\ yields \in 0..MaxYields /\ spurious \in 0..MaxSpurious
    BY BoundsAssumption DEF Init
  <2>5. /\ count \in Nat /\ canceled \in BOOLEAN /\ join_flag = "kNotWaiting"
        /\ lock \in Threads \cup {None} /\ group_lock \in Workers \cup {None}
        /\ entries \in Nat /\ registered \in Nat /\ shutdown \in BOOLEAN
        /\ seen_canceled \in BOOLEAN /\ how = "none"
    BY DEF Init
  <2> QED
    BY <2>1, <2>2, <2>3, <2>4, <2>5 DEF TypeOK
<1>4. Counted = {} /\ Holding = {} /\ Pushing = {} /\ Processing = {}
  <2>1. ~InTask(Joiner) /\ \A w \in Workers : ~InTask(w)
    BY <1>2 DEF InTask, TaskPcs, NotifyPcs
  <2>2. Counted = {}
    BY <1>2, <2>1 DEF Counted
  <2>3. Holding = {}
    BY <1>2, <2>2 DEF Holding
  <2>4. \A t \in Threads : pc[t] # "push" /\ ~HasItem(t)
    BY <1>2 DEF Threads, HasItem, NotifyPcs
  <2> QED
    BY <2>2, <2>3, <2>4 DEF Pushing, Processing
<1>5. Accounting
  <2>1. /\ Cardinality(Counted) = 0 /\ Cardinality(Holding) = 0
        /\ Cardinality(Pushing) = 0 /\ Cardinality(Processing) = 0
    BY <1>4, FS_EmptySet
  <2>2. /\ count = 0 /\ entries = 0 /\ registered = 0 /\ group_lock = None
        /\ work = Items /\ todo = Items /\ added = Items /\ Items \in Nat
    BY BoundsAssumption DEF Init
  <2> QED
    BY <2>1, <2>2 DEF Accounting
<1>6. Control
  BY <1>1, <1>2 DEF Init, Control
<1>7. Admission
  BY <1>2, BoundsAssumption DEF Init, Admission, JoinerWaits
<1>8. Cancellation
  BY DEF Init, Cancellation
<1> QED
  BY <1>3, <1>5, <1>6, <1>7, <1>8 DEF IndInv

\* A step that changes nothing keeps the invariant.
LEMMA StutterInd == IndInv /\ UNCHANGED vars => IndInv'
<1> SUFFICES ASSUME IndInv, UNCHANGED vars PROVE IndInv'
  OBVIOUS
<1> USE DEF vars, jobVars, poolVars, userVars, envVars
<1>1. TypeOK'
  BY DEF IndInv, TypeOK
<1>2. Control' /\ Admission' /\ Cancellation'
  BY DEF IndInv, Control, Admission, JoinerWaits, Cancellation
<1>3. Counted' = Counted
  BY DEF Counted, InTask
<1>4. Holding' = Holding /\ Pushing' = Pushing /\ Processing' = Processing
  BY <1>3 DEF Holding, Pushing, Processing, HasItem
<1>5. Accounting'
  BY <1>3, <1>4 DEF IndInv, Accounting
<1> QED
  BY <1>1, <1>2, <1>5 DEF IndInv

\* The inductive invariant: places and locks, the accounts of workers, registrations and items,
\* the bound on admissions and what a cancellation has seen.
THEOREM Invariance == Spec => []IndInv
<1>1. IndInv /\ [Next]_vars => IndInv'
  BY NextInd, StutterInd
<1> QED
  BY InitInd, <1>1, PTL DEF Spec

\* The worker count of state_ is exact, for any number of workers, items and yields: the
\* compare-and-swap of WillRunTask(), the fetch_sub of DidProcessTask() and the joining
\* thread's own increment and decrement account for every thread in worker_task_.
THEOREM CountHolds == Spec => []CountIsExact
<1>1. IndInv => CountIsExact
  BY DEF IndInv, Accounting, CountIsExact
<1> QED
  BY Invariance, <1>1, PTL

\* One node in the queue at most, and every registration with the TaskTracker has an owner: the
\* re-enqueues of the workers, the notifications and RemoveJobTaskSource() neither leak nor
\* release twice.
THEOREM RegistrationsHold == Spec => []RegistrationsBalanced
<1>1. IndInv => RegistrationsBalanced
  BY DEF IndInv, Accounting, RegistrationsBalanced
<1> QED
  BY Invariance, <1>1, PTL

\* Never more than Cap threads run worker_task_, although WillJoin() increments the count
\* without looking at the max concurrency and WillRunTask() looks at it before it increments.
THEOREM CapHolds == Spec => []RunningWithinCap
<1>1. IndInv => RunningWithinCap
  <2> SUFFICES ASSUME IndInv PROVE RunningWithinCap
    OBVIOUS
  <2> DEFINE Running == {t \in Threads : InTask(t)}
  <2>1. TypeOK /\ count = Cardinality(Counted) /\ count \in Nat /\ Cap \in Nat
    BY BoundsAssumption DEF IndInv, Accounting, TypeOK
  <2>2. Running \subseteq Counted
    BY DEF Counted, Threads
  <2>3. IsFiniteSet(Counted)
    BY FiniteSets_
  <2>4. CASE count <= Cap
    <3>1. Cardinality(Running) <= Cardinality(Counted) /\ Cardinality(Running) \in Nat
      BY <2>2, <2>3, FS_Subset, FS_CardinalityType
    <3> QED
      BY <2>1, <2>4, <3>1 DEF RunningWithinCap
  <2>5. CASE count > Cap
    <3>1. count = Cap + 1 /\ pc[Joiner] \in {"load_max", "wait_lock", "wait_max", "waiting"}
      BY <2>5 DEF IndInv, Admission, JoinerWaits
    <3>2. ~InTask(Joiner) /\ Joiner \in Counted
      BY <3>1 DEF InTask, Counted, TaskPcs, NotifyPcs
    <3>3. Running \subseteq Counted \ {Joiner}
      BY <2>2, <3>2
    <3>4. IsFiniteSet(Counted \ {Joiner}) /\ Cardinality(Counted \ {Joiner}) = Cap
      <4>1. /\ IsFiniteSet(Counted \ {Joiner})
            /\ Cardinality(Counted \ {Joiner}) = Cardinality(Counted) - 1
        BY <2>3, <3>2, FS_RemoveElement
      <4> QED
        BY <2>1, <3>1, <4>1
    <3>5. Cardinality(Running) <= Cardinality(Counted \ {Joiner})
      BY <3>3, <3>4, FS_Subset
    <3> QED
      BY <3>4, <3>5 DEF RunningWithinCap
  <2> QED
    BY <2>1, <2>4, <2>5
<1> QED
  BY Invariance, <1>1, PTL

\* Once JobHandle::Cancel() is past its wait, no worker is in worker_task_, and none gets there.
THEOREM CancelHolds == Spec => []CancelWaits
<1>1. IndInv => CancelWaits
  <2> SUFFICES ASSUME IndInv, how = "cancel", pc[Joiner] \in {"remove", "joined"},
                      NEW w \in Workers, InTask(w)
               PROVE  FALSE
    BY DEF CancelWaits
  <2>1. count = 0 /\ count = Cardinality(Counted)
    BY DEF IndInv, Cancellation, Accounting
  <2>2. Counted = {}
    BY <2>1, FiniteSets_, FS_EmptySet
  <2>3. w \in Counted
    BY DEF Counted
  <2> QED
    BY <2>2, <2>3
<1> QED
  BY Invariance, <1>1, PTL
=============================================================================
