----------------------- MODULE SequenceManagerProofs -----------------------
(***************************************************************************)
(* Machine-checked proofs about SequenceManager: the queues stay ordered   *)
(* and what other threads read of them is so, a pump that sleeps has not   *)
(* forgotten a task, tasks start in the order they were posted, and none   *)
(* is lost or runs twice. For any number of queues, tasks, posting threads *)
(* and nested run loops.                                                   *)
(*                                                                         *)
(* The part of the invariant that is about one queue is stated of any      *)
(* record r of a queue, its deferred tasks d and last sequence number n,   *)
(* so that each operation on a queue has its lemma.                        *)
(***************************************************************************)
EXTENDS SequenceManager, FiniteSetTheorems, SequenceTheorems, NaturalsInduction,
        WellFoundedInduction, TLAPS

Entries == [task : Tasks, hop : BOOLEAN, order : Nat, time : Nat]

Records ==
  [incoming : Seq(Entries), work : Seq(Entries), delayed_work : Seq(Entries),
   delayed_incoming : SUBSET Entries, wake_up : Nat, enabled : BOOLEAN, fence : Nat,
   work_empty : BOOLEAN, should_schedule : BOOLEAN]

Backlogs == [immediate : Seq(Entries), delayed : Seq(Entries)]

Loops ==
  [pc : PCs, i : Nat, callbacks : SUBSET Queues, immediate : BOOLEAN, timed : BOOLEAN,
   hop : SUBSET Entries, until_idle : BOOLEAN, quit_called : BOOLEAN, keep : BOOLEAN,
   restore : BOOLEAN]

Starts == [task : Tasks, order : Nat, nested : BOOLEAN]

Elems(s) == {s[k] : k \in 1..Len(s)}
Below(S, T) == \A d \in S, e \in T : d.order < e.order

\* The entries of a queue q, of the immediate and the delayed kind.
Immediate(q, n, e) == QueueOf[e.task] = q /\ e.order \in 2..n /\ (e.hop => Delay[e.task] > 0)
Delayed(q, n, e) == QueueOf[e.task] = q /\ e.order \in 2..n /\ Delay[e.task] > 0

Contents(q, r, d, n) ==
  /\ \A e \in Elems(r.incoming) \cup Elems(r.work) \cup Elems(d.immediate) : Immediate(q, n, e)
  /\ \A e \in Elems(r.delayed_work) \cup Elems(d.delayed) \cup r.delayed_incoming : Delayed(q, n, e)
  /\ \A e \in r.delayed_incoming : e.time > 0
  /\ \A e \in Elems(d.immediate) : ~Nestable(e)
  /\ r.fence \in 0..n /\ IsFiniteSet(r.delayed_incoming)

\* Deferred tasks come before the work queue, and that before the incoming queue.
Orders(r, d) ==
  /\ Increasing(d.immediate) /\ Increasing(r.work) /\ Increasing(r.incoming)
  /\ Below(Elems(d.immediate), Elems(r.work)) /\ Below(Elems(d.immediate), Elems(r.incoming))
  /\ Below(Elems(r.work), Elems(r.incoming))
  /\ Increasing(d.delayed) /\ Increasing(r.delayed_work)
  /\ Below(Elems(d.delayed), Elems(r.delayed_work))

\* What posting threads read under the lock is so.
Published(r) ==
  /\ r.work_empty = (r.work = <<>>)
  /\ r.should_schedule = (r.enabled /\ r.fence = kNone)

\* The wake-up is early enough for every delayed task.
Wakes(r) ==
  r.enabled => \A e \in r.delayed_incoming : r.wake_up # Never /\ r.wake_up <= e.time

Holds(q, r, d, n) == r \in Records /\ d \in Backlogs /\ Contents(q, r, d, n) /\ Orders(r, d)
QueueOK(q, r, d, n) == Holds(q, r, d, n) /\ Published(r) /\ Wakes(r)

AllQueues ==
  /\ queue \in [Queues -> Records] /\ deferred \in [Queues -> Backlogs]
  /\ \A q \in Queues : QueueOK(q, queue[q], deferred[q], seq)

\* One run loop; reloads are under way, and a hop carries a task, only at their places.
LoopOK(l, n) ==
  /\ l \in Loops
  /\ l.callbacks # {} => l.pc \in {"select_reload", "check_reload"}
  /\ \A e \in l.hop : Delayed(QueueOf[e.task], n, e)

StackOK ==
  /\ stack \in Seq(Loops)
  /\ \A k \in 1..Len(stack) :
       /\ LoopOK(stack[k], seq)
       /\ k < Len(stack) => stack[k].pc = "run"
       /\ k = 1 => ~stack[k].restore

Scalars ==
  /\ state_ \in SUBSET {"InDoWork", "PendingDoWork", "Bound"} /\ event_ \in BOOLEAN
  /\ reload \in SUBSET Queues /\ seq \in Nat \ {0} /\ now \in Nat \ {0}
  /\ keep_running \in BOOLEAN /\ quit_pending \in BOOLEAN /\ task_execution_allowed \in BOOLEAN
  /\ poster \in [Posters -> {"idle", "request", "signal"}]

\* The outermost run loop may run tasks unless it is in one, and defers none.
Control ==
  /\ stack # <<>> => Bound
  /\ quit_pending => ~keep_running
  /\ stack = <<>> => task_execution_allowed
  /\ Len(stack) = 1 => Top.pc \in {"run", "hop"} \/ task_execution_allowed
  /\ Len(stack) <= 1 => deferred = NoneDeferred

\* A queue is to be reloaded, by a flag or a callback, iff only its incoming queue has tasks.
Callbacks == IF stack = <<>> THEN {} ELSE Top.callbacks
NeedsReload(r) == r.work = <<>> /\ r.incoming # <<>>
Reloads ==
  /\ \A q \in Queues : q \in reload \cup Callbacks <=> NeedsReload(queue[q])
  /\ reload \cap Callbacks = {}

\* Somebody has asked for a DoWork or is about to, since the check for more work began.
Asked == "PendingDoWork" \in state_ \/ \E p \in Posters : poster[p] = "request"
IncomingRunnable(q) == \E e \in Elems(queue[q].incoming) : CouldTaskRun(queue[q], e)
Timed == NextRunTime(queue) # Never => Top.timed

Sleep ==
  /\ At("check_reload") => \A q \in reload : IncomingRunnable(q) => Asked
  /\ At("did_check") =>
       \/ Top.immediate \/ ~task_execution_allowed \/ quit_pending
       \/ Timed /\ \A q \in Queues : Runnable(q) => Asked
  /\ At("wait") =>
       /\ "InDoWork" \notin state_
       /\ "PendingDoWork" \in state_ => event_ \/ \E p \in Posters : poster[p] = "signal"
       /\ task_execution_allowed =>
            Timed /\ ((\E q \in Queues : Runnable(q)) => WakeUpOnItsWay)

\* What has started and what waits in the immediate queues of the same queue.
Precedes(s, e) ==
  Delay[s.task] = 0 /\ Delay[e.task] = 0 =>
    s.order < e.order \/ (s.nested /\ e.task \in NonNestable)
Waiting(r, d) == Elems(d.immediate) \cup Elems(r.work) \cup Elems(r.incoming)
StartOrder ==
  /\ started \in Seq(Starts)
  /\ \A s \in Elems(started) : s.order <= seq
  /\ \A s \in Elems(started) :
       \A e \in Waiting(queue[QueueOf[s.task]], deferred[QueueOf[s.task]]) : Precedes(s, e)
  /\ StartsInPostingOrder

IndInv == Scalars /\ AllQueues /\ StackOK /\ Control /\ Reloads /\ Sleep /\ StartOrder

-----------------------------------------------------------------------------
(***************************************************************************)
(* Sequences of entries and least wake-ups.                                *)
(***************************************************************************)

\* Appending adds one element.
LEMMA ElemsAppend ==
  ASSUME NEW X, NEW s \in Seq(X), NEW e \in X
  PROVE  Append(s, e) \in Seq(X) /\ Elems(Append(s, e)) = Elems(s) \cup {e}
<1>1. /\ Append(s, e) \in Seq(X) /\ Len(Append(s, e)) = Len(s) + 1 /\ Len(s) \in Nat
      /\ \A k \in 1..Len(s) : Append(s, e)[k] = s[k]
      /\ Append(s, e)[Len(s) + 1] = e
  OBVIOUS
<1>2. 1..(Len(s) + 1) = (1..Len(s)) \cup {Len(s) + 1}
  BY <1>1
<1> HIDE DEF Elems
<1>3. Elems(Append(s, e)) \subseteq Elems(s) \cup {e}
  BY <1>1, <1>2 DEF Elems
<1>4. Elems(s) \cup {e} \subseteq Elems(Append(s, e))
  BY <1>1, <1>2 DEF Elems
<1> QED
  BY <1>1, <1>3, <1>4

\* A non-empty sequence is its first element and the rest.
LEMMA ElemsTail ==
  ASSUME NEW X, NEW s \in Seq(X), s # <<>>
  PROVE  /\ Tail(s) \in Seq(X) /\ s[1] \in X
         /\ Elems(s) = {s[1]} \cup Elems(Tail(s))
         /\ Len(Tail(s)) = Len(s) - 1 /\ Len(s) \in Nat \ {0}
         /\ \A k \in 1..Len(Tail(s)) : Tail(s)[k] = s[k + 1]
<1>1. /\ Tail(s) \in Seq(X) /\ s[1] \in X
      /\ Len(Tail(s)) = Len(s) - 1 /\ Len(s) \in Nat \ {0}
      /\ \A k \in 1..Len(Tail(s)) : Tail(s)[k] = s[k + 1]
  OBVIOUS
<1>2. Elems(s) \subseteq {s[1]} \cup Elems(Tail(s))
  <2> SUFFICES ASSUME NEW k \in 1..Len(s), k # 1 PROVE s[k] \in Elems(Tail(s))
    BY DEF Elems
  <2>1. k - 1 \in 1..Len(Tail(s)) /\ (k - 1) + 1 = k
    BY <1>1
  <2> QED
    BY <1>1, <2>1 DEF Elems
<1>3. {s[1]} \cup Elems(Tail(s)) \subseteq Elems(s)
  <2>1. s[1] \in Elems(s)
    BY <1>1 DEF Elems
  <2>2. ASSUME NEW k \in 1..Len(Tail(s)) PROVE Tail(s)[k] \in Elems(s)
    <3>1. k + 1 \in 1..Len(s) /\ Tail(s)[k] = s[k + 1]
      BY <1>1
    <3> QED
      BY <3>1 DEF Elems
  <2> QED
    BY <2>1, <2>2 DEF Elems
<1> QED
  BY <1>1, <1>2, <1>3

\* Where the elements of a concatenation are.
LEMMA Concatenation ==
  ASSUME NEW X, NEW s \in Seq(X), NEW t \in Seq(X)
  PROVE  /\ s \o t \in Seq(X) /\ Len(s \o t) = Len(s) + Len(t)
         /\ Len(s) \in Nat /\ Len(t) \in Nat
         /\ \A k \in 1..Len(s) : (s \o t)[k] = s[k]
         /\ \A k \in 1..Len(t) : (s \o t)[Len(s) + k] = t[k]
         /\ \A k \in 1..Len(s \o t) :
              k \in 1..Len(s) \/ (k - Len(s) \in 1..Len(t) /\ (s \o t)[k] = t[k - Len(s)])
<1>1. /\ s \o t \in Seq(X) /\ Len(s \o t) = Len(s) + Len(t)
      /\ Len(s) \in Nat /\ Len(t) \in Nat
  OBVIOUS
<1>2. \A k \in 1..Len(s \o t) : (s \o t)[k] = IF k <= Len(s) THEN s[k] ELSE t[k - Len(s)]
  OBVIOUS
<1>3. ASSUME NEW k \in 1..Len(s) PROVE (s \o t)[k] = s[k]
  BY <1>1, <1>2
<1>4. ASSUME NEW k \in 1..Len(t) PROVE (s \o t)[Len(s) + k] = t[k]
  <2>1. Len(s) + k \in 1..Len(s \o t) /\ ~(Len(s) + k <= Len(s)) /\ (Len(s) + k) - Len(s) = k
    BY <1>1
  <2> QED
    BY <1>2, <2>1
<1>5. ASSUME NEW k \in 1..Len(s \o t)
      PROVE  k \in 1..Len(s) \/ (k - Len(s) \in 1..Len(t) /\ (s \o t)[k] = t[k - Len(s)])
  BY <1>1, <1>2
<1> QED
  BY <1>1, <1>3, <1>4, <1>5

\* The elements of a concatenation.
LEMMA ElemsConcat ==
  ASSUME NEW X, NEW s \in Seq(X), NEW t \in Seq(X)
  PROVE  s \o t \in Seq(X) /\ Elems(s \o t) = Elems(s) \cup Elems(t)
<1> DEFINE u == s \o t
<1>1. /\ u \in Seq(X) /\ Len(u) = Len(s) + Len(t)
      /\ Len(s) \in Nat /\ Len(t) \in Nat
      /\ \A k \in 1..Len(s) : u[k] = s[k]
      /\ \A k \in 1..Len(t) : u[Len(s) + k] = t[k]
      /\ \A k \in 1..Len(u) :
           k \in 1..Len(s) \/ (k - Len(s) \in 1..Len(t) /\ u[k] = t[k - Len(s)])
  BY Concatenation
<1> HIDE DEF u
<1>2. Elems(u) \subseteq Elems(s) \cup Elems(t)
  BY <1>1 DEF Elems
<1>3. ASSUME NEW k \in 1..Len(s) PROVE s[k] \in Elems(u)
  <2>1. k \in 1..Len(u)
    BY <1>1
  <2> QED
    BY <1>1, <2>1 DEF Elems
<1>4. ASSUME NEW k \in 1..Len(t) PROVE t[k] \in Elems(u)
  <2>1. Len(s) + k \in 1..Len(u)
    BY <1>1
  <2> QED
    BY <1>1, <2>1 DEF Elems
<1>5. Elems(s) \cup Elems(t) \subseteq Elems(u)
  BY <1>3, <1>4 DEF Elems
<1> QED
  BY <1>1, <1>2, <1>5 DEF u

\* Sets below each other.
LEMMA BelowUnion ==
  ASSUME NEW S, NEW T, NEW U
  PROVE  /\ Below(S \cup T, U) <=> Below(S, U) /\ Below(T, U)
         /\ Below(S, T \cup U) <=> Below(S, T) /\ Below(S, U)
  BY DEF Below

\* A larger entry may be appended.
LEMMA IncreasingAppend ==
  ASSUME NEW s \in Seq(Entries), NEW e \in Entries, Increasing(s), Below(Elems(s), {e})
  PROVE  Increasing(Append(s, e))
<1>1. /\ Len(Append(s, e)) = Len(s) + 1 /\ Len(s) \in Nat
      /\ \A k \in 1..Len(s) : Append(s, e)[k] = s[k] /\ s[k] \in Elems(s)
      /\ Append(s, e)[Len(s) + 1] = e
  BY DEF Elems
<1> SUFFICES ASSUME NEW j \in 1..(Len(s) + 1), NEW k \in 1..(Len(s) + 1), j < k
             PROVE  Append(s, e)[j].order < Append(s, e)[k].order
  BY <1>1 DEF Increasing
<1>2. j \in 1..Len(s)
  BY <1>1
<1>3. CASE k = Len(s) + 1
  BY <1>1, <1>2, <1>3 DEF Below
<1>4. CASE k # Len(s) + 1
  <2>1. k \in 1..Len(s)
    BY <1>1, <1>4
  <2> QED
    BY <1>1, <1>2, <2>1 DEF Increasing
<1> QED
  BY <1>3, <1>4

\* The first entry is the smallest one.
LEMMA IncreasingTail ==
  ASSUME NEW s \in Seq(Entries), s # <<>>, Increasing(s)
  PROVE  Increasing(Tail(s)) /\ Below({s[1]}, Elems(Tail(s)))
<1>1. /\ Len(Tail(s)) = Len(s) - 1 /\ Len(s) \in Nat \ {0}
      /\ \A k \in 1..Len(Tail(s)) : Tail(s)[k] = s[k + 1]
  BY ElemsTail
<1>2. ASSUME NEW j \in 1..Len(Tail(s)), NEW k \in 1..Len(Tail(s)), j < k
      PROVE  Tail(s)[j].order < Tail(s)[k].order
  <2>1. j + 1 \in 1..Len(s) /\ k + 1 \in 1..Len(s) /\ j + 1 < k + 1
    BY <1>1, <1>2
  <2> QED
    BY <1>1, <2>1 DEF Increasing
<1>3. ASSUME NEW k \in 1..Len(Tail(s)) PROVE s[1].order < Tail(s)[k].order
  <2>1. 1 \in 1..Len(s) /\ k + 1 \in 1..Len(s) /\ 1 < k + 1
    BY <1>1
  <2> QED
    BY <1>1, <2>1 DEF Increasing
<1> QED
  BY <1>2, <1>3 DEF Increasing, Below, Elems

\* An increasing sequence followed by one above it is increasing.
LEMMA IncreasingConcat ==
  ASSUME NEW s \in Seq(Entries), NEW t \in Seq(Entries), Increasing(s), Increasing(t),
         Below(Elems(s), Elems(t))
  PROVE  Increasing(s \o t)
<1> DEFINE u == s \o t
<1>1. /\ Len(u) = Len(s) + Len(t) /\ Len(s) \in Nat /\ Len(t) \in Nat
      /\ \A k \in 1..Len(s) : u[k] = s[k] /\ s[k] \in Elems(s)
      /\ \A k \in 1..Len(t) : t[k] \in Elems(t)
      /\ \A k \in 1..Len(u) :
           k \in 1..Len(s) \/ (k - Len(s) \in 1..Len(t) /\ u[k] = t[k - Len(s)])
  BY Concatenation DEF Elems
<1> HIDE DEF u
<1>2. ASSUME NEW j \in 1..Len(u), NEW k \in 1..Len(u), j < k PROVE u[j].order < u[k].order
  <2>1. CASE k \in 1..Len(s)
    <3>1. j \in 1..Len(s)
      BY <1>1, <1>2, <2>1
    <3> QED
      BY <1>1, <1>2, <2>1, <3>1 DEF Increasing
  <2>2. CASE k \notin 1..Len(s) /\ j \in 1..Len(s)
    BY <1>1, <2>2 DEF Below
  <2>3. CASE k \notin 1..Len(s) /\ j \notin 1..Len(s)
    <3>1. /\ j - Len(s) \in 1..Len(t) /\ k - Len(s) \in 1..Len(t) /\ j - Len(s) < k - Len(s)
          /\ u[j] = t[j - Len(s)] /\ u[k] = t[k - Len(s)]
      BY <1>1, <1>2, <2>3
    <3> QED
      BY <3>1 DEF Increasing
  <2> QED
    BY <2>1, <2>2, <2>3
<1> QED
  BY <1>2 DEF Increasing, u

\* In an increasing sequence nothing is before the front.
LEMMA FrontIsFirst ==
  ASSUME NEW s \in Seq(Entries), Increasing(s), NEW e \in Elems(s)
  PROVE  s # <<>> /\ s[1] \in Elems(s) /\ s[1] \in Entries /\ s[1].order <= e.order
<1>1. PICK k \in 1..Len(s) : e = s[k]
  BY DEF Elems
<1>2. Len(s) \in Nat /\ 1 \in 1..Len(s) /\ s[1] \in Entries /\ s[k] \in Entries
  BY <1>1
<1>3. s # <<>> /\ s[1] \in Elems(s)
  BY <1>2 DEF Elems
<1>4. s[1].order <= s[k].order
  <2>1. CASE k = 1
    BY <1>2, <2>1 DEF Entries
  <2>2. CASE k # 1
    <3>1. 1 < k
      BY <1>2, <2>2
    <3>2. s[1].order < s[k].order
      BY <1>2, <3>1 DEF Increasing
    <3> QED
      BY <1>2, <3>2 DEF Entries
  <2> QED
    BY <2>1, <2>2
<1> QED
  BY <1>1, <1>2, <1>3, <1>4

\* The empty sequence.
LEMMA NoElems == Elems(<<>>) = {} /\ Increasing(<<>>)
  BY DEF Elems, Increasing

\* The elements of a sequence of entries are entries.
LEMMA ElemsType ==
  ASSUME NEW X, NEW s \in Seq(X)
  PROVE  Elems(s) \subseteq X /\ (s = <<>> <=> Elems(s) = {}) /\ Range(s) = Elems(s)
<1>1. Elems(s) \subseteq X /\ Range(s) = Elems(s)
  BY DEF Elems, Range
<1>2. s # <<>> => s[1] \in Elems(s)
  BY DEF Elems
<1> QED
  BY <1>1, <1>2, NoElems

\* The order of the natural numbers is well-founded.
LEMMA NaturalOrder ==
  \E R : IsWellFoundedOn(R, Nat) /\ \A x, y \in Nat : y < x => <<y, x>> \in R
<1>1. \A x, y \in Nat : y < x => <<y, x>> \in OpToRel(<, Nat)
  BY DEF OpToRel
<1> QED
  BY <1>1, NatLessThanWellFounded, Zenon

\* Min() of a non-empty set of natural numbers is in it and below all of it.
LEMMA MinIsLeast ==
  ASSUME NEW T, T \subseteq Nat, T # {}
  PROVE  Min(T) \in T /\ \A y \in T : Min(T) <= y
<1>1. PICK R : IsWellFoundedOn(R, Nat) /\ \A x, y \in Nat : y < x => <<y, x>> \in R
  BY NaturalOrder, Zenon
<1>2. PICK x \in T : \A y \in T : ~(<<y, x>> \in R)
  BY <1>1, WFMin
<1>3. ASSUME NEW y \in T PROVE x <= y
  <2>1. x \in Nat /\ y \in Nat
    OBVIOUS
  <2>2. ~(y < x)
    BY <1>1, <1>2, <2>1, Zenon
  <2> QED
    BY <2>1, <2>2
<1>4. \E z \in T : \A y \in T : z <= y
  BY <1>3
<1> QED
  BY <1>4, Zenon DEF Min

\* Max() of two natural numbers.
LEMMA MaxOfTwo ==
  ASSUME NEW x \in Nat, NEW y \in Nat
  PROVE  Max({x, y}) \in Nat /\ Max({x, y}) >= x /\ Max({x, y}) >= y
<1>1. \E z \in {x, y} : \A w \in {x, y} : z >= w
  <2>1. CASE x >= y
    BY <2>1
  <2>2. CASE y >= x
    BY <2>2
  <2> QED
    BY <2>1, <2>2
<1>2. Max({x, y}) \in {x, y} /\ \A w \in {x, y} : Max({x, y}) >= w
  BY <1>1, Zenon DEF Max
<1> QED
  BY <1>2

-----------------------------------------------------------------------------
(***************************************************************************)
(* The operations on one queue.                                            *)
(***************************************************************************)

\* Only the tasks of a queue and its fence matter to what it holds.
SameTasks(r, u) ==
  /\ u.incoming = r.incoming /\ u.work = r.work /\ u.delayed_work = r.delayed_work
  /\ u.delayed_incoming = r.delayed_incoming

\* What a queue holds does not depend on its flags.
LEMMA HoldsSame ==
  ASSUME NEW q, NEW r, NEW u \in Records, NEW d, NEW n \in Nat, Holds(q, r, d, n),
         SameTasks(r, u), u.fence \in 0..n
  PROVE  Holds(q, u, d, n)
<1>1. Contents(q, u, d, n)
  BY DEF Holds, Contents, SameTasks
<1>2. Orders(u, d)
  BY DEF Holds, Orders, SameTasks
<1> QED
  BY <1>1, <1>2 DEF Holds

\* Later sequence numbers change nothing.
LEMMA HoldsLater ==
  ASSUME NEW q, NEW r, NEW d, NEW n \in Nat, NEW m \in Nat, n <= m, Holds(q, r, d, n)
  PROVE  Holds(q, r, d, m)
<1>1. \A k \in 0..n : k \in 0..m
  OBVIOUS
<1>2. \A k \in 2..n : k \in 2..m
  OBVIOUS
<1>3. Contents(q, r, d, m)
  BY <1>1, <1>2 DEF Holds, Contents, Immediate, Delayed
<1> QED
  BY <1>3 DEF Holds

\* Nor do they to the queue as a whole.
LEMMA QueueLater ==
  ASSUME NEW q, NEW r, NEW d, NEW n \in Nat, NEW m \in Nat, n <= m, QueueOK(q, r, d, n)
  PROVE  QueueOK(q, r, d, m)
  BY HoldsLater DEF QueueOK

\* UpdateCrossThreadQueueStateLocked() publishes the state of the queue.
LEMMA CrossThreadState ==
  ASSUME NEW r \in Records
  PROVE  LET u == UpdateCrossThreadQueueStateLocked(r) IN
         /\ u \in Records /\ SameTasks(r, u) /\ Published(u)
         /\ u.wake_up = r.wake_up /\ u.enabled = r.enabled /\ u.fence = r.fence
  BY DEF UpdateCrossThreadQueueStateLocked, Records, SameTasks, Published

\* A queue is in order once its state is published.
LEMMA CrossThreadQueue ==
  ASSUME NEW q, NEW r, NEW d, NEW n \in Nat, Holds(q, r, d, n), Wakes(r)
  PROVE  QueueOK(q, UpdateCrossThreadQueueStateLocked(r), d, n)
<1> DEFINE u == UpdateCrossThreadQueueStateLocked(r)
<1>1. /\ u \in Records /\ SameTasks(r, u) /\ Published(u)
      /\ u.wake_up = r.wake_up /\ u.enabled = r.enabled /\ u.fence = r.fence
  BY CrossThreadState DEF Holds
<1> HIDE DEF u
<1>2. r.fence \in 0..n
  BY DEF Holds, Contents
<1>3. Holds(q, u, d, n)
  BY <1>1, <1>2, HoldsSame
<1>4. Wakes(u)
  BY <1>1 DEF Wakes, SameTasks
<1> QED
  BY <1>1, <1>3, <1>4 DEF QueueOK, u

\* UpdateDelayedWakeUp() finds the wake-up of the earliest delayed task.
LEMMA DelayedWakeUp ==
  ASSUME NEW r \in Records, \A e \in r.delayed_incoming : e.time > 0
  PROVE  LET u == UpdateDelayedWakeUp(r) IN
         /\ u \in Records /\ SameTasks(r, u) /\ Wakes(u)
         /\ u.enabled = r.enabled /\ u.fence = r.fence
         /\ u.work_empty = r.work_empty /\ u.should_schedule = r.should_schedule
<1> DEFINE times == {e.time : e \in r.delayed_incoming}
           w == IF r.enabled /\ r.delayed_incoming # {} THEN Min(times) ELSE Never
           u == [r EXCEPT !.wake_up = w]
<1>1. r.delayed_incoming \subseteq Entries
  BY DEF Records
<1>2. times \subseteq Nat
  BY <1>1 DEF Entries
<1>3. r.delayed_incoming # {} => Min(times) \in times /\ \A y \in times : Min(times) <= y
  <2>1. r.delayed_incoming # {} => times # {}
    OBVIOUS
  <2> HIDE DEF times
  <2> QED
    BY <1>2, <2>1, MinIsLeast
<1>4. w \in Nat
  BY <1>2, <1>3 DEF Never
<1>5. ASSUME r.enabled, NEW e \in r.delayed_incoming PROVE w # Never /\ w <= e.time
  <2>1. e.time \in times /\ w = Min(times)
    BY <1>5
  <2>2. Min(times) \in times /\ Min(times) <= e.time
    BY <1>3, <2>1
  <2>3. \A y \in times : y > 0 /\ y \in Nat
    BY <1>2
  <2> QED
    BY <2>1, <2>2, <2>3 DEF Never
<1> HIDE DEF w
<1>6. /\ u \in Records /\ SameTasks(r, u) /\ u.wake_up = w
      /\ u.enabled = r.enabled /\ u.fence = r.fence
      /\ u.work_empty = r.work_empty /\ u.should_schedule = r.should_schedule
  BY <1>4 DEF Records, SameTasks
<1> HIDE DEF u
<1>7. Wakes(u)
  BY <1>5, <1>6 DEF Wakes, SameTasks
<1>8. u = UpdateDelayedWakeUp(r)
  BY DEF u, w, UpdateDelayedWakeUp
<1> QED
  BY <1>6, <1>7, <1>8

\* PostImmediateTaskImpl() on the record of the queue.
Posted(r, e) == [r EXCEPT !.incoming = Append(r.incoming, e)]

\* Only the incoming queue changes.
LEMMA PostedFields ==
  ASSUME NEW r \in Records, NEW e \in Entries
  PROVE  LET u == Posted(r, e) IN
         /\ u \in Records /\ u.incoming = Append(r.incoming, e) /\ u.work = r.work
         /\ u.delayed_work = r.delayed_work /\ u.delayed_incoming = r.delayed_incoming
         /\ u.wake_up = r.wake_up /\ u.enabled = r.enabled /\ u.fence = r.fence
         /\ u.work_empty = r.work_empty /\ u.should_schedule = r.should_schedule
         /\ Elems(u.incoming) = Elems(r.incoming) \cup {e} /\ u.incoming # <<>>
<1>1. r.incoming \in Seq(Entries)
  BY DEF Records
<1> DEFINE s == Append(r.incoming, e)
<1>2. s \in Seq(Entries) /\ s # <<>> /\ Elems(s) = Elems(r.incoming) \cup {e}
  BY <1>1, ElemsAppend
<1>3. Posted(r, e) = [r EXCEPT !.incoming = s]
  BY DEF Posted
<1> HIDE DEF s
<1> QED
  BY <1>2, <1>3 DEF Records, s

\* A posted task has the last sequence number.
LEMMA QueuePost ==
  ASSUME NEW q, NEW r, NEW d, NEW n \in Nat, NEW e \in Entries, QueueOK(q, r, d, n),
         Immediate(q, n + 1, e), e.order = n + 1
  PROVE  QueueOK(q, Posted(r, e), d, n + 1)
<1> DEFINE u == Posted(r, e)
<1>1. r \in Records /\ d \in Backlogs /\ Contents(q, r, d, n) /\ Orders(r, d)
  BY DEF QueueOK, Holds
<1>2. /\ u \in Records /\ u.incoming = Append(r.incoming, e) /\ u.work = r.work
      /\ u.delayed_work = r.delayed_work /\ u.delayed_incoming = r.delayed_incoming
      /\ u.wake_up = r.wake_up /\ u.enabled = r.enabled /\ u.fence = r.fence
      /\ u.work_empty = r.work_empty /\ u.should_schedule = r.should_schedule
      /\ Elems(u.incoming) = Elems(r.incoming) \cup {e}
  BY <1>1, PostedFields
<1> HIDE DEF u
<1>3. Contents(q, r, d, n + 1)
  BY HoldsLater DEF QueueOK, Holds
<1>4. Contents(q, u, d, n + 1)
  BY <1>2, <1>3 DEF Contents
<1>5. \A x \in Elems(r.incoming) \cup Elems(r.work) \cup Elems(d.immediate) : x.order < e.order
  BY <1>1 DEF Contents, Immediate
<1>6. Orders(u, d)
  <2>1. r.incoming \in Seq(Entries)
    BY <1>1 DEF Records
  <2>2. Increasing(u.incoming)
    BY <1>1, <1>2, <1>5, <2>1, IncreasingAppend DEF Orders, Below
  <2>3. Below(Elems(d.immediate), Elems(u.incoming)) /\ Below(Elems(u.work), Elems(u.incoming))
    BY <1>1, <1>2, <1>5 DEF Orders, Below
  <2> QED
    BY <1>1, <1>2, <2>2, <2>3 DEF Orders
<1>7. Published(u) /\ Wakes(u)
  BY <1>2 DEF QueueOK, Published, Wakes
<1> QED
  BY <1>1, <1>2, <1>4, <1>6, <1>7 DEF QueueOK, Holds, u

\* TakeImmediateIncomingQueueTasks() of a queue that has no other immediate work.
LEMMA QueueReload ==
  ASSUME NEW q, NEW r, NEW d, NEW n \in Nat, Holds(q, r, d, n), Wakes(r), r.work = <<>>
  PROVE  LET u == TakeImmediateIncomingQueueTasks(r) IN
         /\ QueueOK(q, u, d, n) /\ u.work = r.incoming /\ u.incoming = <<>>
         /\ u.delayed_work = r.delayed_work /\ u.delayed_incoming = r.delayed_incoming
         /\ u.wake_up = r.wake_up /\ u.enabled = r.enabled /\ u.fence = r.fence
<1> DEFINE v == [r EXCEPT !.work = r.incoming, !.incoming = <<>>]
           u == UpdateCrossThreadQueueStateLocked(v)
<1>1. r \in Records /\ d \in Backlogs /\ Contents(q, r, d, n) /\ Orders(r, d)
  BY DEF Holds
<1>2. /\ v \in Records /\ v.work = r.incoming /\ v.incoming = <<>>
      /\ v.delayed_work = r.delayed_work /\ v.delayed_incoming = r.delayed_incoming
      /\ v.wake_up = r.wake_up /\ v.enabled = r.enabled /\ v.fence = r.fence
  BY <1>1 DEF Records
<1>3. TakeImmediateIncomingQueueTasks(r) = u
  BY DEF TakeImmediateIncomingQueueTasks
<1> HIDE DEF v
<1>4. Contents(q, v, d, n)
  BY <1>1, <1>2, NoElems DEF Contents
<1>5. Orders(v, d)
  BY <1>1, <1>2, NoElems DEF Orders, Below
<1>6. Wakes(v)
  BY <1>2 DEF Wakes
<1>7. QueueOK(q, u, d, n)
  BY <1>1, <1>2, <1>4, <1>5, <1>6, CrossThreadQueue DEF Holds
<1>8. /\ SameTasks(v, u) /\ u.wake_up = v.wake_up /\ u.enabled = v.enabled /\ u.fence = v.fence
  BY <1>2, CrossThreadState
<1> HIDE DEF u
<1> QED
  BY <1>2, <1>3, <1>7, <1>8 DEF SameTasks

\* TakeTaskFromWorkQueue() of an immediate task, which comes before what stays.
LEMMA QueueTakeImmediate ==
  ASSUME NEW q, NEW r, NEW d, NEW n \in Nat, QueueOK(q, r, d, n), r.work # <<>>
  PROVE  LET u == TakeTask(r, TRUE) IN
         /\ QueueOK(q, u, d, n)
         /\ Elems(r.work) \cup Elems(r.incoming)
              = {r.work[1]} \cup Elems(u.work) \cup Elems(u.incoming)
         /\ Below({r.work[1]}, Elems(u.work) \cup Elems(u.incoming))
         /\ u.work = <<>> => u.incoming = <<>>
         /\ u.delayed_work = r.delayed_work /\ u.delayed_incoming = r.delayed_incoming
<1> DEFINE v == [r EXCEPT !.work = Tail(r.work)]
<1>1. /\ r \in Records /\ d \in Backlogs /\ Contents(q, r, d, n) /\ Orders(r, d)
      /\ Published(r) /\ Wakes(r)
  BY DEF QueueOK, Holds
<1>2. r.work \in Seq(Entries) /\ r.incoming \in Seq(Entries)
  BY <1>1 DEF Records
<1>3. /\ Tail(r.work) \in Seq(Entries) /\ r.work[1] \in Entries
      /\ Elems(r.work) = {r.work[1]} \cup Elems(Tail(r.work))
  BY <1>2, ElemsTail
<1>4. Increasing(Tail(r.work)) /\ Below({r.work[1]}, Elems(Tail(r.work)))
  BY <1>1, <1>2, IncreasingTail DEF Orders
<1>5. /\ v \in Records /\ v.work = Tail(r.work) /\ v.incoming = r.incoming
      /\ v.delayed_work = r.delayed_work /\ v.delayed_incoming = r.delayed_incoming
      /\ v.wake_up = r.wake_up /\ v.enabled = r.enabled /\ v.fence = r.fence
      /\ v.work_empty = r.work_empty /\ v.should_schedule = r.should_schedule
  BY <1>1, <1>3 DEF Records
<1>6. TakeTask(r, TRUE) = IF v.work = <<>> THEN TakeImmediateIncomingQueueTasks(v) ELSE v
  BY DEF TakeTask
<1> HIDE DEF v
<1>7. Contents(q, v, d, n)
  BY <1>1, <1>3, <1>5 DEF Contents
<1>8. Orders(v, d)
  BY <1>1, <1>3, <1>4, <1>5 DEF Orders, Below
<1>9. Wakes(v)
  BY <1>1, <1>5 DEF Wakes
<1>10. Below({r.work[1]}, Elems(r.incoming))
  BY <1>1, <1>3 DEF Orders, Below
<1>11. CASE v.work = <<>>
  <2> DEFINE u == TakeImmediateIncomingQueueTasks(v)
  <2>1. /\ QueueOK(q, u, d, n) /\ u.work = v.incoming /\ u.incoming = <<>>
        /\ u.delayed_work = v.delayed_work /\ u.delayed_incoming = v.delayed_incoming
    BY <1>1, <1>5, <1>7, <1>8, <1>9, <1>11, QueueReload DEF Holds
  <2>2. TakeTask(r, TRUE) = u
    BY <1>6, <1>11
  <2> HIDE DEF u
  <2>3. Elems(r.work) = {r.work[1]}
    BY <1>3, <1>5, <1>11, NoElems
  <2> QED
    BY <1>5, <1>10, <2>1, <2>2, <2>3, NoElems DEF Below
<1>12. CASE v.work # <<>>
  <2>1. Published(v)
    BY <1>1, <1>5, <1>12 DEF Published
  <2>2. TakeTask(r, TRUE) = v
    BY <1>6, <1>12
  <2>3. QueueOK(q, v, d, n)
    BY <1>1, <1>5, <1>7, <1>8, <1>9, <2>1 DEF QueueOK, Holds
  <2>4. Below({r.work[1]}, Elems(v.work) \cup Elems(v.incoming))
    BY <1>4, <1>5, <1>10 DEF Below
  <2> QED
    BY <1>3, <1>5, <1>12, <2>2, <2>3, <2>4
<1> QED
  BY <1>11, <1>12

\* The same of a delayed task.
LEMMA QueueTakeDelayed ==
  ASSUME NEW q, NEW r, NEW d, NEW n \in Nat, QueueOK(q, r, d, n), r.delayed_work # <<>>
  PROVE  LET u == TakeTask(r, FALSE) IN
         /\ QueueOK(q, u, d, n) /\ u.work = r.work /\ u.incoming = r.incoming
         /\ Below({r.delayed_work[1]}, Elems(u.delayed_work))
         /\ Elems(r.delayed_work) = {r.delayed_work[1]} \cup Elems(u.delayed_work)
         /\ u.delayed_incoming = r.delayed_incoming
<1> DEFINE v == [r EXCEPT !.delayed_work = Tail(r.delayed_work)]
<1>1. /\ r \in Records /\ d \in Backlogs /\ Contents(q, r, d, n) /\ Orders(r, d)
      /\ Published(r) /\ Wakes(r)
  BY DEF QueueOK, Holds
<1>2. r.delayed_work \in Seq(Entries)
  BY <1>1 DEF Records
<1>3. /\ Tail(r.delayed_work) \in Seq(Entries)
      /\ Elems(r.delayed_work) = {r.delayed_work[1]} \cup Elems(Tail(r.delayed_work))
  BY <1>2, ElemsTail
<1>4. Increasing(Tail(r.delayed_work)) /\ Below({r.delayed_work[1]}, Elems(Tail(r.delayed_work)))
  BY <1>1, <1>2, IncreasingTail DEF Orders
<1>5. /\ v \in Records /\ v.work = r.work /\ v.incoming = r.incoming
      /\ v.delayed_work = Tail(r.delayed_work) /\ v.delayed_incoming = r.delayed_incoming
      /\ v.wake_up = r.wake_up /\ v.enabled = r.enabled /\ v.fence = r.fence
      /\ v.work_empty = r.work_empty /\ v.should_schedule = r.should_schedule
  BY <1>1, <1>3 DEF Records
<1>6. TakeTask(r, FALSE) = v
  BY DEF TakeTask
<1> HIDE DEF v
<1>7. Contents(q, v, d, n)
  BY <1>1, <1>3, <1>5 DEF Contents
<1>8. Orders(v, d)
  BY <1>1, <1>3, <1>4, <1>5 DEF Orders, Below
<1>9. Wakes(v) /\ Published(v)
  BY <1>1, <1>5 DEF Wakes, Published
<1> QED
  BY <1>1, <1>3, <1>4, <1>5, <1>6, <1>7, <1>8, <1>9 DEF QueueOK, Holds

\* Deferring a task of a work queue, after it was taken.
DeferImmediate(d, e) == [d EXCEPT !.immediate = Append(d.immediate, e)]
DeferDelayed(d, e) == [d EXCEPT !.delayed = Append(d.delayed, e)]

\* The place of a deferred task: after the other deferred ones, before the queue.
Between(d, e, u) ==
  Below(Elems(d.immediate), {e}) /\ Below({e}, Elems(u.work) \cup Elems(u.incoming))
BetweenDelayed(d, e, u) == Below(Elems(d.delayed), {e}) /\ Below({e}, Elems(u.delayed_work))

\* Deferred tasks stay before the ones of the work queue.
LEMMA QueueDeferImmediate ==
  ASSUME NEW q, NEW u, NEW d, NEW n \in Nat, QueueOK(q, u, d, n), NEW e \in Entries,
         Immediate(q, n, e), ~Nestable(e), Between(d, e, u)
  PROVE  LET f == DeferImmediate(d, e) IN
         /\ QueueOK(q, u, f, n) /\ f \in Backlogs
         /\ Elems(f.immediate) = Elems(d.immediate) \cup {e} /\ f.delayed = d.delayed
<1> DEFINE s == Append(d.immediate, e)
           f == [d EXCEPT !.immediate = s]
<1>1. u \in Records /\ d \in Backlogs /\ Contents(q, u, d, n) /\ Orders(u, d)
  BY DEF QueueOK, Holds
<1>2. d.immediate \in Seq(Entries)
  BY <1>1 DEF Backlogs
<1>3. s \in Seq(Entries) /\ Elems(s) = Elems(d.immediate) \cup {e}
  BY <1>2, ElemsAppend
<1>4. Increasing(s)
  BY <1>1, <1>2, IncreasingAppend DEF Orders, Between
<1>5. DeferImmediate(d, e) = f
  BY DEF DeferImmediate
<1> HIDE DEF s
<1>6. f \in Backlogs /\ f.immediate = s /\ f.delayed = d.delayed
  BY <1>1, <1>3 DEF Backlogs
<1> HIDE DEF f
<1>7. Contents(q, u, f, n)
  BY <1>1, <1>3, <1>6 DEF Contents
<1>8. Orders(u, f)
  BY <1>1, <1>3, <1>4, <1>6 DEF Orders, Below, Between
<1> QED
  BY <1>1, <1>3, <1>5, <1>6, <1>7, <1>8 DEF QueueOK, Holds

\* The same of delayed tasks.
LEMMA QueueDeferDelayed ==
  ASSUME NEW q, NEW u, NEW d, NEW n \in Nat, QueueOK(q, u, d, n), NEW e \in Entries,
         Delayed(q, n, e), BetweenDelayed(d, e, u)
  PROVE  LET f == DeferDelayed(d, e) IN
         /\ QueueOK(q, u, f, n) /\ f \in Backlogs /\ f.immediate = d.immediate
         /\ Elems(f.delayed) = Elems(d.delayed) \cup {e}
<1> DEFINE s == Append(d.delayed, e)
           f == [d EXCEPT !.delayed = s]
<1>1. u \in Records /\ d \in Backlogs /\ Contents(q, u, d, n) /\ Orders(u, d)
  BY DEF QueueOK, Holds
<1>2. d.delayed \in Seq(Entries)
  BY <1>1 DEF Backlogs
<1>3. s \in Seq(Entries) /\ Elems(s) = Elems(d.delayed) \cup {e}
  BY <1>2, ElemsAppend
<1>4. Increasing(s)
  BY <1>1, <1>2, IncreasingAppend DEF Orders, BetweenDelayed
<1>5. DeferDelayed(d, e) = f
  BY DEF DeferDelayed
<1> HIDE DEF s
<1>6. f \in Backlogs /\ f.immediate = d.immediate /\ f.delayed = s
  BY <1>1, <1>3 DEF Backlogs
<1> HIDE DEF f
<1>7. Contents(q, u, f, n)
  BY <1>1, <1>3, <1>6 DEF Contents
<1>8. Orders(u, f)
  BY <1>1, <1>3, <1>4, <1>6 DEF Orders, Below, BetweenDelayed
<1> QED
  BY <1>1, <1>3, <1>5, <1>6, <1>7, <1>8 DEF QueueOK, Holds

\* RequeueDeferredNonNestableTasks() on the record of one queue.
NoBacklog == [immediate |-> <<>>, delayed |-> <<>>]
Requeued(r, d) ==
  [r EXCEPT !.work = d.immediate \o r.work, !.delayed_work = d.delayed \o r.delayed_work,
            !.work_empty = r.work_empty /\ (d.immediate = <<>> \/ r.work # <<>>)]

RequeuedOK(q, r, d, u, n) ==
  /\ QueueOK(q, u, NoBacklog, n)
  /\ u.incoming = r.incoming /\ Elems(u.work) = Elems(d.immediate) \cup Elems(r.work)
  /\ u.delayed_incoming = r.delayed_incoming
  /\ Elems(u.delayed_work) = Elems(d.delayed) \cup Elems(r.delayed_work)
  /\ u.work = <<>> <=> r.work = <<>> /\ d.immediate = <<>>

\* Requeued tasks go where they came from.
LEMMA QueueRequeue ==
  ASSUME NEW q, NEW r, NEW d, NEW n \in Nat, QueueOK(q, r, d, n)
  PROVE  RequeuedOK(q, r, d, Requeued(r, d), n)
<1> DEFINE s == d.immediate \o r.work
           t == d.delayed \o r.delayed_work
           b == r.work_empty /\ (d.immediate = <<>> \/ r.work # <<>>)
           u == [r EXCEPT !.work = s, !.delayed_work = t, !.work_empty = b]
<1>1. /\ r \in Records /\ d \in Backlogs /\ Contents(q, r, d, n) /\ Orders(r, d)
      /\ Published(r) /\ Wakes(r)
  BY DEF QueueOK, Holds
<1>2. /\ r.work \in Seq(Entries) /\ r.delayed_work \in Seq(Entries)
      /\ d.immediate \in Seq(Entries) /\ d.delayed \in Seq(Entries)
  BY <1>1 DEF Records, Backlogs
<1>3. /\ s \in Seq(Entries) /\ Elems(s) = Elems(d.immediate) \cup Elems(r.work)
      /\ t \in Seq(Entries) /\ Elems(t) = Elems(d.delayed) \cup Elems(r.delayed_work)
  BY <1>2, ElemsConcat
<1>4. Increasing(s) /\ Increasing(t)
  BY <1>1, <1>2, IncreasingConcat DEF Orders
<1>5. s = <<>> <=> r.work = <<>> /\ d.immediate = <<>>
  BY <1>2, <1>3, ElemsType
<1>6. b \in BOOLEAN /\ b = (s = <<>>)
  BY <1>1, <1>5 DEF Published
<1>7. Requeued(r, d) = u
  BY DEF Requeued
<1> HIDE DEF s, t, b
<1>8. /\ u \in Records /\ u.incoming = r.incoming /\ u.work = s
      /\ u.delayed_work = t /\ u.delayed_incoming = r.delayed_incoming
      /\ u.wake_up = r.wake_up /\ u.enabled = r.enabled /\ u.fence = r.fence
      /\ u.work_empty = b /\ u.should_schedule = r.should_schedule
  BY <1>1, <1>3, <1>6 DEF Records
<1> HIDE DEF u
<1>9. NoBacklog \in Backlogs /\ Elems(NoBacklog.immediate) = {} /\ Elems(NoBacklog.delayed) = {}
      /\ Increasing(NoBacklog.immediate) /\ Increasing(NoBacklog.delayed)
  BY NoElems DEF NoBacklog, Backlogs
<1>10. Contents(q, u, NoBacklog, n)
  BY <1>1, <1>3, <1>8, <1>9 DEF Contents
<1>11. Orders(u, NoBacklog)
  <2>1. Below(Elems(u.work), Elems(u.incoming))
    BY <1>1, <1>3, <1>8 DEF Orders, Below
  <2>2. /\ Increasing(u.work) /\ Increasing(u.incoming) /\ Increasing(u.delayed_work)
    BY <1>1, <1>4, <1>8 DEF Orders
  <2>3. \A S : Below({}, S)
    BY DEF Below
  <2> QED
    BY <1>9, <2>1, <2>2, <2>3 DEF Orders
<1>12. Published(u) /\ Wakes(u)
  BY <1>1, <1>6, <1>8 DEF Published, Wakes
<1> QED
  BY <1>3, <1>5, <1>7, <1>8, <1>9, <1>10, <1>11, <1>12 DEF QueueOK, Holds, RequeuedOK

\* PushDelayed() adds to the delayed incoming queue only.
LEMMA PushedFields ==
  ASSUME NEW r \in Records, NEW e \in Entries
  PROVE  LET u == PushDelayed(r, e) IN
         /\ u \in Records /\ u.incoming = r.incoming /\ u.work = r.work
         /\ u.delayed_work = r.delayed_work /\ u.delayed_incoming = r.delayed_incoming \cup {e}
         /\ u.wake_up = r.wake_up /\ u.enabled = r.enabled /\ u.fence = r.fence
         /\ u.work_empty = r.work_empty /\ u.should_schedule = r.should_schedule
  BY DEF PushDelayed, Records

\* A delayed task may be pushed; its wake-up is not set yet.
LEMMA HoldsPushed ==
  ASSUME NEW q, NEW r, NEW d, NEW n \in Nat, NEW m \in Nat, n <= m, QueueOK(q, r, d, n),
         NEW e \in Entries, Delayed(q, m, e), e.time > 0
  PROVE  LET u == PushDelayed(r, e) IN
         Holds(q, u, d, m) /\ Published(u) /\ u.work = r.work /\ u.incoming = r.incoming
<1> DEFINE u == PushDelayed(r, e)
<1>1. /\ r \in Records /\ d \in Backlogs /\ Orders(r, d) /\ Published(r)
  BY DEF QueueOK, Holds
<1>2. Contents(q, r, d, m)
  BY HoldsLater DEF QueueOK, Holds
<1>3. /\ u \in Records /\ u.incoming = r.incoming /\ u.work = r.work
      /\ u.delayed_work = r.delayed_work /\ u.delayed_incoming = r.delayed_incoming \cup {e}
      /\ u.wake_up = r.wake_up /\ u.enabled = r.enabled /\ u.fence = r.fence
      /\ u.work_empty = r.work_empty /\ u.should_schedule = r.should_schedule
  BY <1>1, PushedFields
<1> HIDE DEF u
<1>4. IsFiniteSet(u.delayed_incoming)
  BY <1>2, <1>3, FS_AddElement DEF Contents
<1>5. Contents(q, u, d, m)
  BY <1>2, <1>3, <1>4 DEF Contents
<1>6. Orders(u, d) /\ Published(u)
  BY <1>1, <1>3 DEF Orders, Published
<1> QED
  BY <1>1, <1>3, <1>5, <1>6 DEF Holds, u

\* UpdateDelayedWakeUp() sets the wake-up.
LEMMA QueueWakeUp ==
  ASSUME NEW q, NEW r, NEW d, NEW n \in Nat, Holds(q, r, d, n), Published(r)
  PROVE  LET u == UpdateDelayedWakeUp(r) IN
         QueueOK(q, u, d, n) /\ u.work = r.work /\ u.incoming = r.incoming
<1> DEFINE u == UpdateDelayedWakeUp(r)
<1>1. /\ r \in Records /\ r.fence \in 0..n /\ \A e \in r.delayed_incoming : e.time > 0
  BY DEF Holds, Contents
<1>2. /\ u \in Records /\ SameTasks(r, u) /\ Wakes(u)
      /\ u.enabled = r.enabled /\ u.fence = r.fence
      /\ u.work_empty = r.work_empty /\ u.should_schedule = r.should_schedule
  BY <1>1, DelayedWakeUp
<1> HIDE DEF u
<1>3. Holds(q, u, d, n)
  BY <1>1, <1>2, HoldsSame
<1>4. Published(u)
  BY <1>2 DEF Published, SameTasks
<1> QED
  BY <1>2, <1>3, <1>4 DEF QueueOK, SameTasks, u

\* The order in which a heap gives finitely many tasks is a sequence of them.
LEMMA HeapOrderSeq ==
  ASSUME NEW S, S \subseteq Entries, IsFiniteSet(S), NEW ripe \in HeapOrders(S)
  PROVE  ripe \in Seq(S) /\ Len(ripe) \in Nat
<1>1. Cardinality(S) \in Nat
  BY FS_CardinalityType
<1>2. ripe \in [1..Cardinality(S) -> S]
  BY DEF HeapOrders
<1> QED
  BY <1>1, <1>2

\* MoveReadyDelayedTasksToWorkQueue() gives new sequence numbers.
LEMMA QueueMoveReady ==
  ASSUME NEW q, NEW r, NEW d, NEW n \in Nat \ {0}, Holds(q, r, d, n), Published(r),
         NEW ripe \in HeapOrders(Due(r))
  PROVE  LET u == MoveReady(r, ripe, n) IN
         /\ QueueOK(q, u, d, n + Len(ripe)) /\ Len(ripe) \in Nat
         /\ u.work = r.work /\ u.incoming = r.incoming
<1> DEFINE moved == [i \in 1..Len(ripe) |-> [ripe[i] EXCEPT !.order = n + i]]
           s == r.delayed_work \o moved
           D == r.delayed_incoming \ Due(r)
           v == [r EXCEPT !.delayed_work = s, !.delayed_incoming = D]
           m == n + Len(ripe)
<1>1. /\ r \in Records /\ d \in Backlogs /\ Contents(q, r, d, n) /\ Orders(r, d)
  BY DEF Holds
<1>2. /\ Due(r) \subseteq r.delayed_incoming /\ r.delayed_incoming \subseteq Entries
      /\ r.delayed_work \in Seq(Entries)
  BY <1>1 DEF Due, Records
<1>3. IsFiniteSet(Due(r)) /\ IsFiniteSet(D)
  BY <1>1, <1>2, FS_Subset DEF Contents
<1>4. ripe \in Seq(Due(r)) /\ Len(ripe) \in Nat
  BY <1>2, <1>3, HeapOrderSeq
<1>5. m \in Nat /\ n <= m
  BY <1>4
<1>6. ASSUME NEW i \in 1..Len(ripe)
      PROVE  /\ moved[i] \in Entries /\ moved[i].order = n + i /\ Delayed(q, m, moved[i])
  <2>1. ripe[i] \in Due(r)
    BY <1>4
  <2>2. ripe[i] \in Entries /\ Delayed(q, n, ripe[i])
    BY <1>1, <1>2, <2>1 DEF Contents
  <2>3. n + i \in 2..m /\ n + i \in Nat
    BY <1>4
  <2>4. moved[i] = [ripe[i] EXCEPT !.order = n + i]
    OBVIOUS
  <2>5. moved[i] \in Entries /\ moved[i].order = n + i /\ moved[i].task = ripe[i].task
    BY <2>2, <2>3, <2>4 DEF Entries
  <2> QED
    BY <2>2, <2>3, <2>5 DEF Delayed
<1>7. moved \in Seq(Entries) /\ Len(moved) = Len(ripe)
  <2>1. moved \in [1..Len(ripe) -> Entries]
    BY <1>6
  <2> QED
    BY <1>4, <2>1
<1>8. MoveReady(r, ripe, n) = UpdateDelayedWakeUp(v)
  BY DEF MoveReady
<1> HIDE DEF moved
<1>9. Increasing(moved)
  BY <1>6, <1>7, <1>4 DEF Increasing
<1>10. \A e \in Elems(moved) : e \in Entries /\ e.order > n /\ Delayed(q, m, e)
  BY <1>6, <1>7, <1>4 DEF Elems
<1>11. \A e \in Elems(r.delayed_work) \cup Elems(d.delayed) : e.order \in 2..n
  BY <1>1 DEF Contents, Delayed
<1>12. Below(Elems(r.delayed_work), Elems(moved)) /\ Below(Elems(d.delayed), Elems(moved))
  <2>1. \A e \in Elems(moved) : e.order \in Nat
    BY <1>10 DEF Entries
  <2> QED
    BY <1>10, <1>11, <2>1 DEF Below
<1>13. Increasing(s)
  BY <1>1, <1>2, <1>7, <1>9, <1>12, IncreasingConcat DEF Orders
<1>14. s \in Seq(Entries) /\ Elems(s) = Elems(r.delayed_work) \cup Elems(moved)
  BY <1>2, <1>7, ElemsConcat
<1> HIDE DEF s
<1>15. D \subseteq r.delayed_incoming
  OBVIOUS
<1> HIDE DEF D
<1>16. /\ v \in Records /\ v.incoming = r.incoming /\ v.work = r.work
       /\ v.delayed_work = s /\ v.delayed_incoming = D
       /\ v.wake_up = r.wake_up /\ v.enabled = r.enabled /\ v.fence = r.fence
       /\ v.work_empty = r.work_empty /\ v.should_schedule = r.should_schedule
  BY <1>1, <1>2, <1>14, <1>15 DEF Records
<1> HIDE DEF v, m
<1>17. Contents(q, r, d, m)
  BY <1>5, HoldsLater DEF Holds
<1>18. Contents(q, v, d, m)
  BY <1>3, <1>10, <1>14, <1>15, <1>16, <1>17 DEF Contents
<1>19. Orders(v, d)
  BY <1>1, <1>12, <1>13, <1>14, <1>16 DEF Orders, Below
<1>20. Published(v)
  BY <1>16 DEF Published
<1>21. Holds(q, v, d, m)
  BY <1>1, <1>16, <1>18, <1>19 DEF Holds
<1>22. LET u == UpdateDelayedWakeUp(v) IN
       QueueOK(q, u, d, m) /\ u.work = v.work /\ u.incoming = v.incoming
  BY <1>5, <1>20, <1>21, QueueWakeUp
<1> QED
  BY <1>4, <1>8, <1>16, <1>22 DEF m

\* SetQueueEnabled() on the record of the queue.
Switched(r, b) ==
  UpdateCrossThreadQueueStateLocked(UpdateDelayedWakeUp([r EXCEPT !.enabled = b]))

\* A queue that is enabled or disabled keeps its tasks.
LEMMA QueueSwitch ==
  ASSUME NEW q, NEW r, NEW d, NEW n \in Nat, NEW b \in BOOLEAN, QueueOK(q, r, d, n)
  PROVE  LET u == Switched(r, b) IN
         QueueOK(q, u, d, n) /\ u.work = r.work /\ u.incoming = r.incoming
<1> DEFINE v == [r EXCEPT !.enabled = b]
           w == UpdateDelayedWakeUp(v)
           u == UpdateCrossThreadQueueStateLocked(w)
<1>1. r \in Records /\ Holds(q, r, d, n)
  BY DEF QueueOK, Holds
<1>2. r.fence \in 0..n /\ \A e \in r.delayed_incoming : e.time > 0
  BY <1>1 DEF Holds, Contents
<1>3. Switched(r, b) = u
  BY DEF Switched
<1>4. v \in Records /\ SameTasks(r, v) /\ v.fence = r.fence
  BY <1>1 DEF Records, SameTasks
<1> HIDE DEF v
<1>5. \A e \in v.delayed_incoming : e.time > 0
  BY <1>2, <1>4 DEF SameTasks
<1>6. w \in Records /\ SameTasks(v, w) /\ Wakes(w) /\ w.fence = v.fence
  BY <1>4, <1>5, DelayedWakeUp
<1> HIDE DEF w
<1>7. Holds(q, v, d, n)
  BY <1>1, <1>2, <1>4, HoldsSame
<1>8. Holds(q, w, d, n)
  BY <1>2, <1>4, <1>6, <1>7, HoldsSame
<1>9. QueueOK(q, u, d, n)
  BY <1>6, <1>8, CrossThreadQueue
<1>10. SameTasks(w, u)
  BY <1>6, CrossThreadState
<1> QED
  BY <1>3, <1>4, <1>6, <1>9, <1>10 DEF SameTasks

\* InsertFence() and RemoveFence() on the record of the queue.
Fenced(r, f) == UpdateCrossThreadQueueStateLocked([r EXCEPT !.fence = f])

\* So does one that gets or loses a fence.
LEMMA QueueFence ==
  ASSUME NEW q, NEW r, NEW d, NEW n \in Nat, NEW m \in Nat, n <= m, NEW f \in 0..m,
         QueueOK(q, r, d, n)
  PROVE  LET u == Fenced(r, f) IN
         QueueOK(q, u, d, m) /\ u.work = r.work /\ u.incoming = r.incoming
<1> DEFINE v == [r EXCEPT !.fence = f]
           u == UpdateCrossThreadQueueStateLocked(v)
<1>1. r \in Records /\ Holds(q, r, d, m) /\ Wakes(r)
  BY HoldsLater DEF QueueOK, Holds
<1>2. Fenced(r, f) = u
  BY DEF Fenced
<1>3. /\ v \in Records /\ SameTasks(r, v) /\ v.fence = f
      /\ v.enabled = r.enabled /\ v.wake_up = r.wake_up
  BY <1>1 DEF Records, SameTasks
<1> HIDE DEF v
<1>4. Holds(q, v, d, m) /\ Wakes(v)
  BY <1>1, <1>3, HoldsSame DEF Wakes, SameTasks
<1>5. QueueOK(q, u, d, m)
  BY <1>4, CrossThreadQueue
<1>6. SameTasks(v, u)
  BY <1>3, CrossThreadState
<1> QED
  BY <1>2, <1>3, <1>5, <1>6 DEF SameTasks

-----------------------------------------------------------------------------
(***************************************************************************)
(* The state as a whole: steps that change one queue, or one run loop.     *)
(***************************************************************************)

\* A step that leaves the queues alone.
LEMMA SameQueues ==
  ASSUME AllQueues, UNCHANGED <<queue, deferred, seq>>
  PROVE  AllQueues'
  BY DEF AllQueues

\* A step that changes one queue, and what of it is deferred.
LEMMA OneQueueChanges ==
  ASSUME AllQueues, seq \in Nat, seq' \in Nat, seq <= seq', NEW q \in Queues, NEW r, NEW d,
         QueueOK(q, r, d, seq'), queue' = [queue EXCEPT ![q] = r],
         deferred' = [deferred EXCEPT ![q] = d]
  PROVE  AllQueues'
<1>1. r \in Records /\ d \in Backlogs
  BY DEF QueueOK, Holds
<1>2. queue' \in [Queues -> Records] /\ deferred' \in [Queues -> Backlogs]
  BY <1>1 DEF AllQueues
<1>3. ASSUME NEW x \in Queues PROVE QueueOK(x, queue'[x], deferred'[x], seq')
  <2>1. CASE x = q
    <3>1. queue'[x] = r /\ deferred'[x] = d
      BY <2>1 DEF AllQueues
    <3> QED
      BY <2>1, <3>1
  <2>2. CASE x # q
    <3>1. queue'[x] = queue[x] /\ deferred'[x] = deferred[x]
      BY <2>2 DEF AllQueues
    <3>2. QueueOK(x, queue[x], deferred[x], seq)
      BY DEF AllQueues
    <3>3. QueueOK(x, queue[x], deferred[x], seq')
      BY <3>2, QueueLater
    <3> QED
      BY <3>1, <3>3
  <2> QED
    BY <2>1, <2>2
<1> QED
  BY <1>2, <1>3 DEF AllQueues

\* The same when nothing is deferred.
LEMMA OneRecordChanges ==
  ASSUME AllQueues, seq \in Nat, seq' \in Nat, seq <= seq', NEW q \in Queues, NEW r,
         QueueOK(q, r, deferred[q], seq'), queue' = [queue EXCEPT ![q] = r],
         deferred' = deferred
  PROVE  AllQueues'
<1>1. deferred' = [deferred EXCEPT ![q] = deferred[q]]
  BY DEF AllQueues
<1> QED
  BY <1>1, OneQueueChanges

\* What has started stays in order with what waits, unless a task starts.
NewOnesLater ==
  \A q \in Queues : \A e \in Waiting(queue'[q], deferred'[q]) :
    e \in Waiting(queue[q], deferred[q]) \/ e.order = seq + 1
\* StartOrder is kept by such a step.
LEMMA NothingStarts ==
  ASSUME StartOrder, seq \in Nat, seq' \in Nat, seq <= seq', started' = started, NewOnesLater
  PROVE  StartOrder'
<1>1. started \in Seq(Starts) /\ Elems(started) \subseteq Starts
  BY ElemsType DEF StartOrder
<1>2. ASSUME NEW s \in Elems(started) PROVE s.order <= seq'
  BY <1>1 DEF StartOrder, Starts
<1>3. ASSUME NEW s \in Elems(started),
             NEW e \in Waiting(queue'[QueueOf[s.task]], deferred'[QueueOf[s.task]])
      PROVE  Precedes(s, e)
  <2>1. QueueOf[s.task] \in Queues
    BY <1>1, Parameters DEF Starts
  <2>2. CASE e \in Waiting(queue[QueueOf[s.task]], deferred[QueueOf[s.task]])
    BY <2>2 DEF StartOrder
  <2>3. CASE e.order = seq + 1
    <3>1. s.order < e.order
      BY <1>1, <2>3 DEF StartOrder, Starts
    <3> QED
      BY <3>1 DEF Precedes
  <2> QED
    BY <2>1, <2>2, <2>3 DEF NewOnesLater
<1>4. StartsInPostingOrder'
  BY DEF StartOrder, StartsInPostingOrder
<1> QED
  BY <1>1, <1>2, <1>3, <1>4 DEF StartOrder

\* A step that leaves the queues and what started alone.
LEMMA SameStarts ==
  ASSUME StartOrder, seq \in Nat, UNCHANGED <<queue, deferred, seq, started>>
  PROVE  StartOrder'
<1>1. NewOnesLater
  BY DEF NewOnesLater
<1> QED
  BY <1>1, NothingStarts

\* The innermost run loop.
LEMMA TopFacts ==
  ASSUME StackOK, stack # <<>>
  PROVE  /\ Top \in Loops /\ LoopOK(Top, seq) /\ Len(stack) \in Nat \ {0}
         /\ Len(stack) = 1 => ~Top.restore
<1>1. Len(stack) \in Nat \ {0} /\ Len(stack) \in 1..Len(stack)
  BY DEF StackOK
<1> QED
  BY <1>1 DEF StackOK, Top, LoopOK

\* A later sequence number changes nothing for the run loops.
LEMMA LoopLater ==
  ASSUME NEW l, NEW n \in Nat, NEW m \in Nat, n <= m, LoopOK(l, n)
  PROVE  LoopOK(l, m)
<1>1. \A k \in 2..n : k \in 2..m
  OBVIOUS
<1> QED
  BY <1>1 DEF LoopOK, Delayed

\* Nor for the stack.
LEMMA SameStack ==
  ASSUME StackOK, seq \in Nat, seq' \in Nat, seq <= seq', stack' = stack
  PROVE  StackOK'
<1>1. \A k \in 1..Len(stack) : LoopOK(stack[k], seq')
  BY LoopLater DEF StackOK
<1> QED
  BY <1>1 DEF StackOK

\* A step that changes the innermost run loop.
LEMMA TopChanges ==
  ASSUME StackOK, stack # <<>>, seq \in Nat, seq' \in Nat, seq <= seq', NEW l, SetTop(l),
         LoopOK(l, seq'), l.restore = Top.restore
  PROVE  StackOK' /\ stack' # <<>> /\ Len(stack') = Len(stack) /\ Top' = l
<1>1. Len(stack) \in Nat \ {0} /\ stack' = [stack EXCEPT ![Len(stack)] = l] /\ l \in Loops
  BY DEF StackOK, SetTop, LoopOK
<1>2. stack' \in Seq(Loops) /\ Len(stack') = Len(stack) /\ stack'[Len(stack)] = l
  BY <1>1 DEF StackOK
<1>3. \A k \in 1..Len(stack) : k # Len(stack) => stack'[k] = stack[k]
  BY <1>1 DEF StackOK
<1>4. \A k \in 1..Len(stack) : LoopOK(stack[k], seq')
  BY LoopLater DEF StackOK
<1>5. StackOK'
  <2>1. ASSUME NEW k \in 1..Len(stack), k # Len(stack)
        PROVE  /\ LoopOK(stack'[k], seq') /\ stack'[k].pc = "run"
               /\ k = 1 => ~stack'[k].restore
    <3>1. stack'[k] = stack[k] /\ k < Len(stack)
      BY <1>1, <1>3, <2>1
    <3> QED
      BY <1>4, <3>1 DEF StackOK
  <2>2. Len(stack) = 1 => ~l.restore
    BY TopFacts
  <2>3. ASSUME NEW k \in 1..Len(stack)
        PROVE  /\ LoopOK(stack'[k], seq')
               /\ k < Len(stack) => stack'[k].pc = "run"
               /\ k = 1 => ~stack'[k].restore
    <3>1. CASE k = Len(stack)
      BY <1>1, <1>2, <2>2, <3>1
    <3>2. CASE k # Len(stack)
      BY <2>1, <3>2
    <3> QED
      BY <3>1, <3>2
  <2> QED
    BY <1>2, <2>3 DEF StackOK
<1> QED
  BY <1>1, <1>2, <1>5 DEF Top

\* The pump cannot sleep before it has checked for more work.
LEMMA Awake ==
  ASSUME stack' = <<>> \/ Top'.pc \notin {"check_reload", "did_check", "wait"}
  PROVE  Sleep'
  BY DEF Sleep, At

\* Callbacks run only at their places.
LEMMA NoCallbacks ==
  ASSUME StackOK, stack = <<>> \/ Top.pc \notin {"select_reload", "check_reload"}
  PROVE  Callbacks = {}
  BY TopFacts DEF Callbacks, LoopOK

\* A step that leaves the reloads to be done alone.
LEMMA SameReloads ==
  ASSUME Reloads, reload' = reload, Callbacks' = Callbacks,
         \A q \in Queues : NeedsReload(queue'[q]) = NeedsReload(queue[q])
  PROVE  Reloads'
  BY DEF Reloads

\* A step of the innermost run loop that touches no queue.
QuietStep(l) ==
  /\ stack # <<>> /\ SetTop(l) /\ LoopOK(l, seq)
  /\ l.restore = Top.restore
  /\ UNCHANGED <<queue, deferred, seq, started>>

\* What such a step keeps.
LEMMA QuietStepKeeps ==
  ASSUME IndInv, NEW l, QuietStep(l)
  PROVE  /\ AllQueues' /\ StackOK' /\ StartOrder'
         /\ stack' # <<>> /\ Len(stack') = Len(stack) /\ Top' = l
<1>1. seq \in Nat /\ seq' = seq /\ seq <= seq'
  BY DEF IndInv, Scalars, QuietStep
<1>2. AllQueues' /\ StartOrder'
  BY <1>1, SameQueues, SameStarts DEF IndInv, QuietStep
<1> QED
  BY <1>1, <1>2, TopChanges DEF IndInv, QuietStep

\* OnWorkStarted(), at the start of DoSomeWork().
LEMMA DoSomeWorkInv ==
  ASSUME IndInv, DoSomeWork
  PROVE  IndInv'
<1> DEFINE l == [Top EXCEPT !.pc = IF task_execution_allowed THEN "select" ELSE "did_check",
                            !.i = 0, !.immediate = FALSE, !.timed = FALSE]
<1>1. stack # <<>> /\ Top.pc = "start" /\ SetTop(l)
  BY DEF DoSomeWork, At
<1>2. Top \in Loops /\ LoopOK(Top, seq) /\ StackOK
  BY <1>1, TopFacts DEF IndInv
<1>3. Top.callbacks = {}
  BY <1>1, <1>2 DEF LoopOK
<1>4. /\ l \in Loops /\ l.pc = IF task_execution_allowed THEN "select" ELSE "did_check"
      /\ l.callbacks = {} /\ l.hop = Top.hop
      /\ l.restore = Top.restore
  BY <1>2, <1>3 DEF Loops, PCs
<1> HIDE DEF l
<1>5. LoopOK(l, seq)
  BY <1>2, <1>4 DEF LoopOK
<1>6. QuietStep(l)
  BY <1>1, <1>4, <1>5 DEF QuietStep, DoSomeWork
<1>7. /\ AllQueues' /\ StackOK' /\ StartOrder'
      /\ stack' # <<>> /\ Len(stack') = Len(stack) /\ Top' = l
  BY <1>6, QuietStepKeeps
<1>8. Scalars'
  BY DEF IndInv, Scalars, DoSomeWork, kInDoWork
<1>9. Control'
  BY <1>1, <1>7 DEF IndInv, Control, DoSomeWork, kInDoWork, Bound
<1>10. Reloads'
  <2>1. Callbacks = {} /\ Callbacks' = {}
    BY <1>1, <1>3, <1>4, <1>7 DEF Callbacks
  <2> QED
    BY <2>1, SameReloads DEF IndInv, DoSomeWork
<1>11. Sleep'
  BY <1>4, <1>7 DEF Sleep, At, DoSomeWork
<1> QED
  BY <1>7, <1>8, <1>9, <1>10, <1>11 DEF IndInv

\* RunActiveCallbacks() exchanges the flags for the callbacks.
LEMMA RunActiveCallbacksInv ==
  ASSUME IndInv, NEW pc \in {"select_reload", "check_reload"}, stack # <<>>,
         Top.pc \in {"select", "check"}, RunActiveCallbacks(pc),
         UNCHANGED <<duplicator, queue, seq, deferred, keep_running, quit_pending,
                     task_execution_allowed, starvation, poster, unposted, started, ops, now>>
  PROVE  IndInv'
<1> DEFINE l == [Top EXCEPT !.pc = pc, !.callbacks = reload]
<1>1. SetTop(l) /\ reload' = {}
  BY DEF RunActiveCallbacks
<1>2. Top \in Loops /\ LoopOK(Top, seq) /\ StackOK
  BY TopFacts DEF IndInv
<1>3. Top.callbacks = {}
  BY <1>2 DEF LoopOK
<1>4. reload \subseteq Queues
  BY DEF IndInv, Scalars
<1>5. /\ l \in Loops /\ l.pc = pc /\ l.callbacks = reload /\ l.hop = Top.hop
      /\ l.restore = Top.restore
  BY <1>2, <1>4 DEF Loops, PCs
<1> HIDE DEF l
<1>6. LoopOK(l, seq)
  BY <1>2, <1>5 DEF LoopOK
<1>7. QuietStep(l)
  BY <1>1, <1>5, <1>6 DEF QuietStep
<1>8. /\ AllQueues' /\ StackOK' /\ StartOrder'
      /\ stack' # <<>> /\ Len(stack') = Len(stack) /\ Top' = l
  BY <1>7, QuietStepKeeps
<1>9. Scalars'
  BY <1>1 DEF IndInv, Scalars, duplicator
<1>10. Control'
  BY <1>5, <1>8 DEF IndInv, Control, Bound, duplicator
<1>11. Reloads'
  <2>1. Callbacks = {} /\ Callbacks' = reload
    BY <1>3, <1>5, <1>8 DEF Callbacks
  <2> QED
    BY <1>1, <2>1 DEF IndInv, Reloads
<1>12. Sleep'
  BY <1>1, <1>5, <1>8 DEF Sleep, At
<1> QED
  BY <1>8, <1>9, <1>10, <1>11, <1>12 DEF IndInv

\* SelectNextTask().
LEMMA SelectNextTaskInv ==
  ASSUME IndInv, SelectNextTask
  PROVE  IndInv'
<1>1. stack # <<>> /\ Top.pc \in {"select", "check"} /\ RunActiveCallbacks("select_reload")
  BY DEF SelectNextTask, At
<1> QED
  BY <1>1, RunActiveCallbacksInv DEF SelectNextTask

\* A task ends, and the batch goes on or is over.
AfterTaskLoop ==
  [Top EXCEPT !.hop = {}, !.i = Top.i + 1,
              !.pc = IF quit_pending \/ Top.i + 1 = WorkBatchSize THEN "will_check" ELSE "select"]
\* The run loop after it.
LEMMA AfterTaskFacts ==
  ASSUME StackOK, stack # <<>>, Top.pc \in {"run", "hop"}, AfterTask
  PROVE  LET l == AfterTaskLoop IN
         /\ SetTop(l) /\ l.pc \in {"will_check", "select"} /\ l.callbacks = {}
         /\ l.restore = Top.restore
         /\ l.hop = {} /\ \A n : LoopOK(l, n)
<1> DEFINE l == AfterTaskLoop
<1>1. Top \in Loops /\ LoopOK(Top, seq)
  BY TopFacts
<1>2. Top.callbacks = {}
  BY <1>1 DEF LoopOK
<1>3. /\ l \in Loops /\ l.pc \in {"will_check", "select"} /\ l.callbacks = {} /\ l.hop = {}
      /\ l.restore = Top.restore
  <2> DEFINE p == IF quit_pending \/ Top.i + 1 = WorkBatchSize THEN "will_check" ELSE "select"
  <2>1. p \in {"will_check", "select"} /\ p \in PCs
    BY DEF PCs
  <2>2. l = [Top EXCEPT !.hop = {}, !.i = Top.i + 1, !.pc = p]
    BY DEF AfterTaskLoop
  <2>3. Top.i + 1 \in Nat
    BY <1>1 DEF Loops
  <2> HIDE DEF p, l
  <2> QED
    BY <1>1, <1>2, <2>1, <2>2, <2>3 DEF Loops
<1>4. SetTop(l)
  BY DEF AfterTask, AfterTaskLoop
<1> HIDE DEF l
<1>5. \A n : LoopOK(l, n)
  BY <1>3 DEF LoopOK
<1> QED
  BY <1>3, <1>4, <1>5 DEF l

\* EndTask.
LEMMA EndTaskInv ==
  ASSUME IndInv, EndTask
  PROVE  IndInv'
<1> DEFINE l == AfterTaskLoop
<1>1. stack # <<>> /\ Top.pc = "run" /\ AfterTask /\ task_execution_allowed' = TRUE
  BY DEF EndTask, InTask, At, AfterTask
<1>2. /\ SetTop(l) /\ l.pc \in {"will_check", "select"} /\ l.callbacks = {}
      /\ l.restore = Top.restore /\ LoopOK(l, seq)
  BY <1>1, AfterTaskFacts DEF IndInv
<1> HIDE DEF l
<1>3. QuietStep(l)
  BY <1>1, <1>2 DEF QuietStep, EndTask
<1>4. /\ AllQueues' /\ StackOK' /\ StartOrder'
      /\ stack' # <<>> /\ Len(stack') = Len(stack) /\ Top' = l
  BY <1>3, QuietStepKeeps
<1>5. Scalars'
  BY <1>1 DEF IndInv, Scalars, EndTask, duplicator
<1>6. Control'
  BY <1>1, <1>4 DEF IndInv, Control, EndTask, Bound, duplicator
<1>7. Reloads'
  <2>1. Callbacks' = {}
    BY <1>2, <1>4 DEF Callbacks
  <2>2. Callbacks = {}
    BY <1>1, NoCallbacks DEF IndInv
  <2> QED
    BY <2>1, <2>2, SameReloads DEF IndInv, EndTask
<1>8. Sleep'
  BY <1>2, <1>4, Awake
<1> QED
  BY <1>4, <1>5, <1>6, <1>7, <1>8 DEF IndInv

\* The tasks of a queue that could run.
LEMMA RunnableElems ==
  ASSUME AllQueues, NEW q \in Queues
  PROVE  Runnable(q) <=> \E e \in Elems(queue[q].incoming) \cup Elems(queue[q].work)
                                   \cup Elems(queue[q].delayed_work) : CouldTaskRun(queue[q], e)
<1>1. queue[q] \in Records
  BY DEF AllQueues
<1>2. /\ queue[q].incoming \in Seq(Entries) /\ queue[q].work \in Seq(Entries)
      /\ queue[q].delayed_work \in Seq(Entries)
  BY <1>1 DEF Records
<1>3. /\ Range(queue[q].incoming) = Elems(queue[q].incoming)
      /\ Range(queue[q].work) = Elems(queue[q].work)
      /\ Range(queue[q].delayed_work) = Elems(queue[q].delayed_work)
  BY <1>2, ElemsType
<1>4. Runnable(q) <=>
        \E e \in UNION {Elems(queue[q].incoming), Elems(queue[q].work),
                        Elems(queue[q].delayed_work)} : CouldTaskRun(queue[q], e)
  BY <1>3 DEF Runnable
<1> QED
  BY <1>4

\* A work queue with a task that could run is in the selector.
LEMMA RunnableIsSelectable ==
  ASSUME NEW r \in Records, NEW w \in Seq(Entries), Increasing(w), NEW e \in Elems(w),
         CouldTaskRun(r, e)
  PROVE  Selectable(r, w)
<1>1. w # <<>> /\ w[1] \in Entries /\ w[1].order <= e.order
  BY FrontIsFirst
<1>2. e \in Entries /\ e.order \in Nat /\ w[1].order \in Nat /\ r.fence \in Nat
  <2>1. e \in Entries
    BY ElemsType
  <2> QED
    BY <1>1, <2>1 DEF Entries, Records
<1>3. r.enabled /\ (r.fence = kNone \/ e.order < r.fence)
  BY DEF CouldTaskRun
<1>4. ~BlockedByFence(w, r.fence)
  BY <1>1, <1>2, <1>3 DEF BlockedByFence
<1> QED
  BY <1>1, <1>3, <1>4 DEF Selectable

\* If the selector is empty, no work queue has a task that could run.
LEMMA SelectorEmptyMeansIdle ==
  ASSUME AllQueues, SelectorEmpty, NEW q \in Queues,
         NEW e \in Elems(queue[q].work) \cup Elems(queue[q].delayed_work)
  PROVE  ~CouldTaskRun(queue[q], e)
<1>1. queue[q] \in Records /\ Orders(queue[q], deferred[q])
  BY DEF AllQueues, QueueOK, Holds
<1>2. /\ queue[q].work \in Seq(Entries) /\ queue[q].delayed_work \in Seq(Entries)
      /\ Increasing(queue[q].work) /\ Increasing(queue[q].delayed_work)
  BY <1>1 DEF Records, Orders
<1>3. Fronts(TRUE) = {} /\ Fronts(FALSE) = {}
  BY DEF SelectorEmpty
<1>4. ~Selectable(queue[q], queue[q].work)
  BY <1>3 DEF Fronts
<1>5. ~Selectable(queue[q], queue[q].delayed_work)
  BY <1>3 DEF Fronts
<1> QED
  BY <1>1, <1>2, <1>4, <1>5, RunnableIsSelectable

\* A task of the incoming queue that could run, and no reload to come: one of the work queue
\* could run too.
LEMMA IncomingAfterWork ==
  ASSUME AllQueues, SelectorEmpty, NEW q \in Queues, NEW e \in Elems(queue[q].incoming),
         CouldTaskRun(queue[q], e)
  PROVE  NeedsReload(queue[q])
<1>1. /\ queue[q] \in Records /\ Orders(queue[q], deferred[q])
      /\ Contents(q, queue[q], deferred[q], seq)
  BY DEF AllQueues, QueueOK, Holds
<1>2. queue[q].work \in Seq(Entries) /\ queue[q].incoming \in Seq(Entries)
  BY <1>1 DEF Records
<1>3. queue[q].incoming # <<>>
  BY <1>2, ElemsType
<1>4. ASSUME queue[q].work # <<>> PROVE FALSE
  <2>1. PICK f \in Elems(queue[q].work) : TRUE
    BY <1>2, <1>4, ElemsType
  <2>2. f.order < e.order /\ f \in Entries /\ e \in Entries
    BY <1>1, <1>2, <2>1, ElemsType DEF Orders, Below
  <2>3. f.order \in Nat /\ e.order \in Nat /\ queue[q].fence \in Nat
    BY <1>1, <2>2 DEF Entries, Records
  <2>4. CouldTaskRun(queue[q], f)
    BY <2>2, <2>3 DEF CouldTaskRun
  <2> QED
    BY <2>1, <2>4, SelectorEmptyMeansIdle
<1> QED
  BY <1>3, <1>4 DEF NeedsReload

\* WillCheckForMoreWork(), the end of a batch.
LEMMA WillCheckInv ==
  ASSUME IndInv, WillCheckForMoreWork
  PROVE  IndInv'
<1> DEFINE p == IF quit_pending THEN "did_check" ELSE "check"
           l == [Top EXCEPT !.pc = p]
<1>1. stack # <<>> /\ Top.pc \in {"will_check", "pick"} /\ SetTop(l)
  BY DEF WillCheckForMoreWork, At, GoTo
<1>2. p \in {"did_check", "check"} /\ p \in PCs /\ (quit_pending \/ p = "check")
  BY DEF PCs
<1> HIDE DEF p
<1>3. Top \in Loops /\ LoopOK(Top, seq) /\ StackOK
  BY <1>1, TopFacts DEF IndInv
<1>4. Top.callbacks = {}
  BY <1>1, <1>3 DEF LoopOK
<1>5. /\ l \in Loops /\ l.pc = p /\ l.callbacks = {} /\ l.hop = Top.hop
      /\ l.restore = Top.restore
  BY <1>2, <1>3, <1>4 DEF Loops
<1> HIDE DEF l
<1>6. LoopOK(l, seq)
  BY <1>3, <1>5 DEF LoopOK
<1>7. QuietStep(l)
  BY <1>1, <1>5, <1>6 DEF QuietStep, WillCheckForMoreWork
<1>8. /\ AllQueues' /\ StackOK' /\ StartOrder'
      /\ stack' # <<>> /\ Len(stack') = Len(stack) /\ Top' = l
  BY <1>7, QuietStepKeeps
<1>9. state_' = state_ \/ state_' = kInDoWork
  BY DEF WillCheckForMoreWork
<1>10. Scalars'
  BY <1>9 DEF IndInv, Scalars, WillCheckForMoreWork, kInDoWork
<1>11. Control'
  BY <1>1, <1>8, <1>9 DEF IndInv, Control, WillCheckForMoreWork, kInDoWork, Bound
<1>12. Reloads'
  <2>1. Callbacks = {} /\ Callbacks' = {}
    BY <1>1, <1>4, <1>5, <1>8 DEF Callbacks
  <2> QED
    BY <2>1, SameReloads DEF IndInv, WillCheckForMoreWork
<1>13. Sleep'
  <2>1. quit_pending' = quit_pending
    BY DEF WillCheckForMoreWork
  <2> QED
    BY <1>2, <1>5, <1>8, <2>1 DEF Sleep, At
<1> QED
  BY <1>8, <1>10, <1>11, <1>12, <1>13 DEF IndInv

\* A loop step that goes to did_check, with what it found.
LEMMA DidCheckNextInv ==
  ASSUME IndInv, stack # <<>>, Top.pc \in {"check", "check_reload"}, Top.callbacks = {},
         NEW i \in BOOLEAN, NEW t \in BOOLEAN,
         SetTop([Top EXCEPT !.pc = "did_check", !.immediate = i, !.timed = t]),
         i \/ ((NextRunTime(queue) # Never => t) /\ \A q \in Queues : Runnable(q) => Asked),
         UNCHANGED <<duplicator, queue, reload, seq, deferred, keep_running, quit_pending,
                     task_execution_allowed, starvation, poster, unposted, started, ops, now>>
  PROVE  IndInv'
<1> DEFINE l == [Top EXCEPT !.pc = "did_check", !.immediate = i, !.timed = t]
<1>1. Top \in Loops /\ LoopOK(Top, seq) /\ StackOK
  BY TopFacts DEF IndInv
<1>2. /\ l \in Loops /\ l.pc = "did_check" /\ l.callbacks = {} /\ l.hop = Top.hop
      /\ l.immediate = i /\ l.timed = t
      /\ l.restore = Top.restore
  BY <1>1 DEF Loops, PCs
<1>3. SetTop(l)
  OBVIOUS
<1> HIDE DEF l
<1>4. LoopOK(l, seq)
  BY <1>1, <1>2 DEF LoopOK
<1>5. QuietStep(l)
  BY <1>2, <1>3, <1>4 DEF QuietStep
<1>6. /\ AllQueues' /\ StackOK' /\ StartOrder'
      /\ stack' # <<>> /\ Len(stack') = Len(stack) /\ Top' = l
  BY <1>5, QuietStepKeeps
<1>7. Scalars'
  BY DEF IndInv, Scalars, duplicator
<1>8. Control'
  BY <1>6 DEF IndInv, Control, Bound, duplicator
<1>9. Reloads'
  <2>1. Callbacks = {} /\ Callbacks' = {}
    BY <1>2, <1>6 DEF Callbacks
  <2> QED
    BY <2>1, SameReloads DEF IndInv
<1>10. Sleep'
  <2>1. NextRunTime(queue)' = NextRunTime(queue)
    BY DEF NextRunTime
  <2>2. Asked => Asked'
    BY DEF Asked, duplicator
  <2>3. \A q \in Queues : Runnable(q)' <=> Runnable(q)
    BY DEF Runnable
  <2>4. Top'.immediate \/ (Timed' /\ \A q \in Queues : Runnable(q)' => Asked')
    BY <1>2, <1>6, <2>1, <2>2, <2>3 DEF Timed
  <2>5. ~At("check_reload")' /\ ~At("wait")'
    BY <1>2, <1>6 DEF At
  <2> QED
    BY <2>4, <2>5 DEF Sleep
<1> QED
  BY <1>6, <1>7, <1>8, <1>9, <1>10 DEF IndInv

\* DelayTillNextTask() before a reload.
LEMMA DelayTillNextTaskInv ==
  ASSUME IndInv, DelayTillNextTask
  PROVE  IndInv'
<1>1. stack # <<>> /\ Top.pc = "check"
  BY DEF DelayTillNextTask, At
<1>2. CASE SelectorEmpty
  <2>1. RunActiveCallbacks("check_reload")
    BY <1>2 DEF DelayTillNextTask
  <2> QED
    BY <1>1, <2>1, RunActiveCallbacksInv DEF DelayTillNextTask
<1>3. CASE ~SelectorEmpty
  <2>1. Top \in Loops /\ LoopOK(Top, seq)
    BY <1>1, TopFacts DEF IndInv
  <2>2. Top.callbacks = {} /\ Top.timed \in BOOLEAN
    BY <1>1, <2>1 DEF LoopOK, Loops
  <2>3. SetTop([Top EXCEPT !.pc = "did_check", !.immediate = TRUE]) /\ reload' = reload
    BY <1>3 DEF DelayTillNextTask
  <2>4. [Top EXCEPT !.pc = "did_check", !.immediate = TRUE]
          = [Top EXCEPT !.pc = "did_check", !.immediate = TRUE, !.timed = Top.timed]
    BY <2>1 DEF Loops
  <2>5. SetTop([Top EXCEPT !.pc = "did_check", !.immediate = TRUE, !.timed = Top.timed])
    BY <2>3, <2>4
  <2> QED
    BY <1>1, <2>2, <2>3, <2>5, DidCheckNextInv DEF DelayTillNextTask
<1> QED
  BY <1>2, <1>3

\* DelayTillNextTask() after the reload: what is runnable then has been asked for.
LEMMA DelayTillNextTaskReloadedInv ==
  ASSUME IndInv, DelayTillNextTaskReloaded
  PROVE  IndInv'
<1> DEFINE time == NextRunTime(queue)
           i == ~SelectorEmpty \/ (time # Never /\ time <= now)
           t == (time # Never)
<1>1. /\ stack # <<>> /\ Top.pc = "check_reload" /\ At("check_reload") /\ Top.callbacks = {}
      /\ SetTop([Top EXCEPT !.pc = "did_check", !.immediate = i, !.timed = t])
  BY DEF DelayTillNextTaskReloaded, At
<1>2. i \in BOOLEAN /\ t \in BOOLEAN
  OBVIOUS
<1>3. ASSUME ~i, NEW q \in Queues, Runnable(q) PROVE Asked
  <2>1. SelectorEmpty /\ AllQueues
    BY <1>3 DEF IndInv
  <2>2. PICK e \in Elems(queue[q].incoming) \cup Elems(queue[q].work)
                     \cup Elems(queue[q].delayed_work) : CouldTaskRun(queue[q], e)
    BY <1>3, <2>1, RunnableElems
  <2>3. e \in Elems(queue[q].incoming)
    BY <2>1, <2>2, SelectorEmptyMeansIdle
  <2>4. NeedsReload(queue[q])
    BY <2>1, <2>2, <2>3, IncomingAfterWork
  <2>5. Callbacks = {}
    BY <1>1 DEF Callbacks
  <2>6. q \in reload
    BY <2>4, <2>5 DEF IndInv, Reloads
  <2>7. IncomingRunnable(q)
    BY <2>2, <2>3 DEF IncomingRunnable
  <2> QED
    BY <1>1, <2>6, <2>7 DEF IndInv, Sleep
<1>4. i \/ ((NextRunTime(queue) # Never => t) /\ \A q \in Queues : Runnable(q) => Asked)
  BY <1>3
<1> HIDE DEF i, t
<1> QED
  BY <1>1, <1>2, <1>4, DidCheckNextInv DEF DelayTillNextTaskReloaded

\* DidCheckForMoreWork(): the pump goes to sleep only if all that could run is asked for.
LEMMA DidCheckInv ==
  ASSUME IndInv, DidCheck
  PROVE  IndInv'
<1> DEFINE continue == MustContinue(Top.immediate)
           p == IF ~keep_running \/ (~continue /\ Top.until_idle) THEN "exit"
                ELSE IF continue THEN "start" ELSE "wait"
           l == [Top EXCEPT !.pc = p]
<1>1. stack # <<>> /\ Top.pc = "did_check" /\ At("did_check") /\ SetTop(l)
  BY DEF DidCheck, At, GoTo
<1>2. /\ p \in {"exit", "start", "wait"} /\ p \in PCs
      /\ p = "wait" => keep_running /\ ~continue /\ ~Top.until_idle
  BY DEF PCs
<1>3. \/ quit_pending' = quit_pending /\ keep_running' = keep_running
      \/ quit_pending' = TRUE /\ keep_running' = FALSE
  BY DEF DidCheck
<1> HIDE DEF p
<1>4. Top \in Loops /\ LoopOK(Top, seq) /\ StackOK
  BY <1>1, TopFacts DEF IndInv
<1>5. Top.callbacks = {}
  BY <1>1, <1>4 DEF LoopOK
<1>6. /\ l \in Loops /\ l.pc = p /\ l.callbacks = {} /\ l.hop = Top.hop /\ l.timed = Top.timed
      /\ l.restore = Top.restore
  BY <1>2, <1>4, <1>5 DEF Loops
<1> HIDE DEF l
<1>7. LoopOK(l, seq)
  BY <1>4, <1>6 DEF LoopOK
<1>8. QuietStep(l)
  BY <1>1, <1>6, <1>7 DEF QuietStep, DidCheck
<1>9. /\ AllQueues' /\ StackOK' /\ StartOrder'
      /\ stack' # <<>> /\ Len(stack') = Len(stack) /\ Top' = l
  BY <1>8, QuietStepKeeps
<1>10. state_' = kDoWorkPending \/ state_' = state_ \ {"InDoWork"}
  BY DEF DidCheck, DidCheckForMoreWork
<1>11. Scalars'
  BY <1>3, <1>10 DEF IndInv, Scalars, DidCheck, kDoWorkPending
<1>12. Control'
  <2>1. Bound' /\ Bound
    BY <1>1, <1>10 DEF IndInv, Control, kDoWorkPending, Bound
  <2>2. quit_pending' => ~keep_running'
    BY <1>3 DEF IndInv, Control
  <2> QED
    BY <1>1, <1>9, <2>1, <2>2 DEF IndInv, Control, DidCheck
<1>13. Reloads'
  <2>1. Callbacks = {} /\ Callbacks' = {}
    BY <1>1, <1>5, <1>6, <1>9 DEF Callbacks
  <2> QED
    BY <2>1, SameReloads DEF IndInv, DidCheck
<1>14. Sleep'
  <2>1. CASE p # "wait"
    BY <1>2, <1>6, <1>9, <2>1, Awake
  <2>2. CASE p = "wait"
    <3>1. keep_running /\ ~Top.immediate /\ "PendingDoWork" \notin state_
      BY <1>2, <2>2 DEF MustContinue
    <3>2. ~quit_pending /\ Bound
      BY <1>1, <3>1 DEF IndInv, Control
    <3>3. state_' = kIdle
      <4>1. state_' = state_ \ {"InDoWork"}
        BY <3>1 DEF DidCheck, DidCheckForMoreWork
      <4> QED
        BY <3>1, <3>2, <4>1 DEF IndInv, Scalars, kIdle, Bound
    <3>4. UNCHANGED <<queue, poster, event_, task_execution_allowed>>
      BY DEF DidCheck
    <3>5. "InDoWork" \notin state_' /\ "PendingDoWork" \notin state_'
      BY <3>3 DEF kIdle
    <3>6. ASSUME task_execution_allowed'
          PROVE  Timed' /\ ((\E q \in Queues : Runnable(q)') => WakeUpOnItsWay')
      <4>1. Timed /\ \A q \in Queues : Runnable(q) => Asked
        BY <1>1, <3>1, <3>2, <3>4, <3>6 DEF IndInv, Sleep
      <4>2. NextRunTime(queue)' = NextRunTime(queue)
        BY <3>4 DEF NextRunTime
      <4>3. Timed'
        BY <1>6, <1>9, <4>1, <4>2 DEF Timed
      <4>4. \A q \in Queues : Runnable(q)' <=> Runnable(q)
        BY <3>4 DEF Runnable
      <4>5. (\E q \in Queues : Runnable(q)) => \E x \in Posters : poster[x] = "request"
        BY <3>1, <4>1 DEF Asked
      <4>6. (\E q \in Queues : Runnable(q)') => WakeUpOnItsWay'
        BY <3>3, <3>4, <4>4, <4>5 DEF WakeUpOnItsWay
      <4> QED
        BY <4>3, <4>6
    <3>7. Top'.pc = "wait"
      BY <1>6, <1>9, <2>2
    <3> QED
      BY <3>5, <3>6, <3>7 DEF Sleep, At
  <2> QED
    BY <2>1, <2>2
<1> QED
  BY <1>9, <1>11, <1>12, <1>13, <1>14 DEF IndInv

\* The pump's event, or its time, wakes it up.
LEMMA PumpWakesUpInv ==
  ASSUME IndInv, PumpWakesUp
  PROVE  IndInv'
<1> DEFINE l == [Top EXCEPT !.pc = "start"]
<1>1. stack # <<>> /\ Top.pc = "wait" /\ SetTop(l)
  BY DEF PumpWakesUp, At, GoTo
<1>2. Top \in Loops /\ LoopOK(Top, seq) /\ StackOK
  BY <1>1, TopFacts DEF IndInv
<1>3. Top.callbacks = {}
  BY <1>1, <1>2 DEF LoopOK
<1>4. /\ l \in Loops /\ l.pc = "start" /\ l.callbacks = {} /\ l.hop = Top.hop
      /\ l.restore = Top.restore
  BY <1>2, <1>3 DEF Loops, PCs
<1> HIDE DEF l
<1>5. LoopOK(l, seq)
  BY <1>2, <1>4 DEF LoopOK
<1>6. QuietStep(l)
  BY <1>1, <1>4, <1>5 DEF QuietStep, PumpWakesUp
<1>7. /\ AllQueues' /\ StackOK' /\ StartOrder'
      /\ stack' # <<>> /\ Len(stack') = Len(stack) /\ Top' = l
  BY <1>6, QuietStepKeeps
<1>8. Scalars'
  BY DEF IndInv, Scalars, PumpWakesUp
<1>9. Control'
  BY <1>1, <1>7 DEF IndInv, Control, PumpWakesUp, Bound
<1>10. Reloads'
  <2>1. Callbacks = {} /\ Callbacks' = {}
    BY <1>1, <1>3, <1>4, <1>7 DEF Callbacks
  <2> QED
    BY <2>1, SameReloads DEF IndInv, PumpWakesUp
<1>11. Sleep'
  BY <1>4, <1>7, Awake
<1> QED
  BY <1>7, <1>8, <1>9, <1>10, <1>11 DEF IndInv

\* A step that changes one queue keeps the order of starts if its new tasks are later ones.
LEMMA OneQueueLater ==
  ASSUME AllQueues, NEW q \in Queues, NEW r, NEW d, queue' = [queue EXCEPT ![q] = r],
         deferred' = [deferred EXCEPT ![q] = d],
         \A e \in Waiting(r, d) : e \in Waiting(queue[q], deferred[q]) \/ e.order = seq + 1
  PROVE  NewOnesLater
<1> SUFFICES ASSUME NEW x \in Queues, NEW e \in Waiting(queue'[x], deferred'[x])
             PROVE  e \in Waiting(queue[x], deferred[x]) \/ e.order = seq + 1
  BY DEF NewOnesLater
<1>1. CASE x = q
  <2>1. queue'[x] = r /\ deferred'[x] = d
    BY <1>1 DEF AllQueues
  <2> QED
    BY <1>1, <2>1
<1>2. CASE x # q
  <2>1. queue'[x] = queue[x] /\ deferred'[x] = deferred[x]
    BY <1>2 DEF AllQueues
  <2> QED
    BY <2>1
<1> QED
  BY <1>1, <1>2

\* A step that changes one queue needs a reload where it did.
LEMMA OneQueueNeeds ==
  ASSUME AllQueues, NEW q \in Queues, NEW r, queue' = [queue EXCEPT ![q] = r],
         NeedsReload(r) = NeedsReload(queue[q])
  PROVE  \A x \in Queues : NeedsReload(queue'[x]) = NeedsReload(queue[x])
<1> SUFFICES ASSUME NEW x \in Queues PROVE NeedsReload(queue'[x]) = NeedsReload(queue[x])
  OBVIOUS
<1>1. CASE x = q
  <2>1. queue'[x] = r
    BY <1>1 DEF AllQueues
  <2> QED
    BY <1>1, <2>1
<1>2. CASE x # q
  <2>1. queue'[x] = queue[x]
    BY <1>2 DEF AllQueues
  <2> QED
    BY <2>1
<1> QED
  BY <1>1, <1>2

\* A step that leaves the immediate tasks of a queue alone.
QueueStep(q, r) ==
  /\ queue' = [queue EXCEPT ![q] = r] /\ deferred' = deferred /\ started' = started
  /\ seq' \in Nat /\ seq <= seq' /\ QueueOK(q, r, deferred[q], seq')
  /\ r.work = queue[q].work /\ r.incoming = queue[q].incoming

\* What such a step keeps.
LEMMA QueueStepKeeps ==
  ASSUME IndInv, NEW q \in Queues, NEW r, QueueStep(q, r)
  PROVE  /\ AllQueues' /\ StartOrder'
         /\ \A x \in Queues : NeedsReload(queue'[x]) = NeedsReload(queue[x])
<1>1. AllQueues /\ seq \in Nat /\ StartOrder
  BY DEF IndInv, Scalars
<1>2. AllQueues'
  BY <1>1, OneRecordChanges DEF QueueStep
<1>3. deferred' = [deferred EXCEPT ![q] = deferred[q]]
  BY DEF AllQueues, QueueStep, IndInv
<1>4. \A e \in Waiting(r, deferred[q]) : e \in Waiting(queue[q], deferred[q])
  BY DEF Waiting, QueueStep
<1>5. NewOnesLater
  BY <1>1, <1>3, <1>4, OneQueueLater DEF QueueStep
<1>6. NeedsReload(r) = NeedsReload(queue[q])
  BY DEF NeedsReload, QueueStep
<1> QED
  BY <1>1, <1>2, <1>5, <1>6, NothingStarts, OneQueueNeeds DEF QueueStep

\* ScheduleWork() by the main thread.
LEMMA ScheduleWorkFacts ==
  ASSUME NEW b, ScheduleWork(b), Scalars
  PROVE  /\ state_' \in SUBSET {"InDoWork", "PendingDoWork", "Bound"} /\ event_' \in BOOLEAN
         /\ Bound => Bound'
  BY DEF ScheduleWork, OnWorkRequested, Scalars, duplicator, Bound

\* A callback takes the tasks of its queue, whose flag may have been set again only after.
LEMMA ReloadInv ==
  ASSUME IndInv, NEW q \in Queues, ReloadEmptyImmediateWorkQueue(q)
  PROVE  IndInv'
<1> DEFINE r == TakeImmediateIncomingQueueTasks(queue[q])
           c == Top.callbacks \ {q}
           l == [Top EXCEPT !.callbacks = c]
<1>1. /\ stack # <<>> /\ Top.pc \in {"select_reload", "check_reload"} /\ q \in Top.callbacks
      /\ SetTop(l) /\ queue' = [queue EXCEPT ![q] = r]
  BY DEF ReloadEmptyImmediateWorkQueue, Reloading, At
<1>2. /\ AllQueues /\ StackOK /\ StartOrder /\ seq \in Nat /\ seq' = seq /\ seq <= seq'
      /\ UNCHANGED <<reload, seq, deferred, started>>
  BY DEF IndInv, Scalars, ReloadEmptyImmediateWorkQueue
<1>3. Callbacks = Top.callbacks
  BY <1>1 DEF Callbacks
<1>4. NeedsReload(queue[q]) /\ q \notin reload
  BY <1>1, <1>3 DEF IndInv, Reloads
<1>5. QueueOK(q, queue[q], deferred[q], seq) /\ queue[q].work = <<>>
  BY <1>2, <1>4 DEF AllQueues, NeedsReload
<1>6. QueueOK(q, r, deferred[q], seq) /\ r.work = queue[q].incoming /\ r.incoming = <<>>
  BY <1>2, <1>5, QueueReload DEF QueueOK
<1> HIDE DEF r
<1>7. AllQueues'
  BY <1>1, <1>2, <1>6, OneRecordChanges
<1>8. StartOrder'
  <2>1. deferred' = [deferred EXCEPT ![q] = deferred[q]]
    BY <1>2 DEF AllQueues
  <2>2. \A e \in Waiting(r, deferred[q]) : e \in Waiting(queue[q], deferred[q])
    BY <1>6, NoElems DEF Waiting
  <2>3. NewOnesLater
    BY <1>1, <1>2, <2>1, <2>2, OneQueueLater
  <2> QED
    BY <1>2, <2>3, NothingStarts
<1>9. Top \in Loops /\ LoopOK(Top, seq)
  BY <1>1, <1>2, TopFacts
<1>10. /\ l \in Loops /\ l.pc = Top.pc /\ l.callbacks = c /\ l.hop = Top.hop
       /\ l.restore = Top.restore
  <2>1. c \subseteq Queues
    BY <1>9 DEF Loops
  <2> HIDE DEF c
  <2> QED
    BY <1>9, <2>1 DEF Loops
<1> HIDE DEF l
<1>11. LoopOK(l, seq')
  BY <1>1, <1>2, <1>9, <1>10 DEF LoopOK
<1>12. StackOK' /\ stack' # <<>> /\ Len(stack') = Len(stack) /\ Top' = l
  BY <1>1, <1>2, <1>10, <1>11, TopChanges
<1>13. Scalars'
  BY DEF IndInv, Scalars, ReloadEmptyImmediateWorkQueue, duplicator
<1>14. Control'
  BY <1>1, <1>10, <1>12
     DEF IndInv, Control, ReloadEmptyImmediateWorkQueue, Bound, duplicator
<1>15. Reloads'
  <2>1. Callbacks' = c
    BY <1>10, <1>12 DEF Callbacks
  <2>2. ASSUME NEW x \in Queues PROVE x \in reload' \cup Callbacks' <=> NeedsReload(queue'[x])
    <3>1. CASE x = q
      <4>1. queue'[x] = r
        BY <1>1, <1>2, <3>1 DEF AllQueues
      <4>2. ~NeedsReload(queue'[x])
        BY <1>6, <4>1 DEF NeedsReload
      <4> QED
        BY <1>2, <1>4, <2>1, <3>1, <4>2
    <3>2. CASE x # q
      <4>1. queue'[x] = queue[x]
        BY <1>1, <1>2, <3>2 DEF AllQueues
      <4> QED
        BY <1>2, <1>3, <2>1, <3>2, <4>1 DEF IndInv, Reloads
    <3> QED
      BY <3>1, <3>2
  <2>3. reload' \cap Callbacks' = {}
    BY <1>2, <1>3, <2>1 DEF IndInv, Reloads
  <2> QED
    BY <2>2, <2>3 DEF Reloads
<1>16. Sleep'
  <2>1. CASE Top.pc = "select_reload"
    BY <1>10, <1>12, <2>1, Awake
  <2>2. CASE Top.pc = "check_reload"
    <3>1. \A x \in reload : IncomingRunnable(x) => Asked
      BY <1>1, <2>2 DEF IndInv, Sleep, At
    <3>2. ASSUME NEW x \in reload', IncomingRunnable(x)' PROVE Asked'
      <4>1. x \in Queues /\ x # q /\ x \in reload
        BY <1>2, <1>4 DEF IndInv, Scalars
      <4>2. queue'[x] = queue[x]
        BY <1>1, <1>2, <4>1 DEF AllQueues
      <4>3. IncomingRunnable(x)
        BY <3>2, <4>2 DEF IncomingRunnable
      <4> QED
        BY <3>1, <4>1, <4>3 DEF Asked, ReloadEmptyImmediateWorkQueue, duplicator
    <3>3. ~At("did_check")' /\ ~At("wait")'
      BY <1>10, <1>12, <2>2 DEF At
    <3> QED
      BY <3>2, <3>3 DEF Sleep
  <2> QED
    BY <1>1, <2>1, <2>2
<1> QED
  BY <1>7, <1>8, <1>12, <1>13, <1>14, <1>15, <1>16 DEF IndInv

\* MoveReadyDelayedTasksToWorkQueues(): one queue, or none is left.
LEMMA MoveReadyInv ==
  ASSUME IndInv, MoveReadyDelayedTasksToWorkQueues
  PROVE  IndInv'
<1>1. /\ stack # <<>> /\ Top.pc = "select_reload" /\ Top.callbacks = {}
      /\ UNCHANGED <<reload, deferred, keep_running, quit_pending, task_execution_allowed,
                     starvation, poster, unposted, started, ops, now>>
  BY DEF MoveReadyDelayedTasksToWorkQueues, At
<1>2. AllQueues /\ StackOK /\ Scalars /\ Control /\ seq \in Nat \ {0}
  BY DEF IndInv, Scalars
<1>3. CASE GoTo("pick") /\ UNCHANGED <<duplicator, queue, seq>>
  <2> DEFINE l == [Top EXCEPT !.pc = "pick"]
  <2>1. SetTop(l)
    BY <1>3 DEF GoTo
  <2>2. Top \in Loops /\ LoopOK(Top, seq)
    BY <1>1, <1>2, TopFacts
  <2>3. /\ l \in Loops /\ l.pc = "pick" /\ l.callbacks = {} /\ l.hop = Top.hop
        /\ l.restore = Top.restore
    BY <1>1, <2>2 DEF Loops, PCs
  <2> HIDE DEF l
  <2>4. LoopOK(l, seq)
    BY <2>2, <2>3 DEF LoopOK
  <2>5. QuietStep(l)
    BY <1>1, <1>3, <2>1, <2>3, <2>4 DEF QuietStep
  <2>6. /\ AllQueues' /\ StackOK' /\ StartOrder'
        /\ stack' # <<>> /\ Len(stack') = Len(stack) /\ Top' = l
    BY <2>5, QuietStepKeeps
  <2>7. Scalars'
    BY <1>1, <1>2, <1>3 DEF Scalars, duplicator
  <2>8. Control'
    BY <1>1, <1>2, <1>3, <2>6 DEF Control, Bound, duplicator
  <2>9. Reloads'
    <3>1. Callbacks = {} /\ Callbacks' = {}
      BY <1>1, <2>3, <2>6 DEF Callbacks
    <3> QED
      BY <1>1, <1>3, <3>1, SameReloads DEF IndInv
  <2>10. Sleep'
    BY <2>3, <2>6, Awake
  <2> QED
    BY <2>6, <2>7, <2>8, <2>9, <2>10 DEF IndInv
<1>4. ASSUME NEW q \in Queues, NEW ripe \in HeapOrders(Due(queue[q])), stack' = stack,
             queue' = [queue EXCEPT ![q] = MoveReady(queue[q], ripe, seq)],
             NEW b, ScheduleWork(b), seq' = seq + Len(ripe)
      PROVE  IndInv'
  <2> DEFINE r == MoveReady(queue[q], ripe, seq)
  <2>1. QueueOK(q, queue[q], deferred[q], seq)
    BY <1>2 DEF AllQueues
  <2>2. /\ QueueOK(q, r, deferred[q], seq + Len(ripe)) /\ Len(ripe) \in Nat
        /\ r.work = queue[q].work /\ r.incoming = queue[q].incoming
    BY <1>2, <2>1, QueueMoveReady DEF QueueOK
  <2>3. queue' = [queue EXCEPT ![q] = r]
    BY <1>4
  <2> HIDE DEF r
  <2>4. seq' \in Nat \ {0} /\ seq <= seq'
    BY <1>2, <1>4, <2>2
  <2>5. QueueStep(q, r)
    BY <1>1, <1>4, <2>2, <2>3, <2>4 DEF QueueStep
  <2>6. /\ AllQueues' /\ StartOrder'
        /\ \A x \in Queues : NeedsReload(queue'[x]) = NeedsReload(queue[x])
    BY <2>5, QueueStepKeeps
  <2>7. StackOK'
    BY <1>2, <1>4, <2>4, SameStack
  <2>8. Top' = Top /\ Callbacks' = Callbacks
    BY <1>4 DEF Top, Callbacks
  <2>9. /\ state_' \in SUBSET {"InDoWork", "PendingDoWork", "Bound"} /\ event_' \in BOOLEAN
        /\ Bound => Bound'
    BY <1>2, <1>4, ScheduleWorkFacts
  <2>10. Scalars'
    BY <1>1, <1>2, <2>4, <2>9 DEF Scalars
  <2>11. Control'
    BY <1>1, <1>2, <1>4, <2>8, <2>9 DEF Control
  <2>12. Reloads'
    BY <1>1, <2>6, <2>8, SameReloads DEF IndInv
  <2>13. Sleep'
    BY <1>1, <2>8, Awake
  <2> QED
    BY <2>6, <2>7, <2>10, <2>11, <2>12, <2>13 DEF IndInv
<1>5. CASE ~(GoTo("pick") /\ UNCHANGED <<duplicator, queue, seq>>)
  <2>1. PICK q \in Queues :
          \E ripe \in HeapOrders(Due(queue[q])) :
            LET qs == [queue EXCEPT ![q] = MoveReady(queue[q], ripe, seq)] IN
            /\ queue' = qs
            /\ ScheduleWork(RequestsDoWork(qs))
            /\ seq' = seq + Len(ripe)
            /\ UNCHANGED stack
    BY <1>5, Zenon DEF MoveReadyDelayedTasksToWorkQueues
  <2>2. PICK ripe \in HeapOrders(Due(queue[q])) :
          LET qs == [queue EXCEPT ![q] = MoveReady(queue[q], ripe, seq)] IN
          /\ queue' = qs
          /\ ScheduleWork(RequestsDoWork(qs))
          /\ seq' = seq + Len(ripe)
          /\ UNCHANGED stack
    BY <2>1, Zenon
  <2> QED
    BY <1>4, <2>2, Zenon
<1> QED
  BY <1>3, <1>5

\* ScheduleDelayedWorkTask() puts the task it carries into the queue.
LEMMA HopTaskInv ==
  ASSUME IndInv, HopTask
  PROVE  IndInv'
<1> DEFINE l == AfterTaskLoop
<1>1. /\ stack # <<>> /\ Top.pc = "hop" /\ ScheduleDelayedWorkTask /\ AfterTask
      /\ task_execution_allowed' = TRUE
      /\ UNCHANGED <<reload, deferred, keep_running, quit_pending, starvation, poster,
                     unposted, started, ops, now>>
  BY DEF HopTask, At, AfterTask
<1>2. AllQueues /\ StackOK /\ Scalars /\ Control /\ seq \in Nat \ {0} /\ now \in Nat \ {0}
  BY DEF IndInv, Scalars
<1>3. /\ SetTop(l) /\ l.pc \in {"will_check", "select"} /\ l.callbacks = {}
      /\ l.restore = Top.restore /\ \A n : LoopOK(l, n)
  BY <1>1, <1>2, AfterTaskFacts
<1> HIDE DEF l
<1>4. ASSUME NEW q \in Queues, NEW r, NEW b, NEW k \in Nat, queue' = [queue EXCEPT ![q] = r],
             seq' = seq + k, ScheduleWork(b), QueueOK(q, r, deferred[q], seq + k),
             r.work = queue[q].work, r.incoming = queue[q].incoming
      PROVE  IndInv'
  <2>1. seq' \in Nat \ {0} /\ seq <= seq'
    BY <1>2, <1>4
  <2>2. QueueStep(q, r)
    BY <1>1, <1>4, <2>1 DEF QueueStep
  <2>3. /\ AllQueues' /\ StartOrder'
        /\ \A x \in Queues : NeedsReload(queue'[x]) = NeedsReload(queue[x])
    BY <2>2, QueueStepKeeps
  <2>4. StackOK' /\ stack' # <<>> /\ Len(stack') = Len(stack) /\ Top' = l
    BY <1>1, <1>2, <1>3, <2>1, TopChanges
  <2>5. /\ state_' \in SUBSET {"InDoWork", "PendingDoWork", "Bound"} /\ event_' \in BOOLEAN
        /\ Bound => Bound'
    BY <1>2, <1>4, ScheduleWorkFacts
  <2>6. Scalars'
    BY <1>1, <1>2, <2>1, <2>5 DEF Scalars
  <2>7. Control'
    BY <1>1, <1>2, <2>4, <2>5 DEF Control
  <2>8. Callbacks = {} /\ Callbacks' = {}
    BY <1>1, <1>2, <1>3, <2>4, NoCallbacks DEF Callbacks
  <2>9. Reloads'
    BY <1>1, <2>3, <2>8, SameReloads DEF IndInv
  <2>10. Sleep'
    BY <1>3, <2>4, Awake
  <2> QED
    BY <2>3, <2>4, <2>6, <2>7, <2>9, <2>10 DEF IndInv
<1>5. PICK e \in Top.hop :
        LET q == QueueOf[e.task]
            pushed == PushDelayed(queue[q], [e EXCEPT !.time = Max({e.time, now})])
        IN
        \E ripe \in IF e.time <= now THEN HeapOrders(Due(pushed)) ELSE {<<>>} :
          LET qs == [queue EXCEPT ![q] = IF e.time <= now THEN MoveReady(pushed, ripe, seq)
                                         ELSE UpdateDelayedWakeUp(pushed)]
          IN
          /\ queue' = qs
          /\ seq' = seq + Len(ripe)
          /\ ScheduleWork(RequestsDoWork(qs))
  BY <1>1, Zenon DEF ScheduleDelayedWorkTask
<1> DEFINE q == QueueOf[e.task]
           f == [e EXCEPT !.time = Max({e.time, now})]
           pushed == PushDelayed(queue[q], f)
<1>6. Top \in Loops /\ LoopOK(Top, seq)
  BY <1>1, <1>2, TopFacts
<1>7. e \in Entries /\ Delayed(q, seq, e)
  BY <1>6 DEF Loops, LoopOK
<1>8. e.time \in Nat /\ e.task \in Tasks
  BY <1>7 DEF Entries
<1>9. Max({e.time, now}) \in Nat /\ Max({e.time, now}) > 0
  BY <1>2, <1>8, MaxOfTwo
<1>10. f \in Entries /\ f.task = e.task /\ f.order = e.order /\ f.time > 0
  BY <1>7, <1>9 DEF Entries
<1> HIDE DEF f
<1>11. q \in Queues
  BY <1>8, Parameters
<1>12. Delayed(q, seq, f)
  BY <1>7, <1>10 DEF Delayed
<1> HIDE DEF q
<1>13. QueueOK(q, queue[q], deferred[q], seq)
  BY <1>2, <1>11 DEF AllQueues
<1>14. /\ Holds(q, pushed, deferred[q], seq) /\ Published(pushed)
       /\ pushed.work = queue[q].work /\ pushed.incoming = queue[q].incoming
  BY <1>2, <1>10, <1>12, <1>13, HoldsPushed
<1>15. PICK ripe \in IF e.time <= now THEN HeapOrders(Due(pushed)) ELSE {<<>>} :
        LET qs == [queue EXCEPT ![q] = IF e.time <= now THEN MoveReady(pushed, ripe, seq)
                                       ELSE UpdateDelayedWakeUp(pushed)]
        IN
        /\ queue' = qs
        /\ seq' = seq + Len(ripe)
        /\ ScheduleWork(RequestsDoWork(qs))
  BY <1>5, Zenon DEF q, f
<1> DEFINE r == IF e.time <= now THEN MoveReady(pushed, ripe, seq)
                ELSE UpdateDelayedWakeUp(pushed)
<1> HIDE DEF pushed
<1>16. /\ QueueOK(q, r, deferred[q], seq + Len(ripe)) /\ Len(ripe) \in Nat
       /\ r.work = pushed.work /\ r.incoming = pushed.incoming
  <2>1. CASE e.time <= now
    BY <1>2, <1>14, <1>15, <2>1, QueueMoveReady
  <2>2. CASE ~(e.time <= now)
    <3>1. ripe = <<>> /\ r = UpdateDelayedWakeUp(pushed)
      BY <1>15, <2>2
    <3>2. Len(ripe) = 0 /\ seq + Len(ripe) = seq
      BY <1>2, <3>1
    <3> QED
      BY <1>2, <1>14, <3>1, <3>2, QueueWakeUp
  <2> QED
    BY <2>1, <2>2
<1>17. queue' = [queue EXCEPT ![q] = r] /\ seq' = seq + Len(ripe)
  BY <1>15
<1> HIDE DEF r
<1>18. ScheduleWork(RequestsDoWork([queue EXCEPT ![q] = r]))
  BY <1>15 DEF r
<1> QED
  BY <1>4, <1>11, <1>14, <1>16, <1>17, <1>18

\* A candidate of the selector is the front of its work queue.
LEMMA CandidateFacts ==
  ASSUME AllQueues, NEW c \in Candidates
  PROVE  /\ c.queue \in Queues /\ c.immediate \in BOOLEAN
         /\ c.immediate => /\ queue[c.queue].work # <<>>
                           /\ c.entry = queue[c.queue].work[1]
         /\ ~c.immediate => /\ queue[c.queue].delayed_work # <<>>
                            /\ c.entry = queue[c.queue].delayed_work[1]
<1>1. c \in Fronts(TRUE) \/ c \in Fronts(FALSE)
  BY DEF Candidates
<1>2. CASE c \in Fronts(TRUE)
  <2>1. PICK q \in Queues : /\ Selectable(queue[q], queue[q].work)
                            /\ c = [queue |-> q, immediate |-> TRUE, entry |-> queue[q].work[1]]
    BY <1>2 DEF Fronts
  <2> QED
    BY <2>1 DEF Selectable
<1>3. CASE c \in Fronts(FALSE)
  <2>1. PICK q \in Queues :
          /\ Selectable(queue[q], queue[q].delayed_work)
          /\ c = [queue |-> q, immediate |-> FALSE, entry |-> queue[q].delayed_work[1]]
    BY <1>3 DEF Fronts
  <2> QED
    BY <2>1 DEF Selectable
<1> QED
  BY <1>1, <1>2, <1>3

\* What the queue of a candidate is before its task is taken.
LEMMA CandidateEntry ==
  ASSUME IndInv, NEW c \in Candidates
  PROVE  LET q == c.queue
             r == queue[q]
             d == deferred[q]
             e == c.entry
         IN
         /\ QueueOK(q, r, d, seq) /\ e \in Entries /\ e.order \in 2..seq
         /\ c.immediate => Immediate(q, seq, e) /\ Below(Elems(d.immediate), {e})
         /\ ~c.immediate => Delayed(q, seq, e) /\ Below(Elems(d.delayed), {e})
<1> DEFINE q == c.queue
           r == queue[q]
           d == deferred[q]
           e == c.entry
<1>1. AllQueues
  BY DEF IndInv
<1>2. /\ q \in Queues /\ c.immediate \in BOOLEAN
      /\ c.immediate => r.work # <<>> /\ e = r.work[1]
      /\ ~c.immediate => r.delayed_work # <<>> /\ e = r.delayed_work[1]
  BY <1>1, CandidateFacts
<1> HIDE DEF q, e
<1>3. QueueOK(q, r, d, seq)
  BY <1>1, <1>2 DEF AllQueues
<1>4. r \in Records /\ Contents(q, r, d, seq) /\ Orders(r, d)
  BY <1>3 DEF QueueOK, Holds
<1>5. r.work \in Seq(Entries) /\ r.delayed_work \in Seq(Entries)
  BY <1>4 DEF Records
<1>6. CASE c.immediate
  <2>1. e \in Elems(r.work) /\ e \in Entries
    BY <1>2, <1>5, <1>6, ElemsTail
  <2>2. Immediate(q, seq, e) /\ Below(Elems(d.immediate), {e})
    BY <1>4, <2>1 DEF Contents, Orders, Below
  <2> QED
    BY <1>3, <1>6, <2>1, <2>2 DEF Immediate, q, e
<1>7. CASE ~c.immediate
  <2>1. e \in Elems(r.delayed_work) /\ e \in Entries
    BY <1>2, <1>5, <1>7, ElemsTail
  <2>2. Delayed(q, seq, e) /\ Below(Elems(d.delayed), {e})
    BY <1>4, <2>1 DEF Contents, Orders, Below
  <2> QED
    BY <1>3, <1>7, <2>1, <2>2 DEF Delayed, q, e
<1> QED
  BY <1>6, <1>7

\* A step that takes a task never leaves a reload to be done.
LEMMA TakeTaskReloads ==
  ASSUME IndInv, stack # <<>>, Top.pc = "pick", NEW c \in Candidates,
         queue' = [queue EXCEPT ![c.queue] = TakeTask(queue[c.queue], c.immediate)],
         reload' = reload, Callbacks' = {}
  PROVE  Reloads'
<1> DEFINE q == c.queue
           r == queue[q]
           u == TakeTask(r, c.immediate)
<1>1. AllQueues /\ StackOK /\ seq \in Nat
  BY DEF IndInv, Scalars
<1>2. /\ q \in Queues /\ c.immediate \in BOOLEAN
      /\ c.immediate => r.work # <<>>
      /\ ~c.immediate => r.delayed_work # <<>>
  BY <1>1, CandidateFacts
<1>3. queue' = [queue EXCEPT ![q] = u]
  OBVIOUS
<1> HIDE DEF q
<1>4. QueueOK(q, r, deferred[q], seq)
  BY <1>1, <1>2 DEF AllQueues
<1>5. NeedsReload(u) = NeedsReload(r)
  <2>1. CASE c.immediate
    <3>1. u = TakeTask(r, TRUE)
      BY <1>2, <2>1
    <3>2. u.work = <<>> => u.incoming = <<>>
      BY <1>1, <1>2, <1>4, <2>1, <3>1, QueueTakeImmediate
    <3> QED
      BY <1>2, <2>1, <3>2 DEF NeedsReload
  <2>2. CASE ~c.immediate
    <3>1. u = TakeTask(r, FALSE)
      BY <1>2, <2>2
    <3>2. u.work = r.work /\ u.incoming = r.incoming
      BY <1>1, <1>2, <1>4, <2>2, <3>1, QueueTakeDelayed
    <3> QED
      BY <3>2 DEF NeedsReload
  <2> QED
    BY <2>1, <2>2
<1> HIDE DEF u
<1>6. \A x \in Queues : NeedsReload(queue'[x]) = NeedsReload(queue[x])
  BY <1>1, <1>2, <1>3, <1>5, OneQueueNeeds
<1>7. Callbacks = {}
  BY <1>1, NoCallbacks
<1> QED
  BY <1>6, <1>7, SameReloads DEF IndInv

\* A non-nestable task is deferred while nested.
LEMMA DeferInv ==
  ASSUME IndInv, stack # <<>>, Top.pc = "pick", NEW c \in Candidates,
         queue' = [queue EXCEPT ![c.queue] = TakeTask(queue[c.queue], c.immediate)],
         ~Nestable(c.entry), NestingDepth > 0, Defer(c),
         UNCHANGED <<duplicator, reload, seq, keep_running, quit_pending, poster, now>>
  PROVE  IndInv'
<1> DEFINE q == c.queue
           r == queue[q]
           d == deferred[q]
           e == c.entry
           u == TakeTask(r, c.immediate)
           f == IF c.immediate THEN DeferImmediate(d, e) ELSE DeferDelayed(d, e)
<1>1. /\ AllQueues /\ StackOK /\ Scalars /\ Control /\ StartOrder /\ seq \in Nat
      /\ seq' = seq /\ seq <= seq' /\ UNCHANGED <<stack, task_execution_allowed, started>>
  BY DEF IndInv, Scalars, Defer
<1>2. /\ q \in Queues /\ c.immediate \in BOOLEAN
      /\ c.immediate => r.work # <<>> /\ e = r.work[1]
      /\ ~c.immediate => r.delayed_work # <<>> /\ e = r.delayed_work[1]
  BY <1>1, CandidateFacts
<1>3. /\ QueueOK(q, r, d, seq) /\ e \in Entries
      /\ c.immediate => Immediate(q, seq, e) /\ Below(Elems(d.immediate), {e})
      /\ ~c.immediate => Delayed(q, seq, e) /\ Below(Elems(d.delayed), {e})
  BY CandidateEntry
<1>4. queue' = [queue EXCEPT ![q] = u]
  OBVIOUS
<1>5. deferred' = [deferred EXCEPT ![q] = f]
  BY <1>1, <1>2 DEF Defer, DeferImmediate, DeferDelayed, AllQueues, Backlogs
<1>6. ~Nestable(e)
  OBVIOUS
<1> HIDE DEF q, e
<1>7. QueueOK(q, u, f, seq) /\ Waiting(u, f) \subseteq Waiting(r, d)
  <2>1. CASE c.immediate
    <3>1. u = TakeTask(r, TRUE) /\ f = DeferImmediate(d, e)
      BY <1>2, <2>1
    <3>2. /\ QueueOK(q, u, d, seq) /\ Below({e}, Elems(u.work) \cup Elems(u.incoming))
          /\ Elems(r.work) \cup Elems(r.incoming)
               = {e} \cup Elems(u.work) \cup Elems(u.incoming)
      BY <1>1, <1>2, <1>3, <2>1, <3>1, QueueTakeImmediate
    <3> HIDE DEF u
    <3>3. QueueOK(q, u, f, seq) /\ Elems(f.immediate) = Elems(d.immediate) \cup {e}
      <4>1. /\ QueueOK(q, u, DeferImmediate(d, e), seq)
            /\ Elems(DeferImmediate(d, e).immediate) = Elems(d.immediate) \cup {e}
        <5>1. Immediate(q, seq, e) /\ Between(d, e, u) /\ e \in Entries
          BY <1>3, <2>1, <3>2 DEF Between
        <5>2. QueueOK(q, u, d, seq)
          BY <3>2
        <5> HIDE DEF d
        <5> QED
          BY <1>1, <1>6, <5>1, <5>2, QueueDeferImmediate
      <4> QED
        BY <3>1, <4>1
    <3> QED
      BY <3>2, <3>3 DEF Waiting
  <2>2. CASE ~c.immediate
    <3>1. u = TakeTask(r, FALSE) /\ f = DeferDelayed(d, e)
      BY <1>2, <2>2
    <3>2. /\ QueueOK(q, u, d, seq) /\ Below({e}, Elems(u.delayed_work))
          /\ u.work = r.work /\ u.incoming = r.incoming
      BY <1>1, <1>2, <1>3, <2>2, <3>1, QueueTakeDelayed
    <3> HIDE DEF u
    <3>3. QueueOK(q, u, f, seq) /\ f.immediate = d.immediate
      <4>1. /\ QueueOK(q, u, DeferDelayed(d, e), seq)
            /\ DeferDelayed(d, e).immediate = d.immediate
        <5>1. Delayed(q, seq, e) /\ BetweenDelayed(d, e, u) /\ e \in Entries
          BY <1>3, <2>2, <3>2 DEF BetweenDelayed
        <5>2. QueueOK(q, u, d, seq)
          BY <3>2
        <5> HIDE DEF d
        <5> QED
          BY <1>1, <5>1, <5>2, QueueDeferDelayed
      <4> QED
        BY <3>1, <4>1
    <3> QED
      BY <3>2, <3>3 DEF Waiting
  <2> QED
    BY <2>1, <2>2
<1> HIDE DEF u, f
<1>8. AllQueues'
  <2>1. QueueOK(q, u, f, seq') /\ seq' \in Nat
    BY <1>1, <1>7
  <2> QED
    BY <1>1, <1>2, <1>4, <1>5, <2>1, OneQueueChanges
<1>9. StartOrder'
  <2>1. NewOnesLater
    BY <1>1, <1>2, <1>4, <1>5, <1>7, OneQueueLater
  <2> QED
    BY <1>1, <2>1, NothingStarts
<1>10. StackOK' /\ Top' = Top /\ Callbacks' = {}
  BY <1>1, SameStack, NoCallbacks DEF Top, Callbacks
<1>11. Scalars'
  BY <1>1 DEF Scalars, duplicator
<1>12. Control'
  <2>1. Len(stack) \in Nat /\ ~(Len(stack) <= 1) /\ Len(stack) # 1
    BY <1>1 DEF NestingDepth, StackOK
  <2> QED
    BY <1>1, <1>10, <2>1 DEF Control, Bound, duplicator
<1>13. Reloads'
  BY <1>1, <1>10, TakeTaskReloads
<1>14. Sleep'
  BY <1>10, Awake
<1> QED
  BY <1>8, <1>9, <1>10, <1>11, <1>12, <1>13, <1>14 DEF IndInv

\* A start in order with what started before and with what waits.
LEMMA OneStarts ==
  ASSUME StartOrder, seq \in Nat, seq' = seq, NEW s \in Starts, started' = Append(started, s),
         s.order <= seq,
         \A q \in Queues :
           Waiting(queue'[q], deferred'[q]) \subseteq Waiting(queue[q], deferred[q]),
         \A e \in Waiting(queue'[QueueOf[s.task]], deferred'[QueueOf[s.task]]) : Precedes(s, e),
         \A x \in Elems(started) : QueueOf[x.task] = QueueOf[s.task] => Precedes(x, s)
  PROVE  StartOrder'
<1>1. started \in Seq(Starts) /\ Elems(started) \subseteq Starts
  BY ElemsType DEF StartOrder
<1>2. started' \in Seq(Starts) /\ Elems(started') = Elems(started) \cup {s}
  BY <1>1, ElemsAppend
<1>3. ASSUME NEW x \in Elems(started') PROVE x.order <= seq'
  BY <1>2 DEF StartOrder
<1>4. ASSUME NEW x \in Elems(started'),
             NEW e \in Waiting(queue'[QueueOf[x.task]], deferred'[QueueOf[x.task]])
      PROVE  Precedes(x, e)
  <2>1. CASE x = s
    BY <1>4, <2>1
  <2>2. CASE x \in Elems(started)
    <3>1. QueueOf[x.task] \in Queues
      BY <1>1, <2>2, Parameters DEF Starts
    <3>2. e \in Waiting(queue[QueueOf[x.task]], deferred[QueueOf[x.task]])
      BY <1>4, <3>1
    <3> QED
      BY <2>2, <3>2 DEF StartOrder
  <2> QED
    BY <1>2, <2>1, <2>2
<1>5. StartsInPostingOrder'
  <2>1. /\ Len(started) \in Nat /\ Len(started') = Len(started) + 1
        /\ started'[Len(started) + 1] = s
        /\ \A k \in 1..Len(started) : started'[k] = started[k] /\ started[k] \in Elems(started)
    BY <1>1 DEF Elems
  <2> SUFFICES ASSUME NEW i \in 1..Len(started'), NEW j \in 1..Len(started'), i < j,
                      QueueOf[started'[i].task] = QueueOf[started'[j].task],
                      Delay[started'[i].task] = 0, Delay[started'[j].task] = 0
               PROVE  \/ started'[i].order < started'[j].order
                      \/ started'[i].nested /\ started'[j].task \in NonNestable
    BY DEF StartsInPostingOrder
  <2>2. i \in 1..Len(started) /\ (j \in 1..Len(started) \/ j = Len(started) + 1)
    BY <2>1
  <2>3. CASE j \in 1..Len(started)
    BY <2>1, <2>2, <2>3 DEF StartOrder, StartsInPostingOrder
  <2>4. CASE j = Len(started) + 1
    <3>1. Precedes(started[i], s)
      BY <2>1, <2>2, <2>4
    <3> QED
      BY <2>1, <2>2, <2>4, <3>1 DEF Precedes
  <2> QED
    BY <2>2, <2>3, <2>4
<1> QED
  BY <1>2, <1>3, <1>4, <1>5 DEF StartOrder

\* What a task that starts leaves waiting is later, or deferred by a nested run loop.
LEMMA StartPrecedes ==
  ASSUME IndInv, NEW c \in Candidates, c.immediate, NEW s,
         s.task = c.entry.task, s.order = c.entry.order, NestingDepth > 0 => s.nested,
         NEW e \in Waiting(TakeTask(queue[c.queue], TRUE), deferred[c.queue])
  PROVE  Precedes(s, e)
<1> DEFINE q == c.queue
           r == queue[q]
           d == deferred[q]
           u == TakeTask(r, TRUE)
<1>1. AllQueues /\ seq \in Nat
  BY DEF IndInv, Scalars
<1>2. q \in Queues /\ r.work # <<>> /\ c.entry = r.work[1]
  BY <1>1, CandidateFacts
<1> HIDE DEF q
<1>3. QueueOK(q, r, d, seq)
  BY <1>1, <1>2 DEF AllQueues
<1>4. Below({c.entry}, Elems(u.work) \cup Elems(u.incoming))
  BY <1>1, <1>2, <1>3, QueueTakeImmediate
<1>5. CASE e \in Elems(u.work) \cup Elems(u.incoming)
  <2>1. c.entry.order < e.order
    BY <1>4, <1>5 DEF Below
  <2> QED
    BY <2>1 DEF Precedes
<1>6. CASE e \in Elems(d.immediate)
  <2>1. d \in Backlogs /\ ~Nestable(e) /\ Immediate(q, seq, e)
    BY <1>3, <1>6 DEF QueueOK, Holds, Contents
  <2>2. d.immediate # <<>>
    BY <1>6, NoElems
  <2>3. deferred # NoneDeferred
    BY <1>2, <2>2 DEF NoneDeferred
  <2>4. Len(stack) \in Nat /\ ~(Len(stack) <= 1)
    BY <2>3 DEF IndInv, Control, StackOK
  <2>5. s.nested
    BY <2>4 DEF NestingDepth
  <2>6. e.hop \/ e.task \in NonNestable
    BY <2>1 DEF Nestable
  <2>7. e.hop => Delay[e.task] # 0
    BY <2>1 DEF Immediate
  <2> QED
    BY <2>5, <2>6, <2>7 DEF Precedes
<1> QED
  BY <1>5, <1>6 DEF Waiting, q

\* A task starts, or the hop that carries one.
LEMMA StartTaskInv ==
  ASSUME IndInv, stack # <<>>, Top.pc = "pick", NEW c \in Candidates,
         queue' = [queue EXCEPT ![c.queue] = TakeTask(queue[c.queue], c.immediate)],
         StartTask(c),
         UNCHANGED <<duplicator, reload, seq, keep_running, quit_pending, poster, now>>
  PROVE  IndInv'
<1> DEFINE q == c.queue
           r == queue[q]
           d == deferred[q]
           e == c.entry
           u == TakeTask(r, c.immediate)
           p == IF e.hop THEN "hop" ELSE "run"
           h == IF e.hop THEN {[e EXCEPT !.hop = FALSE]} ELSE {}
           l == [Top EXCEPT !.pc = p, !.hop = h]
<1>1. /\ AllQueues /\ StackOK /\ Scalars /\ Control /\ StartOrder /\ seq \in Nat
      /\ seq' = seq /\ seq <= seq' /\ deferred' = deferred /\ task_execution_allowed' = FALSE
  BY DEF IndInv, Scalars, StartTask
<1>2. /\ q \in Queues /\ c.immediate \in BOOLEAN
      /\ c.immediate => r.work # <<>> /\ e = r.work[1]
      /\ ~c.immediate => r.delayed_work # <<>> /\ e = r.delayed_work[1]
  BY <1>1, CandidateFacts
<1>3. /\ QueueOK(q, r, d, seq) /\ e \in Entries /\ e.order \in 2..seq
      /\ c.immediate => Immediate(q, seq, e)
      /\ ~c.immediate => Delayed(q, seq, e)
  BY CandidateEntry
<1>4. queue' = [queue EXCEPT ![q] = u]
  OBVIOUS
<1>5. SetTop(l)
  BY DEF StartTask
<1>6. started' = IF e.hop THEN started
                 ELSE Append(started, [task |-> e.task, order |-> e.order,
                                       nested |-> NestingDepth > 0])
  BY DEF StartTask
<1> HIDE DEF q, e
<1>7. e.task \in Tasks /\ e.hop \in BOOLEAN /\ e.order \in Nat /\ e.time \in Nat
  BY <1>3 DEF Entries
<1>8. QueueOf[e.task] = q /\ (e.hop => Delay[e.task] > 0)
  BY <1>2, <1>3 DEF Immediate, Delayed
<1>9. QueueOK(q, u, d, seq) /\ Waiting(u, d) \subseteq Waiting(r, d)
  <2>1. CASE c.immediate
    <3>1. u = TakeTask(r, TRUE)
      BY <1>2, <2>1
    <3>2. /\ QueueOK(q, u, d, seq)
          /\ Elems(r.work) \cup Elems(r.incoming)
               = {e} \cup Elems(u.work) \cup Elems(u.incoming)
      BY <1>1, <1>2, <1>3, <2>1, <3>1, QueueTakeImmediate
    <3> QED
      BY <3>2 DEF Waiting
  <2>2. CASE ~c.immediate
    <3>1. u = TakeTask(r, FALSE)
      BY <1>2, <2>2
    <3>2. QueueOK(q, u, d, seq) /\ u.work = r.work /\ u.incoming = r.incoming
      BY <1>1, <1>2, <1>3, <2>2, <3>1, QueueTakeDelayed
    <3> QED
      BY <3>2 DEF Waiting
  <2> QED
    BY <2>1, <2>2
<1>10. AllQueues'
  <2>1. QueueOK(q, u, deferred[q], seq') /\ seq' \in Nat
    BY <1>1, <1>9
  <2> HIDE DEF u
  <2> QED
    BY <1>1, <1>2, <1>4, <2>1, OneRecordChanges
<1>11. \A x \in Queues : Waiting(queue'[x], deferred'[x]) \subseteq Waiting(queue[x], deferred[x])
  <2> SUFFICES ASSUME NEW x \in Queues
               PROVE  Waiting(queue'[x], deferred'[x]) \subseteq Waiting(queue[x], deferred[x])
    OBVIOUS
  <2> HIDE DEF u
  <2>1. CASE x = q
    <3>1. queue'[x] = u /\ deferred'[x] = d
      BY <1>1, <1>4, <2>1 DEF AllQueues
    <3> QED
      BY <1>9, <2>1, <3>1
  <2>2. CASE x # q
    <3>1. queue'[x] = queue[x] /\ deferred'[x] = deferred[x]
      BY <1>1, <1>4, <2>2 DEF AllQueues
    <3> QED
      BY <3>1
  <2> QED
    BY <2>1, <2>2
<1>12. StartOrder'
  <2>1. CASE e.hop
    <3>1. NewOnesLater
      BY <1>11 DEF NewOnesLater
    <3> QED
      BY <1>1, <1>6, <2>1, <3>1, NothingStarts
  <2>2. CASE ~e.hop
    <3> DEFINE s == [task |-> e.task, order |-> e.order, nested |-> NestingDepth > 0]
    <3>1. s \in Starts
      BY <1>7 DEF Starts
    <3>2. /\ s.task = e.task /\ s.order = e.order /\ (NestingDepth > 0 => s.nested)
          /\ started' = Append(started, s)
      BY <1>6, <2>2
    <3> HIDE DEF s
    <3>3. s.order <= seq
      BY <1>1, <1>3, <3>2
    <3>4. QueueOf[s.task] = q /\ queue'[q] = u /\ deferred'[q] = d
      BY <1>1, <1>2, <1>4, <1>8, <3>2 DEF AllQueues
    <3>5. ASSUME NEW w \in Waiting(u, d) PROVE Precedes(s, w)
      <4>1. CASE c.immediate
        <5>1. w \in Waiting(TakeTask(queue[c.queue], TRUE), deferred[c.queue])
          BY <1>2, <3>5, <4>1 DEF q
        <5> QED
          BY <3>2, <4>1, <5>1, StartPrecedes DEF e
      <4>2. CASE ~c.immediate
        BY <1>3, <3>2, <4>2 DEF Delayed, Precedes
      <4> QED
        BY <4>1, <4>2
    <3>6. ASSUME NEW x \in Elems(started), QueueOf[x.task] = q PROVE Precedes(x, s)
      <4>1. CASE c.immediate
        <5>1. r.work \in Seq(Entries)
          BY <1>3 DEF QueueOK, Holds, Records
        <5>2. e \in Elems(r.work)
          BY <1>2, <4>1, <5>1, ElemsTail
        <5>3. e \in Waiting(queue[QueueOf[x.task]], deferred[QueueOf[x.task]])
          BY <3>6, <5>2 DEF Waiting
        <5>4. Precedes(x, e)
          BY <1>1, <5>3 DEF StartOrder
        <5> QED
          BY <3>2, <5>4 DEF Precedes
      <4>2. CASE ~c.immediate
        BY <1>3, <3>2, <4>2 DEF Delayed, Precedes
      <4> QED
        BY <4>1, <4>2
    <3> HIDE DEF u, d
    <3> QED
      BY <1>1, <1>11, <3>1, <3>2, <3>3, <3>4, <3>5, <3>6, OneStarts
  <2> QED
    BY <1>7, <2>1, <2>2
<1>13. Top \in Loops /\ LoopOK(Top, seq) /\ Top.callbacks = {}
  BY <1>1, TopFacts DEF LoopOK
<1>14. p \in {"hop", "run"} /\ p \in PCs
  BY DEF PCs
<1>15. h \subseteq Entries /\ \A x \in h : Delayed(QueueOf[x.task], seq, x)
  <2> DEFINE f == [e EXCEPT !.hop = FALSE]
  <2>1. f \in Entries /\ f.task = e.task /\ f.order = e.order
    BY <1>3 DEF Entries
  <2> HIDE DEF f
  <2>2. e.hop => Delayed(QueueOf[f.task], seq, f)
    BY <1>3, <1>8, <2>1 DEF Delayed
  <2>3. h = IF e.hop THEN {f} ELSE {}
    BY DEF f
  <2> HIDE DEF h
  <2> QED
    BY <2>1, <2>2, <2>3
<1> HIDE DEF p, h
<1>16. /\ l \in Loops /\ l.pc = p /\ l.callbacks = {} /\ l.hop = h
       /\ l.restore = Top.restore
  BY <1>13, <1>14, <1>15 DEF Loops
<1> HIDE DEF l
<1>17. LoopOK(l, seq')
  BY <1>1, <1>15, <1>16 DEF LoopOK
<1>18. StackOK' /\ stack' # <<>> /\ Len(stack') = Len(stack) /\ Top' = l
  BY <1>1, <1>5, <1>16, <1>17, TopChanges
<1>19. Callbacks' = {}
  BY <1>16, <1>18 DEF Callbacks
<1>20. Scalars'
  BY <1>1 DEF Scalars, duplicator
<1>21. Control'
  BY <1>1, <1>14, <1>16, <1>18 DEF Control, Bound, duplicator
<1>22. Reloads'
  BY <1>19, TakeTaskReloads
<1>23. Sleep'
  BY <1>14, <1>16, <1>18, Awake
<1> QED
  BY <1>10, <1>12, <1>18, <1>20, <1>21, <1>22, <1>23 DEF IndInv

\* PickTask.
LEMMA PickTaskInv ==
  ASSUME IndInv, PickTask
  PROVE  IndInv'
<1>1. /\ stack # <<>> /\ Top.pc = "pick"
      /\ UNCHANGED <<duplicator, reload, seq, keep_running, quit_pending, poster, now>>
  BY DEF PickTask, At
<1>2. PICK c \in Candidates :
        /\ queue' = [queue EXCEPT ![c.queue] = TakeTask(queue[c.queue], c.immediate)]
        /\ IF ~Nestable(c.entry) /\ NestingDepth > 0 THEN Defer(c) ELSE StartTask(c)
  BY DEF PickTask
<1>3. CASE ~Nestable(c.entry) /\ NestingDepth > 0
  BY <1>1, <1>2, <1>3, DeferInv
<1>4. CASE ~(~Nestable(c.entry) /\ NestingDepth > 0)
  BY <1>1, <1>2, <1>4, StartTaskInv
<1> QED
  BY <1>3, <1>4

\* A new run loop.
LEMMA LoopFacts ==
  ASSUME Scalars, NEW u \in BOOLEAN, NEW x \in BOOLEAN
  PROVE  LET l == Loop(u, x) IN
         /\ LoopOK(l, seq) /\ l \in Loops /\ l.pc = "start" /\ l.callbacks = {}
         /\ l.until_idle = u /\ l.restore = x /\ l.hop = {}
<1> DEFINE l == Loop(u, x)
<1>1. /\ l \in Loops /\ l.pc = "start" /\ l.callbacks = {} /\ l.hop = {}
      /\ l.until_idle = u /\ l.restore = x
  BY DEF Loop, Loops, PCs, Scalars
<1> HIDE DEF l
<1>2. LoopOK(l, seq)
  BY <1>1 DEF LoopOK
<1> QED
  BY <1>1, <1>2 DEF l

\* BindToCurrentThread() comes before any run loop.
LEMMA BindInv ==
  ASSUME IndInv, BindToCurrentThread
  PROVE  IndInv'
<1>1. /\ UNCHANGED <<queue, reload, seq, deferred, stack, keep_running, quit_pending,
                     task_execution_allowed, starvation, poster, unposted, started, ops, now>>
      /\ seq \in Nat /\ seq <= seq'
  BY DEF BindToCurrentThread, main_only, IndInv, Scalars
<1>2. stack = <<>> /\ stack' = <<>>
  BY <1>1 DEF BindToCurrentThread, IndInv, Control
<1>3. Scalars'
  BY <1>1 DEF IndInv, Scalars, BindToCurrentThread
<1>4. AllQueues' /\ StartOrder' /\ StackOK'
  BY <1>1, SameQueues, SameStarts, SameStack DEF IndInv
<1>5. Control'
  BY <1>1, <1>2 DEF IndInv, Control
<1>6. Reloads'
  <2>1. Callbacks' = Callbacks
    BY <1>2 DEF Callbacks
  <2> QED
    BY <1>1, <2>1, SameReloads DEF IndInv
<1>7. Sleep'
  BY <1>2, Awake
<1> QED
  BY <1>3, <1>4, <1>5, <1>6, <1>7 DEF IndInv

\* RunLoop::Run() outside any task.
LEMMA RunInv ==
  ASSUME IndInv, NEW b \in BOOLEAN, Run(b)
  PROVE  IndInv'
<1> DEFINE l == Loop(b, FALSE)
<1>1. /\ UNCHANGED <<duplicator, queue, reload, seq, deferred, task_execution_allowed,
                     starvation, poster, unposted, started, ops, now>>
      /\ Bound /\ stack = <<>> /\ stack' = <<l>> /\ keep_running' = TRUE
      /\ quit_pending' = FALSE /\ seq \in Nat
  BY DEF Run, IndInv, Scalars
<1>2. /\ LoopOK(l, seq) /\ l \in Loops /\ l.pc = "start" /\ l.callbacks = {}
      /\ ~l.restore
  BY LoopFacts DEF IndInv
<1> HIDE DEF l
<1>3. /\ stack' \in Seq(Loops) /\ Len(stack') = 1 /\ stack'[1] = l /\ stack' # <<>>
      /\ Top' = l
  BY <1>1, <1>2 DEF Top
<1>4. StackOK'
  BY <1>1, <1>2, <1>3 DEF StackOK
<1>5. Scalars'
  BY <1>1 DEF IndInv, Scalars, duplicator
<1>6. AllQueues' /\ StartOrder'
  BY <1>1, SameQueues, SameStarts DEF IndInv
<1>7. Control'
  <2>1. task_execution_allowed /\ deferred = NoneDeferred
    BY <1>1 DEF IndInv, Control
  <2> QED
    BY <1>1, <1>3, <2>1 DEF Control, Bound, duplicator
<1>8. Reloads'
  <2>1. Callbacks = {} /\ Callbacks' = {}
    BY <1>1, <1>2, <1>3 DEF Callbacks
  <2> QED
    BY <1>1, <2>1, SameReloads DEF IndInv
<1>9. Sleep'
  BY <1>2, <1>3, Awake
<1> QED
  BY <1>4, <1>5, <1>6, <1>7, <1>8, <1>9 DEF IndInv

\* A nested run loop, begun by a task.
LEMMA RunNestedInv ==
  ASSUME IndInv, NEW b \in BOOLEAN, NEW u \in BOOLEAN, RunNested(b, u)
  PROVE  IndInv'
<1> DEFINE a == b /\ ~task_execution_allowed
           l == Loop(u, a)
<1>1. /\ UNCHANGED <<queue, reload, seq, deferred, starvation, poster, unposted, started, now>>
      /\ stack # <<>> /\ Top.pc = "run" /\ stack' = Append(stack, l) /\ ScheduleWork(b)
      /\ keep_running' = TRUE /\ quit_pending' = FALSE /\ seq \in Nat
      /\ task_execution_allowed' = (task_execution_allowed \/ a)
      /\ Scalars /\ StackOK /\ Control
  BY DEF RunNested, Op, InTask, At, IndInv, Scalars
<1>2. a \in BOOLEAN /\ task_execution_allowed' \in BOOLEAN
  BY <1>1 DEF Scalars
<1>3. /\ LoopOK(l, seq) /\ l \in Loops /\ l.pc = "start" /\ l.callbacks = {}
  BY <1>1, <1>2, LoopFacts
<1> HIDE DEF l, a
<1>4. /\ Len(stack) \in Nat \ {0} /\ stack' \in Seq(Loops) /\ Len(stack') = Len(stack) + 1
      /\ stack'[Len(stack) + 1] = l /\ stack' # <<>>
      /\ \A k \in 1..Len(stack) : stack'[k] = stack[k]
  BY <1>1, <1>3 DEF StackOK
<1>5. Top' = l
  BY <1>4 DEF Top
<1>6. StackOK'
  <2> SUFFICES ASSUME NEW k \in 1..(Len(stack) + 1)
               PROVE  /\ LoopOK(stack'[k], seq)
                      /\ k < Len(stack) + 1 => stack'[k].pc = "run"
                      /\ k = 1 => ~stack'[k].restore
    BY <1>1, <1>4 DEF StackOK
  <2>1. CASE k = Len(stack) + 1
    BY <1>3, <1>4, <2>1
  <2>2. CASE k # Len(stack) + 1
    <3>1. k \in 1..Len(stack) /\ stack'[k] = stack[k]
      BY <1>4, <2>2
    <3>2. k < Len(stack) => stack[k].pc = "run"
      BY <1>1, <3>1 DEF StackOK
    <3>3. k = Len(stack) => stack[k].pc = "run"
      BY <1>1 DEF Top
    <3>4. stack[k].pc = "run"
      BY <1>4, <3>1, <3>2, <3>3
    <3> QED
      BY <1>1, <3>1, <3>4 DEF StackOK
  <2> QED
    BY <2>1, <2>2
<1>7. /\ state_' \in SUBSET {"InDoWork", "PendingDoWork", "Bound"} /\ event_' \in BOOLEAN
      /\ Bound => Bound'
  BY <1>1, ScheduleWorkFacts
<1>8. Scalars'
  BY <1>1, <1>2, <1>7 DEF Scalars
<1>9. AllQueues' /\ StartOrder'
  BY <1>1, SameQueues, SameStarts DEF IndInv
<1>10. Control'
  <2>1. Bound' /\ Len(stack') # 1 /\ ~(Len(stack') <= 1)
    BY <1>1, <1>4, <1>7 DEF Control
  <2> QED
    BY <1>1, <1>4, <2>1 DEF Control
<1>11. Reloads'
  <2>1. Callbacks = {} /\ Callbacks' = {}
    BY <1>1, <1>3, <1>4, <1>5, NoCallbacks DEF Callbacks
  <2> QED
    BY <1>1, <2>1, SameReloads DEF IndInv
<1>12. Sleep'
  BY <1>3, <1>5, Awake
<1> QED
  BY <1>6, <1>8, <1>9, <1>10, <1>11, <1>12 DEF IndInv

\* Quit() and QuitWhenIdle() mark an active run loop.
LEMMA MarkedLoop ==
  ASSUME StackOK, NEW k \in 1..Len(stack), Quit(k) \/ QuitWhenIdle(k)
  PROVE  \E l \in Loops :
           /\ stack' = [stack EXCEPT ![k] = l]
           /\ l.pc = stack[k].pc /\ l.callbacks = stack[k].callbacks
           /\ l.hop = stack[k].hop /\ l.restore = stack[k].restore
<1> DEFINE Marks(l) == /\ stack' = [stack EXCEPT ![k] = l]
                       /\ l.pc = stack[k].pc /\ l.callbacks = stack[k].callbacks
                       /\ l.hop = stack[k].hop /\ l.restore = stack[k].restore
<1>1. stack[k] \in Loops
  BY DEF StackOK
<1>2. CASE Quit(k)
  <2> DEFINE l == [stack[k] EXCEPT !.quit_called = TRUE]
  <2>1. l \in Loops /\ Marks(l)
    BY <1>1, <1>2 DEF Quit, Loops
  <2> QED
    BY <2>1
<1>3. CASE QuitWhenIdle(k)
  <2> DEFINE l == [stack[k] EXCEPT !.until_idle = TRUE]
  <2>1. l \in Loops /\ Marks(l)
    BY <1>1, <1>3 DEF QuitWhenIdle, Loops
  <2> QED
    BY <2>1
<1> QED
  BY <1>2, <1>3

\* RunLoop::Quit() and QuitWhenIdle() of an active run loop.
LEMMA QuitInv ==
  ASSUME IndInv, NEW k \in 1..Len(stack), Quit(k) \/ QuitWhenIdle(k)
  PROVE  IndInv'
<1>1. /\ UNCHANGED <<duplicator, queue, reload, seq, deferred, task_execution_allowed,
                     starvation, poster, unposted, started, now>>
      /\ stack # <<>> /\ Top.pc = "run" /\ seq \in Nat
      /\ Scalars /\ StackOK /\ Control
  BY DEF Quit, QuitWhenIdle, Op, InTask, At, IndInv, Scalars
<1>2. \/ quit_pending' = TRUE /\ keep_running' = FALSE
      \/ UNCHANGED <<quit_pending, keep_running>>
  BY DEF Quit, QuitWhenIdle
<1>3. PICK l \in Loops :
        /\ stack' = [stack EXCEPT ![k] = l]
        /\ l.pc = stack[k].pc /\ l.callbacks = stack[k].callbacks
        /\ l.hop = stack[k].hop /\ l.restore = stack[k].restore
  BY <1>1, MarkedLoop
<1>4. stack[k] \in Loops /\ LoopOK(stack[k], seq)
  BY <1>1 DEF StackOK
<1>5. LoopOK(l, seq)
  BY <1>3, <1>4 DEF LoopOK
<1>6. /\ Len(stack) \in Nat \ {0} /\ stack' \in Seq(Loops) /\ Len(stack') = Len(stack)
      /\ stack'[k] = l /\ stack' # <<>>
      /\ \A j \in 1..Len(stack) : j # k => stack'[j] = stack[j]
  BY <1>1, <1>3 DEF StackOK
<1>7. StackOK'
  <2> SUFFICES ASSUME NEW j \in 1..Len(stack)
               PROVE  /\ LoopOK(stack'[j], seq)
                      /\ j < Len(stack) => stack'[j].pc = "run"
                      /\ j = 1 => ~stack'[j].restore
    BY <1>1, <1>6 DEF StackOK
  <2>1. /\ LoopOK(stack[j], seq)
        /\ j < Len(stack) => stack[j].pc = "run"
        /\ j = 1 => ~stack[j].restore
    BY <1>1 DEF StackOK
  <2>2. CASE j = k
    BY <1>3, <1>5, <1>6, <2>1, <2>2
  <2>3. CASE j # k
    BY <1>6, <2>1, <2>3
  <2> QED
    BY <2>2, <2>3
<1>8. Top'.pc = "run" /\ Top'.callbacks = Top.callbacks
  <2>1. CASE k = Len(stack)
    BY <1>1, <1>3, <1>6, <2>1 DEF Top
  <2>2. CASE k # Len(stack)
    BY <1>1, <1>6, <2>2 DEF Top
  <2> QED
    BY <2>1, <2>2
<1>9. Scalars'
  BY <1>1, <1>2 DEF Scalars, duplicator
<1>10. AllQueues' /\ StartOrder'
  BY <1>1, SameQueues, SameStarts DEF IndInv
<1>11. Control'
  BY <1>1, <1>2, <1>6, <1>8 DEF Control, Bound, duplicator
<1>12. Reloads'
  <2>1. Callbacks' = Callbacks
    BY <1>1, <1>6, <1>8 DEF Callbacks
  <2> QED
    BY <1>1, <2>1, SameReloads DEF IndInv
<1>13. Sleep'
  BY <1>8, Awake
<1> QED
  BY <1>7, <1>9, <1>10, <1>11, <1>12, <1>13 DEF IndInv

\* ScopedNestableTaskAllower, in a task.
LEMMA SetTaskExecutionAllowedInv ==
  ASSUME IndInv, NEW b \in BOOLEAN, SetTaskExecutionAllowed(b)
  PROVE  IndInv'
<1>1. /\ UNCHANGED <<queue, reload, seq, deferred, stack, keep_running, quit_pending,
                     starvation, poster, unposted, started, now>>
      /\ stack # <<>> /\ Top.pc = "run" /\ seq \in Nat /\ seq <= seq'
      /\ task_execution_allowed' = b /\ Scalars /\ StackOK /\ Control
  BY DEF SetTaskExecutionAllowed, Op, InTask, At, IndInv, Scalars
<1>2. \/ state_' = state_ \cup {"PendingDoWork"} /\ event_' = TRUE
      \/ state_' = kInDoWork /\ event_' = event_
  BY DEF SetTaskExecutionAllowed, OnWorkRequested
<1>3. Scalars'
  BY <1>1, <1>2 DEF Scalars, kInDoWork
<1>4. AllQueues' /\ StartOrder' /\ StackOK'
  BY <1>1, SameQueues, SameStarts, SameStack DEF IndInv
<1>5. Top' = Top /\ Callbacks' = Callbacks
  BY <1>1 DEF Top, Callbacks
<1>6. Control'
  BY <1>1, <1>2, <1>5 DEF Control, Bound, kInDoWork
<1>7. Reloads'
  BY <1>1, <1>5, SameReloads DEF IndInv
<1>8. Sleep'
  BY <1>1, <1>5, Awake
<1> QED
  BY <1>3, <1>4, <1>6, <1>7, <1>8 DEF IndInv

\* The run loops left when the innermost one returns.
LEMMA PopFacts ==
  ASSUME StackOK, stack # <<>>, seq' = seq, stack' = SubSeq(stack, 1, Len(stack) - 1)
  PROVE  /\ StackOK' /\ Len(stack) \in Nat \ {0} /\ Len(stack') = Len(stack) - 1
         /\ \A k \in 1..Len(stack') : k \in 1..Len(stack) /\ stack'[k] = stack[k]
         /\ stack' = <<>> <=> Len(stack) = 1
         /\ stack' # <<>> => Top' \in Loops /\ Top'.pc = "run"
<1>1. Len(stack) \in Nat \ {0}
  BY DEF StackOK
<1>2. /\ stack' \in Seq(Loops) /\ Len(stack') = Len(stack) - 1
      /\ \A k \in 1..(Len(stack) - 1) : stack'[k] = stack[k]
  <2> DEFINE n == Len(stack) - 1
  <2>1. n \in Int /\ 1 \in Int /\ \A k \in 1..n : stack[k] \in Loops
    BY <1>1 DEF StackOK
  <2>2. /\ SubSeq(stack, 1, n) \in Seq(Loops)
        /\ Len(SubSeq(stack, 1, n)) = IF 1 <= n THEN n - 1 + 1 ELSE 0
        /\ \A k \in 1..(n - 1 + 1) : SubSeq(stack, 1, n)[k] = stack[1 + k - 1]
    BY <2>1, SubSeqProperties
  <2>3. \A k \in 1..n : 1 + k - 1 = k /\ k \in 1..(n - 1 + 1)
    BY <2>1
  <2>4. stack' = SubSeq(stack, 1, n)
    OBVIOUS
  <2>5. Len(SubSeq(stack, 1, n)) = n
    <3>1. n \in Nat
      BY <1>1
    <3>2. Len(SubSeq(stack, 1, n)) = IF 1 <= n THEN n - 1 + 1 ELSE 0
      BY <2>2, Zenon
    <3> DEFINE k == Len(SubSeq(stack, 1, n))
    <3> HIDE DEF n, k
    <3>3. k = IF 1 <= n THEN n - 1 + 1 ELSE 0
      BY <3>2 DEF k
    <3>4. k = n
      BY <3>1, <3>3
    <3> QED
      BY <3>4 DEF k
  <2>6. \A k \in 1..n : SubSeq(stack, 1, n)[k] = stack[k]
    <3> HIDE DEF n
    <3> QED
      BY <2>2, <2>3
  <2> HIDE DEF n
  <2>7. stack' \in Seq(Loops) /\ Len(stack') = n /\ \A k \in 1..n : stack'[k] = stack[k]
    BY <2>2, <2>4, <2>5, <2>6, Zenon
  <2> QED
    BY <2>7 DEF n
<1>3. ASSUME NEW k \in 1..Len(stack')
      PROVE  /\ LoopOK(stack'[k], seq') /\ stack'[k].pc = "run"
             /\ k = 1 => ~stack'[k].restore
  <2>1. k \in 1..Len(stack) /\ k < Len(stack) /\ stack'[k] = stack[k]
    BY <1>1, <1>2
  <2> QED
    BY <2>1 DEF StackOK
<1>4. StackOK'
  BY <1>2, <1>3 DEF StackOK
<1>5. stack' = <<>> <=> Len(stack) = 1
  <2>1. stack' = <<>> <=> Len(stack') = 0
    BY <1>2, EmptySeq
  <2> QED
    BY <1>1, <1>2, <2>1
<1>6. stack' # <<>> => Len(stack') \in 1..Len(stack')
  BY <1>2
<1> QED
  BY <1>1, <1>2, <1>3, <1>4, <1>5, <1>6 DEF Top

\* The deferred tasks go back to all queues.
LEMMA RequeueKeeps ==
  ASSUME IndInv, seq' = seq, started' = started, deferred' = NoneDeferred,
         queue' = [q \in Queues |-> RequeueDeferredNonNestableTasks(q)],
         reload' = reload \ FilledByRequeue, Callbacks = {}, Callbacks' = {}
  PROVE  AllQueues' /\ StartOrder' /\ Reloads'
<1>1. AllQueues /\ seq \in Nat /\ seq <= seq' /\ StartOrder /\ Reloads
  BY DEF IndInv, Scalars
<1>2. ASSUME NEW q \in Queues
      PROVE  queue'[q] = Requeued(queue[q], deferred[q]) /\ deferred'[q] = NoBacklog
  BY DEF RequeueDeferredNonNestableTasks, Requeued, NoneDeferred, NoBacklog
<1>3. ASSUME NEW q \in Queues
      PROVE  /\ QueueOK(q, queue'[q], deferred'[q], seq)
             /\ queue'[q].incoming = queue[q].incoming
             /\ Elems(queue'[q].work) = Elems(deferred[q].immediate) \cup Elems(queue[q].work)
             /\ queue'[q].work = <<>> <=> queue[q].work = <<>> /\ deferred[q].immediate = <<>>
  <2>1. QueueOK(q, queue[q], deferred[q], seq)
    BY <1>1 DEF AllQueues
  <2>2. RequeuedOK(q, queue[q], deferred[q], Requeued(queue[q], deferred[q]), seq)
    BY <1>1, <2>1, QueueRequeue
  <2> QED
    BY <1>2, <2>2 DEF RequeuedOK
<1>4. AllQueues'
  <2>1. \A q \in Queues : queue'[q] \in Records /\ deferred'[q] \in Backlogs
    BY <1>3 DEF QueueOK, Holds
  <2>2. queue' \in [Queues -> Records] /\ deferred' \in [Queues -> Backlogs]
    BY <2>1 DEF NoneDeferred
  <2> QED
    BY <1>3, <2>2 DEF AllQueues
<1>5. StartOrder'
  <2>1. NewOnesLater
    <3> SUFFICES ASSUME NEW q \in Queues, NEW e \in Waiting(queue'[q], deferred'[q])
                 PROVE  e \in Waiting(queue[q], deferred[q])
      BY DEF NewOnesLater
    <3>1. Elems(deferred'[q].immediate) = {}
      BY <1>2, NoElems DEF NoBacklog
    <3> QED
      BY <1>3, <3>1 DEF Waiting
  <2> QED
    BY <1>1, <2>1, NothingStarts
<1>6. Reloads'
  <2>1. ASSUME NEW q \in Queues PROVE q \in reload' <=> NeedsReload(queue'[q])
    <3>1. q \in reload <=> NeedsReload(queue[q])
      BY <1>1 DEF Reloads
    <3>2. q \in FilledByRequeue <=> queue[q].work = <<>> /\ deferred[q].immediate # <<>>
      BY DEF FilledByRequeue
    <3> QED
      BY <1>3, <3>1, <3>2 DEF NeedsReload
  <2> QED
    BY <2>1 DEF Reloads
<1> QED
  BY <1>4, <1>5, <1>6

\* A run loop returns to the task that began it, or to the owner of the thread.
LEMMA ExitRunInv ==
  ASSUME IndInv, ExitRun
  PROVE  IndInv'
<1> DEFINE outer == SubSeq(stack, 1, Len(stack) - 1)
           quit == outer # <<>> /\ outer[Len(outer)].quit_called
<1>1. /\ stack # <<>> /\ Top.pc = "exit" /\ stack' = outer /\ quit_pending' = quit
      /\ keep_running' = (Top.keep /\ ~quit)
      /\ task_execution_allowed' = (task_execution_allowed /\ ~Top.restore)
      /\ UNCHANGED <<state_, event_, seq, starvation, poster, unposted, started, ops, now>>
      /\ Scalars /\ StackOK /\ Control /\ AllQueues /\ seq \in Nat
  BY DEF ExitRun, At, IndInv, duplicator, Scalars
<1>2. \/ /\ Len(outer) = 1
         /\ queue' = [q \in Queues |-> RequeueDeferredNonNestableTasks(q)]
         /\ reload' = reload \ FilledByRequeue /\ deferred' = NoneDeferred
      \/ /\ Len(outer) # 1
         /\ UNCHANGED <<queue, reload, deferred>>
  BY DEF ExitRun
<1>3. /\ StackOK' /\ Len(stack) \in Nat \ {0} /\ Len(stack') = Len(stack) - 1
      /\ stack' = <<>> <=> Len(stack) = 1
      /\ stack' # <<>> => Top' \in Loops /\ Top'.pc = "run"
  BY <1>1, PopFacts
<1>4. quit \in BOOLEAN
  <2>1. CASE stack' = <<>>
    BY <1>1, <2>1
  <2>2. CASE stack' # <<>>
    <3>1. outer[Len(outer)] \in Loops
      BY <1>1, <1>3, <2>2 DEF Top
    <3> QED
      BY <3>1 DEF Loops
  <2> QED
    BY <2>1, <2>2
<1>5. Top \in Loops /\ (Len(stack) = 1 => ~Top.restore)
  BY <1>1, TopFacts
<1>6. Top.keep \in BOOLEAN /\ Top.restore \in BOOLEAN
  BY <1>5 DEF Loops
<1>7. Len(stack') = Len(outer)
  BY <1>1
<1> HIDE DEF quit, outer
<1>8. reload' \subseteq reload
  BY <1>2
<1>9. Scalars'
  BY <1>1, <1>4, <1>6, <1>8 DEF Scalars
<1>10. Callbacks = {} /\ Callbacks' = {}
  <2>1. Callbacks = {}
    BY <1>1, NoCallbacks
  <2>2. stack' # <<>> => Top'.callbacks = {}
    <3>1. stack' # <<>> => LoopOK(Top', seq')
      BY <1>3 DEF StackOK, Top
    <3> QED
      BY <1>3, <3>1 DEF LoopOK
  <2> QED
    BY <2>1, <2>2 DEF Callbacks
<1>11. AllQueues' /\ StartOrder' /\ Reloads'
  <2>1. CASE Len(outer) = 1
    BY <1>1, <1>2, <1>10, <2>1, RequeueKeeps
  <2>2. CASE Len(outer) # 1
    BY <1>1, <1>2, <1>10, <2>2, SameQueues, SameStarts, SameReloads DEF IndInv
  <2> QED
    BY <2>1, <2>2
<1>12. Control'
  <2>1. Bound'
    BY <1>1 DEF Control, Bound
  <2>2. quit_pending' => ~keep_running'
    BY <1>1, <1>4, <1>6
  <2>3. stack' = <<>> => task_execution_allowed'
    BY <1>1, <1>3, <1>5 DEF Control
  <2>4. Len(stack') = 1 => Top'.pc = "run"
    BY <1>3
  <2>5. Len(stack') <= 1 => deferred' = NoneDeferred
    <3>1. CASE Len(stack') = 1
      BY <1>2, <1>7, <3>1
    <3>2. CASE Len(stack') # 1
      <4>1. Len(stack') <= 1 => Len(stack) <= 1
        BY <1>3, <3>2
      <4> QED
        BY <1>1, <1>2, <1>7, <3>2, <4>1 DEF Control
    <3> QED
      BY <3>1, <3>2
  <2> QED
    BY <2>1, <2>2, <2>3, <2>4, <2>5 DEF Control
<1>13. Sleep'
  BY <1>3, Awake
<1> QED
  BY <1>3, <1>9, <1>11, <1>12, <1>13 DEF IndInv

\* The main thread calls a queue, in a task or outside any run loop.
LEMMA CallInv ==
  ASSUME IndInv, stack = <<>> \/ Top.pc = "run", NEW q \in Queues, NEW r, QueueStep(q, r),
         seq' \in Nat \ {0}, NEW b, ScheduleWork(b),
         UNCHANGED <<reload, stack, keep_running, quit_pending, task_execution_allowed,
                     poster, now>>
  PROVE  IndInv'
<1>1. Scalars /\ StackOK /\ Control /\ seq \in Nat /\ seq <= seq' /\ deferred' = deferred
  BY DEF IndInv, Scalars, QueueStep
<1>2. /\ AllQueues' /\ StartOrder'
      /\ \A x \in Queues : NeedsReload(queue'[x]) = NeedsReload(queue[x])
  BY QueueStepKeeps
<1>3. StackOK'
  BY <1>1, SameStack
<1>4. Top' = Top /\ Callbacks' = Callbacks
  BY DEF Top, Callbacks
<1>5. /\ state_' \in SUBSET {"InDoWork", "PendingDoWork", "Bound"} /\ event_' \in BOOLEAN
      /\ Bound => Bound'
  BY <1>1, ScheduleWorkFacts
<1>6. Scalars'
  BY <1>1, <1>5 DEF Scalars
<1>7. Control'
  BY <1>1, <1>4, <1>5 DEF Control
<1>8. Reloads'
  BY <1>2, <1>4, SameReloads DEF IndInv
<1>9. Sleep'
  BY <1>4, Awake
<1> QED
  BY <1>2, <1>3, <1>6, <1>7, <1>8, <1>9 DEF IndInv

\* A queue is enabled or disabled.
LEMMA SetQueueEnabledInv ==
  ASSUME IndInv, NEW q \in Queues, NEW b \in BOOLEAN, SetQueueEnabled(q, b)
  PROVE  IndInv'
<1> DEFINE r == Switched(queue[q], b)
<1>1. /\ Top.pc = "run" /\ seq \in Nat \ {0} /\ seq' = seq /\ AllQueues
      /\ UNCHANGED <<reload, deferred, stack, keep_running, quit_pending,
                     task_execution_allowed, poster, started, now>>
  BY DEF SetQueueEnabled, Op, InTask, At, IndInv, Scalars, main_only
<1>2. queue' = [queue EXCEPT ![q] = r]
  BY DEF SetQueueEnabled, Switched
<1>3. PICK x : ScheduleWork(x)
  BY DEF SetQueueEnabled
<1>4. QueueOK(q, queue[q], deferred[q], seq)
  BY <1>1 DEF AllQueues
<1>5. QueueOK(q, r, deferred[q], seq) /\ r.work = queue[q].work /\ r.incoming = queue[q].incoming
  BY <1>1, <1>4, QueueSwitch
<1> HIDE DEF r
<1>6. QueueStep(q, r)
  BY <1>1, <1>2, <1>5 DEF QueueStep
<1> QED
  BY <1>1, <1>3, <1>6, CallInv

\* A fence is set or removed.
LEMMA SetFenceInv ==
  ASSUME IndInv, NEW q \in Queues, NEW f, NEW i, SetFence(q, f, i), stack # <<>>,
         Top.pc = "run", seq' \in Nat \ {0}, seq <= seq', f \in 0..seq',
         UNCHANGED <<reload, deferred, stack, keep_running, quit_pending,
                     task_execution_allowed, poster, started, now>>
  PROVE  IndInv'
<1> DEFINE r == Fenced(queue[q], f)
<1>1. queue' = [queue EXCEPT ![q] = r]
  BY DEF SetFence, Fenced
<1>2. PICK x : ScheduleWork(x)
  BY DEF SetFence
<1>3. QueueOK(q, queue[q], deferred[q], seq) /\ seq \in Nat /\ seq' \in Nat
  BY DEF AllQueues, IndInv, Scalars
<1>4. QueueOK(q, r, deferred[q], seq') /\ r.work = queue[q].work /\ r.incoming = queue[q].incoming
  BY <1>3, QueueFence
<1> HIDE DEF r
<1>5. QueueStep(q, r)
  BY <1>1, <1>3, <1>4 DEF QueueStep
<1> QED
  BY <1>2, <1>5, CallInv

\* InsertFence().
LEMMA InsertFenceInv ==
  ASSUME IndInv, NEW q \in Queues, NEW b \in BOOLEAN, InsertFence(q, b)
  PROVE  IndInv'
<1> DEFINE f == IF b THEN kBlockingFence ELSE seq + 1
<1>1. /\ stack # <<>> /\ Top.pc = "run" /\ seq \in Nat \ {0}
      /\ seq' = IF b THEN seq ELSE seq + 1
      /\ UNCHANGED <<reload, deferred, stack, keep_running, quit_pending,
                     task_execution_allowed, poster, started, now>>
  BY DEF InsertFence, Op, InTask, At, IndInv, Scalars, main_only
<1>2. f \in 0..seq' /\ seq' \in Nat \ {0} /\ seq <= seq'
  BY <1>1 DEF kBlockingFence
<1>3. PICK i : SetFence(q, f, i)
  BY DEF InsertFence
<1> HIDE DEF f
<1> QED
  BY <1>1, <1>2, <1>3, SetFenceInv

\* RemoveFence().
LEMMA RemoveFenceInv ==
  ASSUME IndInv, NEW q \in Queues, RemoveFence(q)
  PROVE  IndInv'
<1>1. /\ stack # <<>> /\ Top.pc = "run" /\ seq \in Nat \ {0} /\ seq' = seq
      /\ UNCHANGED <<reload, deferred, stack, keep_running, quit_pending,
                     task_execution_allowed, poster, started, now>>
  BY DEF RemoveFence, Op, InTask, At, IndInv, Scalars, main_only
<1>2. kNone \in 0..seq' /\ seq' \in Nat \ {0} /\ seq <= seq'
  BY <1>1 DEF kNone
<1>3. PICK i : SetFence(q, kNone, i)
  BY DEF RemoveFence
<1> QED
  BY <1>1, <1>2, <1>3, SetFenceInv

\* PostImmediateTaskImpl() of any thread, to the queue q.
Posting(q, e) ==
  /\ e \in Entries /\ Immediate(q, seq + 1, e) /\ e.order = seq + 1
  /\ PostImmediateTaskImpl(q, e)
  /\ UNCHANGED <<deferred, stack, started>>

\* The queues after it.
LEMMA PostingQueues ==
  ASSUME IndInv, NEW q \in Queues, NEW e, Posting(q, e)
  PROVE  /\ AllQueues' /\ StackOK' /\ seq' \in Nat \ {0} /\ reload' \subseteq Queues
         /\ queue'[q] = Posted(queue[q], e)
         /\ \A x \in Queues : x # q => queue'[x] = queue[x]
<1>1. /\ AllQueues /\ StackOK /\ seq \in Nat /\ seq' = seq + 1 /\ e \in Entries
      /\ reload \subseteq Queues
  BY DEF IndInv, Scalars, Posting, PostImmediateTaskImpl
<1>2. seq' \in Nat \ {0} /\ seq <= seq'
  BY <1>1
<1>3. queue' = [queue EXCEPT ![q] = Posted(queue[q], e)]
  BY <1>1 DEF Posting, PostImmediateTaskImpl, Posted, AllQueues, Records
<1>4. QueueOK(q, queue[q], deferred[q], seq)
  BY <1>1 DEF AllQueues
<1>5. QueueOK(q, Posted(queue[q], e), deferred[q], seq')
  BY <1>1, <1>4, QueuePost DEF Posting
<1>6. AllQueues'
  BY <1>1, <1>2, <1>3, <1>5, OneRecordChanges DEF Posting
<1>7. StackOK'
  BY <1>1, <1>2, SameStack DEF Posting
<1>8. reload' \subseteq Queues
  BY <1>1 DEF Posting, PostImmediateTaskImpl
<1>9. queue'[q] = Posted(queue[q], e) /\ \A x \in Queues : x # q => queue'[x] = queue[x]
  BY <1>1, <1>3 DEF AllQueues
<1> QED
  BY <1>2, <1>6, <1>7, <1>8, <1>9

\* The fields of the queue, with what it was before.
PostedTo(q, e) ==
  LET r == queue[q]
      u == queue'[q]
  IN
  /\ u.work = r.work /\ Elems(u.incoming) = Elems(r.incoming) \cup {e} /\ u.incoming # <<>>
  /\ u.delayed_work = r.delayed_work /\ u.wake_up = r.wake_up
  /\ u.enabled = r.enabled /\ u.fence = r.fence /\ r.fence \in 0..seq
  /\ r.work_empty = (r.work = <<>>) /\ r.should_schedule = (r.enabled /\ r.fence = kNone)
  /\ r.work \in Seq(Entries) /\ r.incoming \in Seq(Entries)
\* How they change.
LEMMA PostingFields ==
  ASSUME IndInv, NEW q \in Queues, NEW e, Posting(q, e)
  PROVE  PostedTo(q, e)
<1>1. queue'[q] = Posted(queue[q], e) /\ e \in Entries
  BY PostingQueues DEF Posting
<1>2. QueueOK(q, queue[q], deferred[q], seq)
  BY DEF IndInv, AllQueues
<1>3. /\ queue[q] \in Records /\ queue[q].fence \in 0..seq
      /\ queue[q].work_empty = (queue[q].work = <<>>)
      /\ queue[q].should_schedule = (queue[q].enabled /\ queue[q].fence = kNone)
  BY <1>2 DEF QueueOK, Holds, Contents, Published
<1>4. queue[q].work \in Seq(Entries) /\ queue[q].incoming \in Seq(Entries)
  BY <1>3 DEF Records
<1>5. LET u == Posted(queue[q], e) IN
      /\ u.work = queue[q].work /\ Elems(u.incoming) = Elems(queue[q].incoming) \cup {e}
      /\ u.incoming # <<>> /\ u.delayed_work = queue[q].delayed_work
      /\ u.wake_up = queue[q].wake_up /\ u.enabled = queue[q].enabled
      /\ u.fence = queue[q].fence
  BY <1>1, <1>3, PostedFields
<1> QED
  BY <1>1, <1>3, <1>4, <1>5 DEF PostedTo

\* Its task is the last one, and its queue gets a reload unless it has one coming or work.
LEMMA PostingKeeps ==
  ASSUME IndInv, NEW q \in Queues, NEW e, Posting(q, e)
  PROVE  StartOrder' /\ Reloads' /\ Top' = Top /\ Callbacks' = Callbacks
<1>1. /\ AllQueues' /\ seq' \in Nat \ {0} /\ PostedTo(q, e)
      /\ \A x \in Queues : x # q => queue'[x] = queue[x]
  BY PostingQueues, PostingFields
<1>2. /\ StartOrder /\ Reloads /\ seq \in Nat /\ seq' = seq + 1 /\ seq <= seq'
      /\ UNCHANGED <<deferred, stack, started>> /\ e.order = seq + 1
      /\ reload' = IF WasEmpty(queue[q]) THEN reload \cup {q} ELSE reload
  BY DEF IndInv, Scalars, Posting, PostImmediateTaskImpl
<1>3. Top' = Top /\ Callbacks' = Callbacks
  BY <1>2 DEF Top, Callbacks
<1>4. StartOrder'
  <2>1. NewOnesLater
    <3> SUFFICES ASSUME NEW x \in Queues, NEW w \in Waiting(queue'[x], deferred'[x])
                 PROVE  w \in Waiting(queue[x], deferred[x]) \/ w.order = seq + 1
      BY DEF NewOnesLater
    <3>1. CASE x = q
      BY <1>1, <1>2, <3>1 DEF Waiting, PostedTo
    <3>2. CASE x # q
      BY <1>1, <1>2, <3>2
    <3> QED
      BY <3>1, <3>2
  <2> QED
    BY <1>1, <1>2, <2>1, NothingStarts
<1>5. Reloads'
  <2>1. NeedsReload(queue'[q]) <=> queue[q].work = <<>>
    BY <1>1 DEF NeedsReload, PostedTo
  <2>2. WasEmpty(queue[q]) <=> queue[q].work = <<>> /\ ~NeedsReload(queue[q])
    BY <1>1 DEF WasEmpty, NeedsReload, PostedTo
  <2>3. q \in reload' \cup Callbacks' <=> NeedsReload(queue'[q])
    BY <1>2, <1>3, <2>1, <2>2 DEF Reloads, NeedsReload
  <2>4. ASSUME NEW x \in Queues, x # q
        PROVE  x \in reload' \cup Callbacks' <=> NeedsReload(queue'[x])
    BY <1>1, <1>2, <1>3, <2>4 DEF Reloads
  <2>5. reload' \cap Callbacks' = {}
    BY <1>2, <1>3, <2>2 DEF Reloads
  <2> QED
    BY <2>3, <2>4, <2>5 DEF Reloads
<1> QED
  BY <1>3, <1>4, <1>5

\* MainPostTask: an immediate task, or a delayed one.
LEMMA MainPostTaskInv ==
  ASSUME IndInv, NEW t \in FromMain, MainPostTask(t)
  PROVE  IndInv'
<1> DEFINE q == QueueOf[t]
           e == Entry(t, FALSE, seq + 1, DelayedRunTime(t))
<1>1. /\ stack = <<>> \/ Top.pc = "run"
      /\ Scalars /\ StackOK /\ Control /\ AllQueues /\ seq \in Nat \ {0} /\ now \in Nat \ {0}
      /\ UNCHANGED <<deferred, stack, keep_running, quit_pending, task_execution_allowed,
                     poster, started, now>>
  BY DEF MainPostTask, MainFree, InTask, At, IndInv, Scalars, main_only
<1>2. t \in Tasks /\ q \in Queues /\ Delay[t] \in Nat
  BY Parameters
<1>3. /\ DelayedRunTime(t) \in Nat /\ (Delay[t] # 0 => DelayedRunTime(t) > 0)
  BY <1>1, <1>2 DEF DelayedRunTime, Never
<1>4. /\ e \in Entries /\ e.task = t /\ e.hop = FALSE /\ e.order = seq + 1
      /\ e.time = DelayedRunTime(t)
  BY <1>1, <1>2, <1>3 DEF Entry, Entries
<1>5. e.order \in 2..(seq + 1)
  <2>1. seq + 1 \in 2..(seq + 1)
    BY <1>1
  <2> HIDE DEF e
  <2> QED
    BY <1>4, <2>1
<1>6. QueueOf[e.task] = q
  BY <1>4
<1>7. CASE Delay[t] = 0
  <2>1. PostImmediateTaskImpl(q, e) /\ ScheduleWork(ImmediateShouldSchedule(q))
    BY <1>7 DEF MainPostTask
  <2> HIDE DEF e, q
  <2>2. Immediate(q, seq + 1, e)
    BY <1>4, <1>5, <1>6 DEF Immediate
  <2>3. Posting(q, e)
    BY <1>1, <1>4, <2>1, <2>2 DEF Posting
  <2>4. AllQueues' /\ StackOK' /\ seq' \in Nat \ {0} /\ reload' \subseteq Queues
    BY <1>2, <2>3, PostingQueues
  <2>5. StartOrder' /\ Reloads' /\ Top' = Top
    BY <1>2, <2>3, PostingKeeps
  <2>6. /\ state_' \in SUBSET {"InDoWork", "PendingDoWork", "Bound"} /\ event_' \in BOOLEAN
        /\ Bound => Bound'
    BY <1>1, <2>1, ScheduleWorkFacts
  <2>7. Scalars'
    BY <1>1, <2>4, <2>6 DEF Scalars
  <2>8. Control'
    BY <1>1, <2>5, <2>6 DEF Control
  <2>9. Sleep'
    BY <1>1, <2>5, Awake
  <2> QED
    BY <2>4, <2>5, <2>7, <2>8, <2>9 DEF IndInv
<1>8. CASE Delay[t] # 0
  <2> DEFINE r == UpdateDelayedWakeUp(PushDelayed(queue[q], e))
  <2>1. PushOntoDelayedIncomingQueueFromMainThread(q, e) /\ seq' = seq + 1 /\ reload' = reload
    BY <1>8 DEF MainPostTask
  <2>2. queue' = [queue EXCEPT ![q] = r]
    BY <2>1 DEF PushOntoDelayedIncomingQueueFromMainThread
  <2>3. PICK b : ScheduleWork(b)
    BY <2>1 DEF PushOntoDelayedIncomingQueueFromMainThread
  <2> HIDE DEF e, q
  <2>4. Delayed(q, seq + 1, e) /\ e.time > 0
    BY <1>2, <1>3, <1>4, <1>5, <1>6, <1>8 DEF Delayed
  <2>5. QueueOK(q, queue[q], deferred[q], seq) /\ seq + 1 \in Nat \ {0} /\ seq <= seq + 1
    BY <1>1, <1>2 DEF AllQueues
  <2>6. LET u == PushDelayed(queue[q], e) IN
        /\ Holds(q, u, deferred[q], seq + 1) /\ Published(u)
        /\ u.work = queue[q].work /\ u.incoming = queue[q].incoming
    BY <1>1, <1>4, <2>4, <2>5, HoldsPushed
  <2>7. /\ QueueOK(q, r, deferred[q], seq + 1)
        /\ r.work = queue[q].work /\ r.incoming = queue[q].incoming
    BY <2>5, <2>6, QueueWakeUp
  <2> HIDE DEF r
  <2>8. QueueStep(q, r)
    BY <1>1, <2>1, <2>2, <2>5, <2>7 DEF QueueStep
  <2> QED
    BY <1>1, <1>2, <2>1, <2>3, <2>5, <2>8, CallInv
<1> QED
  BY <1>7, <1>8

\* What a posted task makes runnable was so before, unless its thread asks for a DoWork.
LEMMA PostingRunnable ==
  ASSUME IndInv, NEW q \in Queues, NEW e, Posting(q, e)
  PROVE  /\ \A x \in Queues : Runnable(x)' => Runnable(x) \/ ImmediateShouldSchedule(q)
         /\ \A x \in reload' :
              IncomingRunnable(x)' =>
                \/ x \in reload /\ IncomingRunnable(x)
                \/ ImmediateShouldSchedule(q)
<1>1. /\ AllQueues /\ AllQueues' /\ PostedTo(q, e) /\ reload' \subseteq Queues
      /\ \A x \in Queues : x # q => queue'[x] = queue[x]
  BY PostingQueues, PostingFields DEF IndInv
<1>2. /\ Reloads /\ seq \in Nat /\ e.order = seq + 1
      /\ reload' = IF WasEmpty(queue[q]) THEN reload \cup {q} ELSE reload
  BY DEF IndInv, Scalars, Posting, PostImmediateTaskImpl
<1>3. \A f : CouldTaskRun(queue'[q], f) <=> CouldTaskRun(queue[q], f)
  BY <1>1 DEF CouldTaskRun, PostedTo
<1>4. CouldTaskRun(queue[q], e) => queue[q].should_schedule /\ \A f : CouldTaskRun(queue[q], f)
  <2>1. queue[q].fence \in 0..seq
    BY <1>1 DEF PostedTo
  <2>2. ~(e.order < queue[q].fence)
    BY <1>2, <2>1
  <2> QED
    BY <1>1, <2>2 DEF CouldTaskRun, PostedTo
<1>5. WasEmpty(queue[q]) <=> queue[q].incoming = <<>> /\ queue[q].work = <<>>
  BY <1>1 DEF WasEmpty, PostedTo
<1>6. ASSUME NEW x \in Queues, Runnable(x)', ~ImmediateShouldSchedule(q) PROVE Runnable(x)
  <2>1. PICK f \in Elems(queue'[x].incoming) \cup Elems(queue'[x].work)
                     \cup Elems(queue'[x].delayed_work) : CouldTaskRun(queue'[x], f)
    <3>1. Runnable(x)' <=> \E f \in Elems(queue'[x].incoming) \cup Elems(queue'[x].work)
                              \cup Elems(queue'[x].delayed_work) : CouldTaskRun(queue'[x], f)
      <4> DEFINE r == queue'[x]
      <4>1. r \in Records
        BY <1>1 DEF AllQueues
      <4>2. /\ r.incoming \in Seq(Entries) /\ r.work \in Seq(Entries)
            /\ r.delayed_work \in Seq(Entries)
        BY <4>1 DEF Records
      <4>3. /\ Range(r.incoming) = Elems(r.incoming) /\ Range(r.work) = Elems(r.work)
            /\ Range(r.delayed_work) = Elems(r.delayed_work)
        BY <4>2, ElemsType
      <4>4. Runnable(x)' <=> \E f \in UNION {Elems(r.incoming), Elems(r.work),
                                             Elems(r.delayed_work)} : CouldTaskRun(r, f)
        BY <4>3 DEF Runnable
      <4> QED
        BY <4>4
    <3> QED
      BY <1>6, <3>1
  <2>2. CASE x # q
    <3>1. queue'[x] = queue[x]
      BY <1>1, <2>2
    <3> QED
      BY <1>1, <2>1, <3>1, RunnableElems
  <2>3. CASE x = q
    <3>1. CouldTaskRun(queue[q], f)
      BY <1>3, <2>1, <2>3
    <3>2. CASE f # e
      <4>1. f \in Elems(queue[q].incoming) \cup Elems(queue[q].work) \cup Elems(queue[q].delayed_work)
        BY <1>1, <2>1, <2>3, <3>2 DEF PostedTo
      <4> QED
        BY <1>1, <2>3, <3>1, <4>1, RunnableElems
    <3>3. CASE f = e
      <4>1. ~WasEmpty(queue[q])
        BY <1>4, <1>6, <3>1, <3>3 DEF ImmediateShouldSchedule
      <4>2. PICK g \in Elems(queue[q].incoming) \cup Elems(queue[q].work) : TRUE
        BY <1>1, <1>5, <4>1, ElemsType DEF PostedTo
      <4>3. CouldTaskRun(queue[q], g)
        BY <1>4, <3>1, <3>3
      <4> QED
        BY <1>1, <2>3, <4>2, <4>3, RunnableElems
    <3> QED
      BY <3>2, <3>3
  <2> QED
    BY <2>2, <2>3
<1>7. ASSUME NEW x \in reload', IncomingRunnable(x)', ~ImmediateShouldSchedule(q)
      PROVE  x \in reload /\ IncomingRunnable(x)
  <2>1. PICK f \in Elems(queue'[x].incoming) : CouldTaskRun(queue'[x], f)
    BY <1>7 DEF IncomingRunnable
  <2>2. CASE x # q
    <3>1. queue'[x] = queue[x] /\ x \in reload
      BY <1>1, <1>2, <2>2
    <3> QED
      BY <2>1, <3>1 DEF IncomingRunnable
  <2>3. CASE x = q
    <3>1. CouldTaskRun(queue[q], f)
      BY <1>3, <2>1, <2>3
    <3>2. ~WasEmpty(queue[q])
      <4>1. ASSUME WasEmpty(queue[q]) PROVE FALSE
        <5>1. f = e
          BY <1>1, <1>5, <2>1, <2>3, <4>1, NoElems DEF PostedTo
        <5> QED
          BY <1>4, <1>7, <3>1, <4>1, <5>1 DEF ImmediateShouldSchedule
      <4> QED
        BY <4>1
    <3>3. q \in reload
      BY <1>2, <1>7, <2>3, <3>2
    <3>4. queue[q].incoming # <<>>
      BY <1>2, <3>3 DEF Reloads, NeedsReload
    <3>5. PICK g \in Elems(queue[q].incoming) : TRUE
      BY <1>1, <3>4, ElemsType DEF PostedTo
    <3>6. CASE f = e
      BY <1>4, <2>3, <3>1, <3>3, <3>5, <3>6 DEF IncomingRunnable
    <3>7. CASE f # e
      <4>1. f \in Elems(queue[q].incoming)
        BY <1>1, <2>1, <2>3, <3>7 DEF PostedTo
      <4> QED
        BY <2>3, <3>1, <3>3, <4>1 DEF IncomingRunnable
    <3> QED
      BY <3>6, <3>7
  <2> QED
    BY <2>2, <2>3
<1> QED
  BY <1>6, <1>7

\* PostTask by another thread.
LEMMA PostTaskInv ==
  ASSUME IndInv, NEW p \in Posters, NEW t \in FromOthers, PostTask(p, t)
  PROVE  IndInv'
<1> DEFINE q == QueueOf[t]
           e == Entry(t, Delay[t] > 0, seq + 1, DelayedRunTime(t))
           w == IF ImmediateShouldSchedule(q) THEN "request" ELSE "idle"
<1>1. /\ poster[p] = "idle" /\ PostImmediateTaskImpl(q, e)
      /\ poster' = [poster EXCEPT ![p] = w]
      /\ Scalars /\ Control /\ Sleep /\ AllQueues /\ seq \in Nat \ {0} /\ now \in Nat
      /\ UNCHANGED <<state_, event_, deferred, stack, keep_running, quit_pending,
                     task_execution_allowed, started, now>>
  BY DEF PostTask, IndInv, Scalars, main_only, duplicator
<1>2. t \in Tasks /\ q \in Queues /\ Delay[t] \in Nat
  BY Parameters
<1>3. DelayedRunTime(t) \in Nat
  BY <1>1, <1>2 DEF DelayedRunTime, Never
<1>4. e \in Entries /\ e.task = t /\ e.order = seq + 1 /\ (e.hop => Delay[t] > 0)
  <2> DEFINE h == (Delay[t] > 0)
  <2>1. h \in BOOLEAN /\ (h => Delay[t] > 0)
    OBVIOUS
  <2>2. e = [task |-> t, hop |-> h, order |-> seq + 1, time |-> DelayedRunTime(t)]
    BY DEF Entry
  <2> HIDE DEF h, e
  <2>3. e \in Entries /\ e.task = t /\ e.order = seq + 1 /\ e.hop = h
    BY <1>1, <1>2, <1>3, <2>1, <2>2 DEF Entries
  <2> QED
    BY <2>1, <2>3
<1>5. seq + 1 \in 2..(seq + 1)
  BY <1>1
<1>6. QueueOf[e.task] = q
  BY <1>4
<1>7. w \in {"request", "idle"} /\ (ImmediateShouldSchedule(q) => w = "request")
  OBVIOUS
<1> HIDE DEF e, q, w
<1>8. Immediate(q, seq + 1, e)
  BY <1>4, <1>5, <1>6 DEF Immediate
<1>9. Posting(q, e)
  BY <1>1, <1>4, <1>8 DEF Posting
<1>10. /\ AllQueues' /\ StackOK' /\ seq' \in Nat \ {0} /\ reload' \subseteq Queues
       /\ \A x \in Queues : x # q => queue'[x] = queue[x]
  BY <1>2, <1>9, PostingQueues
<1>11. StartOrder' /\ Reloads' /\ Top' = Top
  BY <1>2, <1>9, PostingKeeps
<1>12. Scalars'
  BY <1>1, <1>7, <1>10 DEF Scalars
<1>13. Control'
  BY <1>1, <1>11 DEF Control, Bound
<1>14. Sleep'
  <2>1. poster'[p] = w /\ \A x \in Posters : x # p => poster'[x] = poster[x]
    BY <1>1 DEF Scalars
  <2>2. Asked => Asked'
    BY <1>1, <2>1 DEF Asked
  <2>3. ImmediateShouldSchedule(q) => Asked' /\ poster'[p] = "request"
    BY <1>7, <2>1 DEF Asked
  <2>4. NextRunTime(queue)' = NextRunTime(queue)
    <3>1. \A x \in Queues : queue'[x].wake_up = queue[x].wake_up
      <4>1. PostedTo(q, e)
        BY <1>2, <1>9, PostingFields
      <4> QED
        BY <1>10, <4>1 DEF PostedTo
    <3>2. {queue'[x].wake_up : x \in Queues} = {queue[x].wake_up : x \in Queues}
      BY <3>1
    <3> QED
      BY <3>2 DEF NextRunTime
  <2>5. /\ \A x \in Queues : Runnable(x)' => Runnable(x) \/ ImmediateShouldSchedule(q)
        /\ \A x \in reload' :
             IncomingRunnable(x)' =>
               \/ x \in reload /\ IncomingRunnable(x)
               \/ ImmediateShouldSchedule(q)
    BY <1>2, <1>9, PostingRunnable
  <2>6. \A pc : At(pc)' <=> At(pc)
    BY <1>1, <1>11 DEF At
  <2>7. ASSUME At("check_reload") PROVE \A x \in reload' : IncomingRunnable(x)' => Asked'
    BY <1>1, <2>2, <2>3, <2>5, <2>7 DEF Sleep
  <2>8. Timed => Timed'
    BY <1>11, <2>4 DEF Timed
  <2>9. ASSUME At("did_check")
        PROVE  \/ Top'.immediate \/ ~task_execution_allowed' \/ quit_pending'
               \/ Timed' /\ \A x \in Queues : Runnable(x)' => Asked'
    BY <1>1, <1>11, <2>2, <2>3, <2>5, <2>8, <2>9 DEF Sleep
  <2>10. ASSUME At("wait")
         PROVE  /\ "InDoWork" \notin state_'
                /\ "PendingDoWork" \in state_' => event_' \/ \E x \in Posters : poster'[x] = "signal"
                /\ task_execution_allowed' =>
                     Timed' /\ ((\E x \in Queues : Runnable(x)') => WakeUpOnItsWay')
    <3>1. /\ "InDoWork" \notin state_
          /\ "PendingDoWork" \in state_ => event_ \/ \E x \in Posters : poster[x] = "signal"
          /\ task_execution_allowed =>
               Timed /\ ((\E x \in Queues : Runnable(x)) => WakeUpOnItsWay)
      BY <1>1, <2>10 DEF Sleep
    <3>2. "PendingDoWork" \in state_' => event_' \/ \E x \in Posters : poster'[x] = "signal"
      BY <1>1, <2>1, <3>1
    <3>3. WakeUpOnItsWay => WakeUpOnItsWay'
      BY <1>1, <2>1 DEF WakeUpOnItsWay
    <3>4. ImmediateShouldSchedule(q) => WakeUpOnItsWay'
      <4>1. CASE "PendingDoWork" \in state_
        BY <1>1, <3>2, <4>1 DEF WakeUpOnItsWay
      <4>2. CASE "PendingDoWork" \notin state_
        <5>1. "Bound" \in state_
          BY <1>1, <2>10 DEF At, Control, Bound
        <5>2. state_ = kIdle
          BY <1>1, <3>1, <4>2, <5>1 DEF Scalars, kIdle
        <5> QED
          BY <1>1, <2>3, <5>2 DEF WakeUpOnItsWay
      <4> QED
        BY <4>1, <4>2
    <3> QED
      BY <1>1, <2>5, <2>8, <3>1, <3>2, <3>3, <3>4
  <2> QED
    BY <2>6, <2>7, <2>9, <2>10 DEF Sleep
<1> QED
  BY <1>10, <1>11, <1>12, <1>13, <1>14 DEF IndInv

\* ScheduleWork() of another thread, and the signal to the pump: neither touches a queue.
PosterStep(p) ==
  /\ poster[p] # "idle"
  /\ UNCHANGED <<queue, reload, seq, deferred, stack, keep_running, quit_pending,
                 task_execution_allowed, started, now>>
  /\ "Bound" \in state_ => "Bound" \in state_'

\* What they keep.
LEMMA PosterStepKeeps ==
  ASSUME IndInv, NEW p, PosterStep(p)
  PROVE  /\ AllQueues' /\ StackOK' /\ StartOrder' /\ Control' /\ Reloads'
         /\ (Timed => Timed') /\ \A pc : At(pc)' <=> At(pc)
         /\ \A q \in Queues : (Runnable(q)' <=> Runnable(q))
                              /\ (IncomingRunnable(q)' <=> IncomingRunnable(q))
<1>1. seq \in Nat /\ seq' = seq /\ seq <= seq'
  BY DEF IndInv, Scalars, PosterStep
<1>2. AllQueues' /\ StackOK' /\ StartOrder'
  BY <1>1, SameQueues, SameStack, SameStarts DEF IndInv, PosterStep
<1>3. Top' = Top /\ Callbacks' = Callbacks
  BY DEF PosterStep, Top, Callbacks
<1>4. Control'
  BY <1>3 DEF IndInv, Control, PosterStep, Bound
<1>5. Reloads'
  BY <1>3, SameReloads DEF IndInv, PosterStep
<1>6. NextRunTime(queue)' = NextRunTime(queue)
  BY DEF NextRunTime, PosterStep
<1>7. (Timed => Timed') /\ \A pc : At(pc)' <=> At(pc)
  BY <1>3, <1>6 DEF Timed, At, PosterStep
<1>8. \A q \in Queues : (Runnable(q)' <=> Runnable(q))
                        /\ (IncomingRunnable(q)' <=> IncomingRunnable(q))
  BY DEF Runnable, IncomingRunnable, PosterStep
<1> QED
  BY <1>2, <1>4, <1>5, <1>7, <1>8

\* Sleep is kept if requests are not lost on their way.
LEMMA PosterStepSleep ==
  ASSUME IndInv, NEW p, PosterStep(p), Asked => Asked',
         At("wait") => /\ "InDoWork" \notin state_'
                       /\ WakeUpOnItsWay => WakeUpOnItsWay'
                       /\ "PendingDoWork" \in state_' =>
                            event_' \/ \E x \in Posters : poster'[x] = "signal"
  PROVE  Sleep'
<1>1. /\ (Timed => Timed') /\ \A pc : At(pc)' <=> At(pc)
      /\ \A q \in Queues : (Runnable(q)' <=> Runnable(q))
                           /\ (IncomingRunnable(q)' <=> IncomingRunnable(q))
  BY PosterStepKeeps
<1>2. Top' = Top /\ reload' = reload /\ reload \subseteq Queues /\ Sleep
      /\ UNCHANGED <<task_execution_allowed, quit_pending>>
  BY DEF PosterStep, Top, IndInv, Scalars
<1>3. ASSUME At("check_reload") PROVE \A x \in reload' : IncomingRunnable(x)' => Asked'
  BY <1>1, <1>2, <1>3 DEF Sleep
<1>4. ASSUME At("did_check")
      PROVE  \/ Top'.immediate \/ ~task_execution_allowed' \/ quit_pending'
             \/ Timed' /\ \A x \in Queues : Runnable(x)' => Asked'
  BY <1>1, <1>2, <1>4 DEF Sleep
<1>5. ASSUME At("wait"), task_execution_allowed'
      PROVE  Timed' /\ ((\E x \in Queues : Runnable(x)') => WakeUpOnItsWay')
  BY <1>1, <1>2, <1>5 DEF Sleep
<1> QED
  BY <1>1, <1>3, <1>4, <1>5 DEF Sleep

\* RequestWork by another thread.
LEMMA RequestWorkInv ==
  ASSUME IndInv, NEW p \in Posters, RequestWork(p)
  PROVE  IndInv'
<1> DEFINE w == IF state_ = kIdle THEN "signal" ELSE "idle"
<1>1. /\ poster[p] = "request" /\ state_' = state_ \cup {"PendingDoWork"} /\ event_' = event_
      /\ poster' = [poster EXCEPT ![p] = w] /\ Scalars /\ Control /\ Sleep
      /\ UNCHANGED <<queue, reload, seq, deferred, stack, keep_running, quit_pending,
                     task_execution_allowed, started, now>>
  BY DEF RequestWork, OnWorkRequested, IndInv, main_only
<1>2. PosterStep(p)
  BY <1>1 DEF PosterStep
<1>3. AllQueues' /\ StackOK' /\ StartOrder' /\ Control' /\ Reloads'
  BY <1>2, PosterStepKeeps
<1>4. w \in {"signal", "idle"} /\ (state_ = kIdle => w = "signal")
  OBVIOUS
<1> HIDE DEF w
<1>5. Scalars'
  BY <1>1, <1>4 DEF Scalars
<1>6. Asked'
  BY <1>1 DEF Asked
<1>7. poster'[p] = w /\ \A x \in Posters : x # p => poster'[x] = poster[x]
  BY <1>1 DEF Scalars
<1>8. ASSUME At("wait")
      PROVE  /\ "InDoWork" \notin state_'
             /\ event_' \/ \E x \in Posters : poster'[x] = "signal"
  <2>1. /\ "InDoWork" \notin state_ /\ "Bound" \in state_
        /\ "PendingDoWork" \in state_ => event_ \/ \E x \in Posters : poster[x] = "signal"
    BY <1>1, <1>8 DEF Sleep, At, Control, Bound
  <2>2. "InDoWork" \notin state_'
    BY <1>1, <2>1
  <2>3. CASE state_ = kIdle
    BY <1>4, <1>7, <2>2, <2>3
  <2>4. CASE state_ # kIdle
    <3>1. "PendingDoWork" \in state_
      BY <1>1, <2>1, <2>4 DEF Scalars, kIdle
    <3> QED
      BY <1>1, <1>7, <2>1, <2>2, <3>1
  <2> QED
    BY <2>3, <2>4
<1>9. At("wait") => WakeUpOnItsWay'
  BY <1>8 DEF WakeUpOnItsWay
<1>10. Sleep'
  BY <1>2, <1>6, <1>8, <1>9, PosterStepSleep
<1> QED
  BY <1>3, <1>5, <1>10 DEF IndInv

\* SignalPump by another thread.
LEMMA SignalPumpInv ==
  ASSUME IndInv, NEW p \in Posters, SignalPump(p)
  PROVE  IndInv'
<1>1. /\ poster[p] = "signal" /\ state_' = state_ /\ event_' = TRUE
      /\ poster' = [poster EXCEPT ![p] = "idle"] /\ Scalars /\ Control /\ Sleep
      /\ UNCHANGED <<queue, reload, seq, deferred, stack, keep_running, quit_pending,
                     task_execution_allowed, started, now>>
  BY DEF SignalPump, IndInv, main_only
<1>2. PosterStep(p)
  BY <1>1 DEF PosterStep
<1>3. AllQueues' /\ StackOK' /\ StartOrder' /\ Control' /\ Reloads'
  BY <1>2, PosterStepKeeps
<1>4. Scalars'
  BY <1>1 DEF Scalars
<1>5. Asked => Asked'
  BY <1>1 DEF Asked, Scalars
<1>6. WakeUpOnItsWay' /\ event_'
  BY <1>1 DEF WakeUpOnItsWay
<1>7. At("wait") => "InDoWork" \notin state_'
  BY <1>1 DEF Sleep
<1>8. Sleep'
  BY <1>2, <1>5, <1>6, <1>7, PosterStepSleep
<1> QED
  BY <1>3, <1>4, <1>8 DEF IndInv

\* A step that changes no variable of the invariant but the clock.
LEMMA TickInv ==
  ASSUME IndInv, now' \in Nat \ {0},
         UNCHANGED <<state_, event_, queue, reload, seq, deferred, stack, keep_running,
                     quit_pending, task_execution_allowed, poster, started>>
  PROVE  IndInv'
<1>1. seq \in Nat /\ seq' = seq /\ seq <= seq'
  BY DEF IndInv, Scalars
<1>2. AllQueues' /\ StackOK' /\ StartOrder'
  BY <1>1, SameQueues, SameStack, SameStarts DEF IndInv
<1>3. Top' = Top /\ Callbacks' = Callbacks
  BY DEF Top, Callbacks
<1>4. Control'
  BY <1>3 DEF IndInv, Control, Bound
<1>5. Reloads'
  BY <1>3, SameReloads DEF IndInv
<1>6. Scalars'
  BY DEF IndInv, Scalars
<1>7. Sleep'
  <2>1. NextRunTime(queue)' = NextRunTime(queue)
    BY DEF NextRunTime
  <2>2. (Timed' <=> Timed) /\ (Asked' <=> Asked) /\ (WakeUpOnItsWay' <=> WakeUpOnItsWay)
    BY <1>3, <2>1 DEF Timed, Asked, WakeUpOnItsWay
  <2>3. \A q : (Runnable(q)' <=> Runnable(q)) /\ (IncomingRunnable(q)' <=> IncomingRunnable(q))
    BY DEF Runnable, IncomingRunnable
  <2>4. \A pc : At(pc)' <=> At(pc)
    BY <1>3 DEF At
  <2> QED
    BY <1>3, <2>2, <2>3, <2>4 DEF IndInv, Sleep
<1> QED
  BY <1>2, <1>4, <1>5, <1>6, <1>7 DEF IndInv

-----------------------------------------------------------------------------
(***************************************************************************)
(* The invariant, and the theorems.                                        *)
(***************************************************************************)

\* The initial state.
LEMMA InitInv ==
  ASSUME Init
  PROVE  IndInv
<1>1. /\ state_ = {} /\ event_ = FALSE /\ queue = [q \in Queues |-> NewQueue] /\ reload = {}
      /\ seq = 1 /\ deferred = NoneDeferred /\ stack = <<>> /\ keep_running = TRUE
      /\ quit_pending = FALSE /\ task_execution_allowed = TRUE
      /\ poster = [p \in Posters |-> "idle"] /\ started = <<>> /\ now = 1
  BY DEF Init, kBlockingFence
<1>2. Scalars
  <2>1. poster \in [Posters -> {"idle", "request", "signal"}]
    BY <1>1
  <2>2. /\ state_ \in SUBSET {"InDoWork", "PendingDoWork", "Bound"} /\ reload \in SUBSET Queues
        /\ seq \in Nat \ {0} /\ now \in Nat \ {0}
    BY <1>1
  <2>3. /\ event_ \in BOOLEAN /\ keep_running \in BOOLEAN /\ quit_pending \in BOOLEAN
        /\ task_execution_allowed \in BOOLEAN
    BY <1>1, Zenon
  <2> QED
    BY <2>1, <2>2, <2>3 DEF Scalars
<1>3. /\ NewQueue \in Records /\ NewQueue.work = <<>> /\ NewQueue.incoming = <<>>
      /\ NewQueue.delayed_work = <<>> /\ NewQueue.delayed_incoming = {} /\ NewQueue.fence = 0
      /\ Published(NewQueue)
  <2>1. <<>> \in Seq(Entries) /\ {} \in SUBSET Entries /\ 0 \in Nat /\ TRUE \in BOOLEAN
    OBVIOUS
  <2>2. /\ NewQueue.work = <<>> /\ NewQueue.incoming = <<>> /\ NewQueue.delayed_work = <<>>
        /\ NewQueue.delayed_incoming = {} /\ NewQueue.fence = 0
    BY DEF NewQueue, kNone
  <2>3. NewQueue.work_empty = TRUE /\ NewQueue.should_schedule = TRUE /\ NewQueue.enabled = TRUE
    BY Zenon DEF NewQueue
  <2>4. NewQueue \in Records
    BY <2>1 DEF NewQueue, Records, Never, kNone
  <2>5. Published(NewQueue)
    BY <2>2, <2>3, Zenon DEF Published, kNone
  <2> QED
    BY <2>2, <2>4, <2>5
<1>4. /\ NoBacklog \in Backlogs /\ NoBacklog.immediate = <<>> /\ NoBacklog.delayed = <<>>
      /\ NoneDeferred = [q \in Queues |-> NoBacklog]
  BY DEF NoBacklog, Backlogs, NoneDeferred
<1>5. AllQueues
  <2>1. ASSUME NEW q PROVE QueueOK(q, NewQueue, NoBacklog, 1)
    <3>1. Contents(q, NewQueue, NoBacklog, 1)
      BY <1>3, <1>4, NoElems, FS_EmptySet DEF Contents
    <3>2. Orders(NewQueue, NoBacklog)
      BY <1>3, <1>4, NoElems DEF Orders, Below
    <3>3. Wakes(NewQueue)
      BY <1>3 DEF Wakes
    <3> QED
      BY <1>3, <1>4, <3>1, <3>2, <3>3 DEF QueueOK, Holds
  <2> QED
    BY <1>1, <1>3, <1>4, <2>1 DEF AllQueues
<1>6. StackOK
  BY <1>1 DEF StackOK
<1>7. Control
  BY <1>1 DEF Control
<1>8. Reloads
  BY <1>1, <1>3 DEF Reloads, Callbacks, NeedsReload
<1>9. Sleep
  BY <1>1 DEF Sleep, At
<1>10. StartOrder
  BY <1>1, NoElems DEF StartOrder, StartsInPostingOrder
<1> QED
  BY <1>2, <1>5, <1>6, <1>7, <1>8, <1>9, <1>10 DEF IndInv

\* The steps of the main thread.
LEMMA LoopStepsInv ==
  ASSUME IndInv, LoopSteps
  PROVE  IndInv'
<1>1. CASE DoSomeWork
  BY <1>1, DoSomeWorkInv
<1>2. CASE SelectNextTask
  BY <1>2, SelectNextTaskInv
<1>3. CASE \E q \in Queues : ReloadEmptyImmediateWorkQueue(q)
  BY <1>3, ReloadInv
<1>4. CASE MoveReadyDelayedTasksToWorkQueues
  BY <1>4, MoveReadyInv
<1>5. CASE PickTask
  BY <1>5, PickTaskInv
<1>6. CASE EndTask
  BY <1>6, EndTaskInv
<1>7. CASE HopTask
  BY <1>7, HopTaskInv
<1>8. CASE WillCheckForMoreWork
  BY <1>8, WillCheckInv
<1>9. CASE DelayTillNextTask
  BY <1>9, DelayTillNextTaskInv
<1>10. CASE DelayTillNextTaskReloaded
  BY <1>10, DelayTillNextTaskReloadedInv
<1>11. CASE DidCheck
  BY <1>11, DidCheckInv
<1>12. CASE PumpWakesUp
  BY <1>12, PumpWakesUpInv
<1>13. CASE ExitRun
  BY <1>13, ExitRunInv
<1> QED
  BY <1>1, <1>2, <1>3, <1>4, <1>5, <1>6, <1>7, <1>8, <1>9, <1>10, <1>11, <1>12, <1>13
     DEF LoopSteps

\* The calls that running tasks make.
LEMMA CallsInv ==
  ASSUME IndInv, Calls
  PROVE  IndInv'
<1>1. CASE \E b, u \in BOOLEAN : RunNested(b, u)
  BY <1>1, RunNestedInv
<1>2. CASE \E b \in BOOLEAN : SetTaskExecutionAllowed(b)
  BY <1>2, SetTaskExecutionAllowedInv
<1>3. CASE \E k \in 1..Len(stack) : Quit(k) \/ QuitWhenIdle(k)
  BY <1>3, QuitInv
<1>4. CASE \E q \in Queues, b \in BOOLEAN : SetQueueEnabled(q, b) \/ InsertFence(q, b)
  BY <1>4, SetQueueEnabledInv, InsertFenceInv
<1>5. CASE \E q \in Queues : RemoveFence(q)
  BY <1>5, RemoveFenceInv
<1> QED
  BY <1>1, <1>2, <1>3, <1>4, <1>5 DEF Calls

\* Every step keeps the invariant.
LEMMA NextInv ==
  ASSUME IndInv, [Next]_vars
  PROVE  IndInv'
<1>1. CASE \E p \in Posters : PosterSteps(p) \/ \E t \in FromOthers : PostTask(p, t)
  BY <1>1, RequestWorkInv, SignalPumpInv, PostTaskInv DEF PosterSteps
<1>2. CASE MainSteps
  <2>1. \A b \in OutermostUntilIdle : b \in BOOLEAN
    BY Parameters
  <2> QED
    BY <1>2, <2>1, BindInv, LoopStepsInv, RunInv DEF MainSteps
<1>3. CASE Calls
  BY <1>3, CallsInv
<1>4. CASE \E t \in FromMain : MainPostTask(t)
  BY <1>4, MainPostTaskInv
<1>5. CASE Tick
  <2>1. now' \in Nat \ {0}
    BY <1>5 DEF Tick, IndInv, Scalars
  <2> QED
    BY <1>5, <2>1, TickInv DEF Tick, duplicator, main_only
<1>6. CASE vars' = vars
  <2>1. now' \in Nat \ {0}
    BY <1>6 DEF vars, IndInv, Scalars
  <2> QED
    BY <1>6, <2>1, TickInv DEF vars
<1> QED
  BY <1>1, <1>2, <1>3, <1>4, <1>5, <1>6 DEF Next

\* The queues, the flags that other threads read, the run loops, and what the threads have
\* asked for stay in step with each other, in every run of the scheduler.
THEOREM Invariance == Spec => []IndInv
<1>1. Init => IndInv
  BY InitInv
<1>2. IndInv /\ [Next]_vars => IndInv'
  BY NextInv
<1> QED
  BY <1>1, <1>2, PTL DEF Spec

-----------------------------------------------------------------------------
(***************************************************************************)
(* No task is lost or duplicated: a second invariant on top of the first.  *)
(* Which work queue has an entry does not matter to it, only whether it is *)
(* an immediate one, a delayed one that is due or one that is not.         *)
(***************************************************************************)
Imm(r, d) == Elems(r.incoming) \cup Elems(r.work) \cup Elems(d.immediate)
Del(r, d) == Elems(r.delayed_work) \cup Elems(d.delayed)

\* Different entries are of different tasks, and the three kinds have none in common.
Apart(I, D, W) ==
  /\ \A e, f \in I \cup D \cup W : e.task = f.task => e = f
  /\ \A e \in I : e.hop \/ Delay[e.task] = 0
  /\ \A e \in D \cup W : ~e.hop /\ Delay[e.task] > 0
  /\ D \cap W = {}
HasIn(S, t) == \E e \in S : e.task = t

Distinct(r, d) == Apart(Imm(r, d), Del(r, d), r.delayed_incoming)
Has(r, d, t) == HasIn(Imm(r, d) \cup Del(r, d) \cup r.delayed_incoming, t)
Keeps(r, d, u, f) == Distinct(u, f) /\ \A t : Has(u, f, t) <=> Has(r, d, t)
Gains(r, d, u, f, x) == Distinct(u, f) /\ \A t : Has(u, f, t) <=> Has(r, d, t) \/ t = x
Loses(r, d, u, f, x) == Distinct(u, f) /\ \A t : Has(u, f, t) <=> Has(r, d, t) /\ t # x

\* A task in none of the sets may be added to the immediate ones.
LEMMA ApartPost ==
  ASSUME NEW I, NEW D, NEW W, Apart(I, D, W), NEW e, e.hop \/ Delay[e.task] = 0,
         ~HasIn(I \cup D \cup W, e.task)
  PROVE  /\ Apart(I \cup {e}, D, W)
         /\ \A t : HasIn((I \cup {e}) \cup D \cup W, t) <=> HasIn(I \cup D \cup W, t) \/ t = e.task
  BY DEF Apart, HasIn

\* Or to the delayed ones.
LEMMA ApartPush ==
  ASSUME NEW I, NEW D, NEW W, Apart(I, D, W), NEW e, ~e.hop, Delay[e.task] > 0,
         ~HasIn(I \cup D \cup W, e.task)
  PROVE  /\ Apart(I, D, W \cup {e})
         /\ \A t : HasIn(I \cup D \cup (W \cup {e}), t) <=> HasIn(I \cup D \cup W, t) \/ t = e.task
  BY DEF Apart, HasIn

\* An immediate task is taken.
LEMMA ApartTake ==
  ASSUME NEW I, NEW D, NEW W, NEW J, NEW e, Apart(I, D, W), I = J \cup {e}, e \notin J,
         Delay[e.task] \in Nat
  PROVE  /\ Apart(J, D, W)
         /\ \A t : HasIn(J \cup D \cup W, t) <=> HasIn(I \cup D \cup W, t) /\ t # e.task
<1>1. Apart(J, D, W)
  BY DEF Apart
<1>2. e \notin J \cup D \cup W
  BY DEF Apart
<1>3. \A x \in J \cup D \cup W : x.task # e.task
  BY <1>2 DEF Apart
<1> QED
  BY <1>1, <1>3 DEF HasIn

\* A delayed task that was due is taken.
LEMMA ApartTakeDelayed ==
  ASSUME NEW I, NEW D, NEW W, NEW J, NEW e, Apart(I, D, W), D = J \cup {e}, e \notin J,
         Delay[e.task] \in Nat
  PROVE  /\ Apart(I, J, W)
         /\ \A t : HasIn(I \cup J \cup W, t) <=> HasIn(I \cup D \cup W, t) /\ t # e.task
<1>1. Apart(I, J, W)
  BY DEF Apart
<1>2. e \notin I \cup J \cup W
  BY DEF Apart
<1>3. \A x \in I \cup J \cup W : x.task # e.task
  BY <1>2 DEF Apart
<1> QED
  BY <1>1, <1>3 DEF HasIn

\* M is the tasks of R with new sequence numbers.
Renumbers(M, R) ==
  /\ \A m \in M : ~m.hop /\ \E e \in R : e.task = m.task
  /\ \A e \in R : \E m \in M : m.task = e.task
  /\ \A m, n \in M : m.task = n.task => m = n

\* Tasks become due.
LEMMA ApartMove ==
  ASSUME NEW I, NEW D, NEW W, NEW R, NEW M, Apart(I, D, W), R \subseteq W, Renumbers(M, R),
         \A e \in I \cup D \cup W : Delay[e.task] \in Nat
  PROVE  /\ Apart(I, D \cup M, W \ R)
         /\ \A t : HasIn(I \cup (D \cup M) \cup (W \ R), t) <=> HasIn(I \cup D \cup W, t)
<1>1. ASSUME NEW m \in M, NEW x \in I \cup D \cup (W \ R) PROVE m.task # x.task
  <2>1. PICK e \in R : e.task = m.task
    BY DEF Renumbers
  <2>2. e \in W /\ e # x
    BY <1>1, <2>1 DEF Apart
  <2> QED
    BY <1>1, <2>1, <2>2 DEF Apart
<1>2. \A m \in M : ~m.hop /\ Delay[m.task] > 0
  BY DEF Renumbers, Apart
<1>3. M \cap (W \ R) = {}
  BY <1>1
<1>4. Apart(I, D \cup M, W \ R)
  <2>1. \A e, f \in I \cup (D \cup M) \cup (W \ R) : e.task = f.task => e = f
    <3>1. ASSUME NEW e \in I \cup D \cup (W \ R), NEW f \in I \cup D \cup (W \ R), e.task = f.task
          PROVE  e = f
      BY <3>1 DEF Apart
    <3>2. \A m, n \in M : m.task = n.task => m = n
      BY DEF Renumbers
    <3> QED
      BY <1>1, <3>1, <3>2
  <2> QED
    BY <1>2, <1>3, <2>1 DEF Apart
<1>5. \A t : HasIn(M, t) <=> HasIn(R, t)
  BY DEF HasIn, Renumbers
<1>6. \A t : HasIn(I \cup (D \cup M) \cup (W \ R), t) <=> HasIn(I \cup D \cup W, t)
  BY <1>5 DEF HasIn
<1> QED
  BY <1>4, <1>6

\* A heap gives every task once.
LEMMA HeapOrderAll ==
  ASSUME NEW S, S \subseteq Entries, IsFiniteSet(S), NEW ripe \in HeapOrders(S)
  PROVE  /\ Elems(ripe) = S
         /\ \A i, j \in 1..Len(ripe) : ripe[i] = ripe[j] => i = j
<1>1. Cardinality(S) \in Nat
  BY FS_CardinalityType
<1> DEFINE n == Cardinality(S)
<1>2. ripe \in [1..n -> S] /\ \A i, j \in 1..n : i < j => RunsBefore(ripe[i], ripe[j])
  BY DEF HeapOrders
<1> HIDE DEF n
<1>3. n \in Nat
  BY <1>1 DEF n
<1>4. ripe \in Seq(S) /\ Len(ripe) = n
  BY <1>2, <1>3
<1>5. ASSUME NEW i \in 1..n, NEW j \in 1..n, ripe[i] = ripe[j] PROVE i = j
  <2>1. ASSUME NEW e \in Entries PROVE ~RunsBefore(e, e)
    BY DEF RunsBefore, Entries
  <2>2. ripe[i] \in Entries
    BY <1>2
  <2>3. ~(i < j) /\ ~(j < i)
    BY <1>2, <1>5, <2>1, <2>2
  <2> QED
    BY <1>3, <2>3
<1>6. ripe \in Injection(1..n, S)
  BY <1>2, <1>5 DEF Injection, IsInjective
<1>7. Cardinality(1..n) = n
  BY <1>3, FS_Interval
<1>8. ripe \in Surjection(1..n, S)
  BY <1>6, <1>7, FS_Injection DEF n
<1>9. Elems(ripe) = S
  BY <1>2, <1>4, <1>8 DEF Elems, Surjection
<1> QED
  BY <1>4, <1>5, <1>9

\* What happens to the tasks of a queue depends on the three sets only.
LEMMA KeepsSame ==
  ASSUME NEW r, NEW d, NEW u, NEW f, Distinct(r, d), Imm(u, f) = Imm(r, d),
         Del(u, f) = Del(r, d), u.delayed_incoming = r.delayed_incoming
  PROVE  Keeps(r, d, u, f)
  BY DEF Keeps, Distinct, Has

\* A change of flags.
LEMMA KeepsFlags ==
  ASSUME NEW r, NEW d, NEW u, Distinct(r, d), SameTasks(r, u)
  PROVE  Keeps(r, d, u, d)
<1>1. Imm(u, d) = Imm(r, d) /\ Del(u, d) = Del(r, d) /\ u.delayed_incoming = r.delayed_incoming
  BY DEF SameTasks, Imm, Del
<1> QED
  BY <1>1, KeepsSame

\* PostImmediateTaskImpl().
LEMMA PostGains ==
  ASSUME NEW r \in Records, NEW d, NEW e \in Entries, Distinct(r, d), ~Has(r, d, e.task),
         e.hop \/ Delay[e.task] = 0
  PROVE  Gains(r, d, Posted(r, e), d, e.task)
<1> DEFINE u == Posted(r, e)
<1>1. /\ u.work = r.work /\ Elems(u.incoming) = Elems(r.incoming) \cup {e}
      /\ u.delayed_work = r.delayed_work /\ u.delayed_incoming = r.delayed_incoming
  BY PostedFields
<1> HIDE DEF u
<1>2. Imm(u, d) = Imm(r, d) \cup {e} /\ Del(u, d) = Del(r, d)
  BY <1>1 DEF Imm, Del
<1>3. /\ Apart(Imm(r, d) \cup {e}, Del(r, d), r.delayed_incoming)
      /\ \A t : HasIn((Imm(r, d) \cup {e}) \cup Del(r, d) \cup r.delayed_incoming, t)
                  <=> HasIn(Imm(r, d) \cup Del(r, d) \cup r.delayed_incoming, t) \/ t = e.task
  BY ApartPost DEF Distinct, Has
<1>4. Gains(r, d, u, d, e.task)
  BY <1>1, <1>2, <1>3 DEF Gains, Distinct, Has
<1> QED
  BY <1>4 DEF u

\* The queue of delayed tasks gets one.
LEMMA PushGains ==
  ASSUME NEW r \in Records, NEW d, NEW e \in Entries, Distinct(r, d), ~Has(r, d, e.task),
         ~e.hop, Delay[e.task] > 0
  PROVE  Gains(r, d, PushDelayed(r, e), d, e.task)
<1> DEFINE u == PushDelayed(r, e)
<1>1. /\ u.work = r.work /\ u.incoming = r.incoming /\ u.delayed_work = r.delayed_work
      /\ u.delayed_incoming = r.delayed_incoming \cup {e}
  BY PushedFields
<1> HIDE DEF u
<1>2. Imm(u, d) = Imm(r, d) /\ Del(u, d) = Del(r, d)
  BY <1>1 DEF Imm, Del
<1>3. /\ Apart(Imm(r, d), Del(r, d), r.delayed_incoming \cup {e})
      /\ \A t : HasIn(Imm(r, d) \cup Del(r, d) \cup (r.delayed_incoming \cup {e}), t)
                  <=> HasIn(Imm(r, d) \cup Del(r, d) \cup r.delayed_incoming, t) \/ t = e.task
  BY ApartPush DEF Distinct, Has
<1>4. Gains(r, d, u, d, e.task)
  BY <1>1, <1>2, <1>3 DEF Gains, Distinct, Has
<1> QED
  BY <1>4 DEF u

\* A reload replaces an empty work queue.
LEMMA ReloadKeeps ==
  ASSUME NEW q, NEW r, NEW d, NEW n \in Nat, QueueOK(q, r, d, n), r.work = <<>>, Distinct(r, d)
  PROVE  Keeps(r, d, TakeImmediateIncomingQueueTasks(r), d)
<1> DEFINE u == TakeImmediateIncomingQueueTasks(r)
<1>1. /\ u.work = r.incoming /\ u.incoming = <<>>
      /\ u.delayed_work = r.delayed_work /\ u.delayed_incoming = r.delayed_incoming
  BY QueueReload DEF QueueOK
<1> HIDE DEF u
<1>2. Imm(u, d) = Imm(r, d) /\ Del(u, d) = Del(r, d)
  BY <1>1, NoElems DEF Imm, Del
<1>3. Keeps(r, d, u, d)
  BY <1>1, <1>2, KeepsSame
<1> QED
  BY <1>3 DEF u

\* UpdateDelayedWakeUp().
LEMMA WakeUpKeeps ==
  ASSUME NEW q, NEW r, NEW d, NEW n \in Nat, Holds(q, r, d, n), Distinct(r, d)
  PROVE  Keeps(r, d, UpdateDelayedWakeUp(r), d)
<1>1. r \in Records /\ \A e \in r.delayed_incoming : e.time > 0
  BY DEF Holds, Contents
<1>2. SameTasks(r, UpdateDelayedWakeUp(r))
  BY <1>1, DelayedWakeUp
<1> QED
  BY <1>2, KeepsFlags

\* SetQueueEnabled().
LEMMA SwitchKeeps ==
  ASSUME NEW q, NEW r, NEW d, NEW n \in Nat, QueueOK(q, r, d, n), NEW b \in BOOLEAN,
         Distinct(r, d)
  PROVE  Keeps(r, d, Switched(r, b), d)
<1> DEFINE v == [r EXCEPT !.enabled = b]
           w == UpdateDelayedWakeUp(v)
<1>1. r \in Records /\ \A e \in r.delayed_incoming : e.time > 0
  BY DEF QueueOK, Holds, Contents
<1>2. Switched(r, b) = UpdateCrossThreadQueueStateLocked(w)
  BY DEF Switched
<1>3. v \in Records /\ SameTasks(r, v)
  BY <1>1 DEF Records, SameTasks
<1> HIDE DEF v
<1>4. w \in Records /\ SameTasks(v, w)
  BY <1>1, <1>3, DelayedWakeUp DEF SameTasks
<1> HIDE DEF w
<1>5. SameTasks(w, Switched(r, b))
  BY <1>2, <1>4, CrossThreadState
<1>6. SameTasks(r, Switched(r, b))
  BY <1>3, <1>4, <1>5 DEF SameTasks
<1> QED
  BY <1>6, KeepsFlags

\* InsertFence() and RemoveFence().
LEMMA FenceKeeps ==
  ASSUME NEW r \in Records, NEW d, NEW fence \in Nat, Distinct(r, d)
  PROVE  Keeps(r, d, Fenced(r, fence), d)
<1> DEFINE v == [r EXCEPT !.fence = fence]
<1>1. Fenced(r, fence) = UpdateCrossThreadQueueStateLocked(v)
  BY DEF Fenced
<1>2. v \in Records /\ SameTasks(r, v)
  BY DEF Records, SameTasks
<1> HIDE DEF v
<1>3. SameTasks(v, Fenced(r, fence))
  BY <1>1, <1>2, CrossThreadState
<1>4. SameTasks(r, Fenced(r, fence))
  BY <1>2, <1>3 DEF SameTasks
<1> QED
  BY <1>4, KeepsFlags

\* RequeueDeferredNonNestableTasks().
LEMMA RequeueKeepsTasks ==
  ASSUME NEW q, NEW r, NEW d, NEW n \in Nat, QueueOK(q, r, d, n), Distinct(r, d)
  PROVE  Keeps(r, d, Requeued(r, d), NoBacklog)
<1> DEFINE u == Requeued(r, d)
<1>1. /\ u.incoming = r.incoming /\ Elems(u.work) = Elems(d.immediate) \cup Elems(r.work)
      /\ u.delayed_incoming = r.delayed_incoming
      /\ Elems(u.delayed_work) = Elems(d.delayed) \cup Elems(r.delayed_work)
  BY QueueRequeue DEF RequeuedOK
<1>2. Elems(NoBacklog.immediate) = {} /\ Elems(NoBacklog.delayed) = {}
  BY NoElems DEF NoBacklog
<1> HIDE DEF u
<1>3. Imm(u, NoBacklog) = Imm(r, d) /\ Del(u, NoBacklog) = Del(r, d)
  BY <1>1, <1>2 DEF Imm, Del
<1>4. Keeps(r, d, u, NoBacklog)
  BY <1>1, <1>3, KeepsSame
<1> QED
  BY <1>4 DEF u

\* The entries of a queue are of tasks.
LEMMA EntriesOfTasks ==
  ASSUME NEW q, NEW r, NEW d, NEW n, Holds(q, r, d, n)
  PROVE  /\ Imm(r, d) \cup Del(r, d) \cup r.delayed_incoming \subseteq Entries
         /\ \A e \in Imm(r, d) \cup Del(r, d) \cup r.delayed_incoming :
              e.task \in Tasks /\ QueueOf[e.task] = q /\ Delay[e.task] \in Nat
<1>1. r \in Records /\ d \in Backlogs /\ Contents(q, r, d, n)
  BY DEF Holds
<1>2. /\ r.incoming \in Seq(Entries) /\ r.work \in Seq(Entries) /\ r.delayed_work \in Seq(Entries)
      /\ d.immediate \in Seq(Entries) /\ d.delayed \in Seq(Entries)
      /\ r.delayed_incoming \subseteq Entries
  BY <1>1 DEF Records, Backlogs
<1>3. Imm(r, d) \cup Del(r, d) \cup r.delayed_incoming \subseteq Entries
  BY <1>2, ElemsType DEF Imm, Del
<1>4. \A e \in Entries : e.task \in Tasks
  BY DEF Entries
<1>5. \A t \in Tasks : Delay[t] \in Nat
  BY Parameters
<1>6. \A e \in Imm(r, d) \cup Del(r, d) \cup r.delayed_incoming : QueueOf[e.task] = q
  BY <1>1 DEF Contents, Immediate, Delayed, Imm, Del
<1> QED
  BY <1>3, <1>4, <1>5, <1>6

\* MoveReadyDelayedTasksToWorkQueue().
LEMMA MoveReadyKeeps ==
  ASSUME NEW q, NEW r, NEW d, NEW n \in Nat \ {0}, Holds(q, r, d, n), Distinct(r, d),
         NEW ripe \in HeapOrders(Due(r))
  PROVE  Keeps(r, d, MoveReady(r, ripe, n), d)
<1> DEFINE moved == [i \in 1..Len(ripe) |-> [ripe[i] EXCEPT !.order = n + i]]
           s == r.delayed_work \o moved
           D == r.delayed_incoming \ Due(r)
           v == [r EXCEPT !.delayed_work = s, !.delayed_incoming = D]
           u == UpdateDelayedWakeUp(v)
<1>1. /\ r \in Records /\ d \in Backlogs /\ Contents(q, r, d, n)
  BY DEF Holds
<1>2. /\ Due(r) \subseteq r.delayed_incoming /\ r.delayed_incoming \subseteq Entries
      /\ r.delayed_work \in Seq(Entries) /\ Due(r) \subseteq Entries
  BY <1>1 DEF Due, Records
<1>3. IsFiniteSet(Due(r))
  BY <1>1, <1>2, FS_Subset DEF Contents
<1>4. /\ ripe \in Seq(Due(r)) /\ Len(ripe) \in Nat /\ Elems(ripe) = Due(r)
      /\ \A i, j \in 1..Len(ripe) : ripe[i] = ripe[j] => i = j
  BY <1>2, <1>3, HeapOrderSeq, HeapOrderAll
<1>5. ASSUME NEW i \in 1..Len(ripe)
      PROVE  /\ moved[i] \in Entries /\ moved[i].task = ripe[i].task /\ moved[i].hop = ripe[i].hop
             /\ ripe[i] \in Due(r)
  <2>1. ripe[i] \in Due(r) /\ ripe[i] \in Entries /\ n + i \in Nat
    BY <1>2, <1>4
  <2>2. moved[i] = [ripe[i] EXCEPT !.order = n + i]
    OBVIOUS
  <2> QED
    BY <2>1, <2>2 DEF Entries
<1>6. moved \in Seq(Entries) /\ Len(moved) = Len(ripe)
  <2>1. moved \in [1..Len(ripe) -> Entries]
    BY <1>5
  <2> QED
    BY <1>4, <2>1
<1>7. MoveReady(r, ripe, n) = u
  BY DEF MoveReady
<1> HIDE DEF moved
<1>8. Renumbers(Elems(moved), Due(r))
  <2>1. ASSUME NEW m \in Elems(moved) PROVE ~m.hop /\ \E e \in Due(r) : e.task = m.task
    <3>1. PICK i \in 1..Len(ripe) : m = moved[i]
      BY <1>6, <2>1 DEF Elems
    <3> QED
      BY <1>2, <1>5, <3>1 DEF Distinct, Apart
  <2>2. ASSUME NEW e \in Due(r) PROVE \E m \in Elems(moved) : m.task = e.task
    <3>1. PICK i \in 1..Len(ripe) : e = ripe[i]
      BY <1>4, <2>2 DEF Elems
    <3> QED
      BY <1>5, <1>6, <3>1 DEF Elems
  <2>3. ASSUME NEW m \in Elems(moved), NEW k \in Elems(moved), m.task = k.task PROVE m = k
    <3>1. PICK i \in 1..Len(ripe) : m = moved[i]
      BY <1>6, <2>3 DEF Elems
    <3>2. PICK j \in 1..Len(ripe) : k = moved[j]
      BY <1>6, <2>3 DEF Elems
    <3>3. ripe[i].task = ripe[j].task
      BY <1>5, <2>3, <3>1, <3>2
    <3>4. ripe[i] \in r.delayed_incoming /\ ripe[j] \in r.delayed_incoming
      BY <1>2, <1>5
    <3>5. ripe[i] = ripe[j]
      BY <3>3, <3>4 DEF Distinct, Apart
    <3> QED
      BY <1>4, <3>1, <3>2, <3>5
  <2> QED
    BY <2>1, <2>2, <2>3 DEF Renumbers
<1>9. s \in Seq(Entries) /\ Elems(s) = Elems(r.delayed_work) \cup Elems(moved)
  BY <1>2, <1>6, ElemsConcat
<1> HIDE DEF s
<1>10. D \subseteq r.delayed_incoming /\ D = r.delayed_incoming \ Due(r)
  OBVIOUS
<1> HIDE DEF D
<1>11. /\ v \in Records /\ v.incoming = r.incoming /\ v.work = r.work
       /\ v.delayed_work = s /\ v.delayed_incoming = D
  BY <1>1, <1>2, <1>9, <1>10 DEF Records
<1>12. \A e \in v.delayed_incoming : e.time > 0
  BY <1>1, <1>10, <1>11 DEF Contents
<1> HIDE DEF v
<1>13. SameTasks(v, u)
  BY <1>11, <1>12, DelayedWakeUp
<1> HIDE DEF u
<1>14. /\ Imm(u, d) = Imm(r, d) /\ Del(u, d) = Del(r, d) \cup Elems(moved)
       /\ u.delayed_incoming = r.delayed_incoming \ Due(r)
  BY <1>9, <1>10, <1>11, <1>13 DEF Imm, Del, SameTasks
<1>15. \A e \in Imm(r, d) \cup Del(r, d) \cup r.delayed_incoming : Delay[e.task] \in Nat
  BY EntriesOfTasks
<1>16. /\ Apart(Imm(r, d), Del(r, d) \cup Elems(moved), r.delayed_incoming \ Due(r))
       /\ \A t : HasIn(Imm(r, d) \cup (Del(r, d) \cup Elems(moved))
                         \cup (r.delayed_incoming \ Due(r)), t)
                   <=> HasIn(Imm(r, d) \cup Del(r, d) \cup r.delayed_incoming, t)
  BY <1>2, <1>8, <1>15, ApartMove DEF Distinct
<1>17. Keeps(r, d, u, d)
  BY <1>14, <1>16 DEF Keeps, Distinct, Has
<1> QED
  BY <1>7, <1>17

\* The four homes of a task: not posted, in its queue, in the hop that a run loop carries out,
\* started.
InQueue(t) == Has(queue[QueueOf[t]], deferred[QueueOf[t]], t)
Carried(t) == stack # <<>> /\ HasIn(Top.hop, t)
OneHome(t) ==
  /\ t \in unposted \/ InQueue(t) \/ Carried(t) \/ Started(t)
  /\ t \in unposted => ~InQueue(t) /\ ~Carried(t) /\ ~Started(t)
  /\ InQueue(t) => ~Carried(t) /\ ~Started(t)
  /\ Carried(t) => ~Started(t)

HopOK(l) == (l.hop # {} => l.pc = "hop") /\ \A e, f \in l.hop : ~e.hop /\ e = f
Hops == \A k \in 1..Len(stack) : HopOK(stack[k])
StartedOnce == \A j, k \in 1..Len(started) : started[j].task = started[k].task => j = k
AllDistinct == \A q \in Queues : Distinct(queue[q], deferred[q])

Conserved == AllDistinct /\ Hops /\ StartedOnce /\ \A t \in Tasks : OneHome(t)

\* A step that leaves every task where it is.
LEMMA StayHome ==
  ASSUME Conserved, AllDistinct', Hops', UNCHANGED <<unposted, started>>,
         \A t \in Tasks : InQueue(t)' <=> InQueue(t), \A t \in Tasks : Carried(t)' <=> Carried(t)
  PROVE  Conserved'
<1>1. StartedOnce' /\ \A t : Started(t)' <=> Started(t)
  BY DEF Conserved, StartedOnce, Started
<1>2. \A t \in Tasks : OneHome(t)'
  BY <1>1 DEF Conserved, OneHome
<1> QED
  BY <1>1, <1>2 DEF Conserved

\* The queues are left alone.
LEMMA SameHomes ==
  ASSUME Conserved, UNCHANGED <<queue, deferred>>
  PROVE  AllDistinct' /\ \A t : InQueue(t)' <=> InQueue(t)
  BY DEF Conserved, AllDistinct, InQueue

\* The run loops are left alone.
LEMMA SameHops ==
  ASSUME Conserved, UNCHANGED stack
  PROVE  Hops' /\ \A t : Carried(t)' <=> Carried(t)
  BY DEF Conserved, Hops, Carried, Top

\* A step of one queue.
LEMMA OneQueueHomes ==
  ASSUME AllQueues, Conserved, NEW q \in Queues, NEW r, NEW d, Distinct(r, d),
         queue' = [queue EXCEPT ![q] = r], deferred' = [deferred EXCEPT ![q] = d]
  PROVE  /\ AllDistinct'
         /\ \A t \in Tasks : InQueue(t)' <=> IF QueueOf[t] = q THEN Has(r, d, t) ELSE InQueue(t)
<1>1. queue'[q] = r /\ deferred'[q] = d
  BY DEF AllQueues
<1>2. \A x \in Queues : x # q => queue'[x] = queue[x] /\ deferred'[x] = deferred[x]
  BY DEF AllQueues
<1>3. AllDistinct'
  BY <1>1, <1>2 DEF AllDistinct, Conserved
<1>4. ASSUME NEW t \in Tasks
      PROVE  InQueue(t)' <=> IF QueueOf[t] = q THEN Has(r, d, t) ELSE InQueue(t)
  <2>1. QueueOf[t] \in Queues
    BY Parameters
  <2>2. InQueue(t)' <=> Has(queue'[QueueOf[t]], deferred'[QueueOf[t]], t)
    BY DEF InQueue
  <2> QED
    BY <1>1, <1>2, <2>1, <2>2 DEF InQueue
<1> QED
  BY <1>3, <1>4

\* One that keeps its tasks, and defers none.
LEMMA OneQueueKeeps ==
  ASSUME AllQueues, Conserved, NEW q \in Queues, NEW r, Keeps(queue[q], deferred[q], r, deferred[q]),
         queue' = [queue EXCEPT ![q] = r], deferred' = deferred
  PROVE  AllDistinct' /\ \A t \in Tasks : InQueue(t)' <=> InQueue(t)
<1>1. deferred' = [deferred EXCEPT ![q] = deferred[q]]
  BY DEF AllQueues
<1>2. Distinct(r, deferred[q]) /\ \A t : Has(r, deferred[q], t) <=> Has(queue[q], deferred[q], t)
  BY DEF Keeps
<1>3. /\ AllDistinct'
      /\ \A t \in Tasks :
           InQueue(t)' <=> IF QueueOf[t] = q THEN Has(r, deferred[q], t) ELSE InQueue(t)
  BY <1>1, <1>2, OneQueueHomes
<1> QED
  BY <1>2, <1>3 DEF InQueue

\* The innermost run loop changes.
LEMMA TopHops ==
  ASSUME StackOK, Conserved, stack # <<>>, NEW l, SetTop(l), HopOK(l)
  PROVE  Hops' /\ stack' # <<>> /\ Top' = l
<1> DEFINE X == Loops \cup {l}
<1>1. Len(stack) \in Nat \ {0} /\ stack \in Seq(X) /\ stack' = [stack EXCEPT ![Len(stack)] = l]
  BY DEF StackOK, SetTop
<1>2. l \in X
  OBVIOUS
<1> HIDE DEF X
<1>3. /\ stack' \in Seq(X) /\ Len(stack') = Len(stack) /\ stack'[Len(stack)] = l
      /\ \A k \in 1..Len(stack) : k # Len(stack) => stack'[k] = stack[k]
  BY <1>1, <1>2
<1>4. Hops'
  BY <1>3 DEF Hops, Conserved
<1>5. stack' # <<>>
  BY <1>1, <1>3
<1> QED
  BY <1>3, <1>4, <1>5 DEF Top

\* A run loop carries a task only in its hop.
LEMMA NoneCarried ==
  ASSUME StackOK, Conserved, stack = <<>> \/ Top.pc # "hop"
  PROVE  (stack # <<>> => Top.hop = {}) /\ \A t : ~Carried(t)
<1>1. ASSUME stack # <<>> PROVE Top.hop = {}
  <2>1. Len(stack) \in 1..Len(stack)
    BY <1>1 DEF StackOK
  <2> QED
    BY <1>1, <2>1 DEF Conserved, Hops, HopOK, Top
<1> QED
  BY <1>1 DEF Carried, HasIn

\* The run loop moves on, outside of hops.
LEMMA TopMoves ==
  ASSUME StackOK, Conserved, stack # <<>>, Top.pc # "hop", NEW l, SetTop(l), l.hop = Top.hop
  PROVE  Hops' /\ \A t : Carried(t)' <=> Carried(t)
<1>1. l.hop = {} /\ \A t : ~Carried(t)
  BY NoneCarried
<1>2. HopOK(l)
  BY <1>1 DEF HopOK
<1>3. Hops' /\ Top' = l
  BY <1>2, TopHops
<1>4. \A t : ~Carried(t)'
  BY <1>1, <1>3 DEF Carried, HasIn
<1> QED
  BY <1>1, <1>3, <1>4

\* The steps of DoWork() and of the pump between tasks.
LEMMA QuietConserved ==
  ASSUME IndInv, Conserved, stack # <<>>, Top.pc # "hop", NEW l, SetTop(l), l.hop = Top.hop,
         UNCHANGED <<queue, deferred, unposted, started>>
  PROVE  Conserved'
<1>1. StackOK
  BY DEF IndInv
<1> QED
  BY <1>1, TopMoves, SameHomes, StayHome

\* GoTo() changes the place only.
LEMMA GoToHop ==
  ASSUME StackOK, stack # <<>>, NEW pc
  PROVE  [Top EXCEPT !.pc = pc].hop = Top.hop
  BY TopFacts DEF Loops

\* A step of other variables.
LEMMA ElsewhereConserved ==
  ASSUME Conserved, UNCHANGED <<queue, deferred, stack, unposted, started>>
  PROVE  Conserved'
  BY SameHomes, SameHops, StayHome

\* A step of one queue that keeps its tasks, in which no run loop moves.
LEMMA QueueConserved ==
  ASSUME IndInv, Conserved, NEW q \in Queues, NEW r,
         Keeps(queue[q], deferred[q], r, deferred[q]), queue' = [queue EXCEPT ![q] = r],
         UNCHANGED <<deferred, stack, unposted, started>>
  PROVE  Conserved'
<1>1. AllQueues
  BY DEF IndInv
<1> QED
  BY <1>1, OneQueueKeeps, SameHops, StayHome

\* The steps of DoWork() and of the pump that touch no queue.
LEMMA QuietSteps ==
  ASSUME IndInv, Conserved,
         \/ DoSomeWork \/ SelectNextTask \/ EndTask \/ WillCheckForMoreWork
         \/ DelayTillNextTask \/ DelayTillNextTaskReloaded \/ DidCheck \/ PumpWakesUp
  PROVE  Conserved'
<1>1. StackOK
  BY DEF IndInv
<1>2. CASE DoSomeWork
  <2> DEFINE p == IF task_execution_allowed THEN "select" ELSE "did_check"
             l == [Top EXCEPT !.pc = p, !.i = 0, !.immediate = FALSE, !.timed = FALSE]
  <2>1. /\ stack # <<>> /\ Top.pc # "hop" /\ SetTop(l)
        /\ UNCHANGED <<queue, deferred, unposted, started>>
    BY <1>2 DEF DoSomeWork, At
  <2>2. l.hop = Top.hop
    BY <1>1, <2>1, TopFacts DEF Loops
  <2> HIDE DEF l
  <2> QED
    BY <2>1, <2>2, QuietConserved
<1>3. ASSUME NEW pc, stack # <<>>, Top.pc # "hop", RunActiveCallbacks(pc),
             UNCHANGED <<queue, deferred, unposted, started>>
      PROVE  Conserved'
  <2> DEFINE l == [Top EXCEPT !.pc = pc, !.callbacks = reload]
  <2>1. SetTop(l)
    BY <1>3 DEF RunActiveCallbacks
  <2>2. l.hop = Top.hop
    BY <1>1, <1>3, TopFacts DEF Loops
  <2> HIDE DEF l
  <2> QED
    BY <1>3, <2>1, <2>2, QuietConserved
<1>4. ASSUME NEW pc, stack # <<>>, Top.pc # "hop", GoTo(pc),
             UNCHANGED <<queue, deferred, unposted, started>>
      PROVE  Conserved'
  <2> DEFINE l == [Top EXCEPT !.pc = pc]
  <2>1. SetTop(l) /\ l.hop = Top.hop
    BY <1>1, <1>4, GoToHop DEF GoTo
  <2> HIDE DEF l
  <2> QED
    BY <1>4, <2>1, QuietConserved
<1>5. CASE SelectNextTask
  <2>1. /\ stack # <<>> /\ Top.pc # "hop" /\ RunActiveCallbacks("select_reload")
        /\ UNCHANGED <<queue, deferred, unposted, started>>
    BY <1>5 DEF SelectNextTask, At
  <2> QED
    BY <1>3, <2>1
<1>6. CASE EndTask
  <2> DEFINE l == AfterTaskLoop
  <2>1. /\ stack # <<>> /\ Top.pc = "run" /\ AfterTask
        /\ UNCHANGED <<queue, deferred, unposted, started>>
    BY <1>6 DEF EndTask, InTask, At
  <2>2. SetTop(l) /\ l.hop = {}
    BY <1>1, <2>1, AfterTaskFacts
  <2>3. Top.hop = {}
    BY <1>1, <2>1, NoneCarried
  <2> HIDE DEF l
  <2> QED
    BY <2>1, <2>2, <2>3, QuietConserved
<1>7. CASE WillCheckForMoreWork
  <2>1. /\ stack # <<>> /\ Top.pc # "hop"
        /\ GoTo("did_check") \/ GoTo("check")
        /\ UNCHANGED <<queue, deferred, unposted, started>>
    BY <1>7 DEF WillCheckForMoreWork, At
  <2> QED
    BY <1>4, <2>1
<1>8. CASE DelayTillNextTask
  <2> DEFINE l == [Top EXCEPT !.pc = "did_check", !.immediate = TRUE]
  <2>1. /\ stack # <<>> /\ Top.pc # "hop"
        /\ RunActiveCallbacks("check_reload") \/ SetTop(l)
        /\ UNCHANGED <<queue, deferred, unposted, started>>
    BY <1>8 DEF DelayTillNextTask, At
  <2>2. l.hop = Top.hop
    BY <1>1, <2>1, TopFacts DEF Loops
  <2> HIDE DEF l
  <2> QED
    BY <1>3, <2>1, <2>2, QuietConserved
<1>9. CASE DelayTillNextTaskReloaded
  <2> DEFINE time == NextRunTime(queue)
             b == ~SelectorEmpty \/ (time # Never /\ time <= now)
             c == time # Never
             l == [Top EXCEPT !.pc = "did_check", !.immediate = b, !.timed = c]
  <2>1. /\ stack # <<>> /\ Top.pc # "hop" /\ SetTop(l)
        /\ UNCHANGED <<queue, deferred, unposted, started>>
    BY <1>9 DEF DelayTillNextTaskReloaded, At
  <2> HIDE DEF b, c
  <2>2. l.hop = Top.hop
    BY <1>1, <2>1, TopFacts DEF Loops
  <2> HIDE DEF l
  <2> QED
    BY <2>1, <2>2, QuietConserved
<1>10. CASE DidCheck
  <2>1. /\ stack # <<>> /\ Top.pc # "hop" /\ UNCHANGED <<queue, deferred, unposted, started>>
    BY <1>10 DEF DidCheck, At
  <2>2. PICK pc : GoTo(pc)
    BY <1>10 DEF DidCheck
  <2> QED
    BY <1>4, <2>1, <2>2
<1>11. CASE PumpWakesUp
  <2>1. /\ stack # <<>> /\ Top.pc # "hop" /\ GoTo("start")
        /\ UNCHANGED <<queue, deferred, unposted, started>>
    BY <1>11 DEF PumpWakesUp, At
  <2> QED
    BY <1>4, <2>1
<1> QED
  BY <1>2, <1>5, <1>6, <1>7, <1>8, <1>9, <1>10, <1>11

\* A callback reloads a work queue that is empty.
LEMMA ReloadConserved ==
  ASSUME IndInv, Conserved, NEW q \in Queues, ReloadEmptyImmediateWorkQueue(q)
  PROVE  Conserved'
<1> DEFINE r == TakeImmediateIncomingQueueTasks(queue[q])
           c == Top.callbacks \ {q}
           l == [Top EXCEPT !.callbacks = c]
<1>1. /\ stack # <<>> /\ Top.pc # "hop" /\ q \in Top.callbacks /\ SetTop(l)
      /\ queue' = [queue EXCEPT ![q] = r] /\ UNCHANGED <<deferred, unposted, started>>
  BY DEF ReloadEmptyImmediateWorkQueue, Reloading, At
<1>2. AllQueues /\ StackOK /\ Reloads /\ seq \in Nat
  BY DEF IndInv, Scalars
<1>3. queue[q].work = <<>>
  BY <1>1, <1>2 DEF Callbacks, Reloads, NeedsReload
<1>4. QueueOK(q, queue[q], deferred[q], seq) /\ Distinct(queue[q], deferred[q])
  BY <1>2 DEF AllQueues, Conserved, AllDistinct
<1>5. Keeps(queue[q], deferred[q], r, deferred[q])
  BY <1>2, <1>3, <1>4, ReloadKeeps
<1>6. l.hop = Top.hop
  BY <1>1, <1>2, TopFacts DEF Loops
<1> HIDE DEF r, l
<1>7. AllDistinct' /\ \A t \in Tasks : InQueue(t)' <=> InQueue(t)
  BY <1>1, <1>2, <1>5, OneQueueKeeps
<1>8. Hops' /\ \A t : Carried(t)' <=> Carried(t)
  BY <1>1, <1>2, <1>6, TopMoves
<1> QED
  BY <1>1, <1>7, <1>8, StayHome

\* MoveReadyDelayedTasksToWorkQueues().
LEMMA MoveReadyConserved ==
  ASSUME IndInv, Conserved, MoveReadyDelayedTasksToWorkQueues
  PROVE  Conserved'
<1>1. /\ stack # <<>> /\ Top.pc # "hop" /\ UNCHANGED <<deferred, unposted, started>>
  BY DEF MoveReadyDelayedTasksToWorkQueues, At
<1>2. AllQueues /\ StackOK /\ seq \in Nat \ {0}
  BY DEF IndInv, Scalars
<1>3. CASE GoTo("pick") /\ UNCHANGED <<duplicator, queue, seq>>
  <2> DEFINE l == [Top EXCEPT !.pc = "pick"]
  <2>1. SetTop(l) /\ l.hop = Top.hop
    BY <1>1, <1>2, <1>3, GoToHop DEF GoTo
  <2> HIDE DEF l
  <2> QED
    BY <1>1, <1>3, <2>1, QuietConserved
<1>4. CASE ~(GoTo("pick") /\ UNCHANGED <<duplicator, queue, seq>>)
  <2>1. PICK q \in Queues :
          \E ripe \in HeapOrders(Due(queue[q])) :
            /\ queue' = [queue EXCEPT ![q] = MoveReady(queue[q], ripe, seq)]
            /\ UNCHANGED stack
    BY <1>4, Zenon DEF MoveReadyDelayedTasksToWorkQueues
  <2>2. PICK ripe \in HeapOrders(Due(queue[q])) :
          /\ queue' = [queue EXCEPT ![q] = MoveReady(queue[q], ripe, seq)]
          /\ UNCHANGED stack
    BY <2>1, Zenon
  <2> DEFINE r == MoveReady(queue[q], ripe, seq)
  <2>3. Holds(q, queue[q], deferred[q], seq) /\ Distinct(queue[q], deferred[q])
    BY <1>2 DEF AllQueues, QueueOK, Conserved, AllDistinct
  <2>4. Keeps(queue[q], deferred[q], r, deferred[q])
    BY <1>2, <2>3, MoveReadyKeeps
  <2>5. queue' = [queue EXCEPT ![q] = r] /\ stack' = stack
    BY <2>2
  <2> HIDE DEF r
  <2> QED
    BY <1>1, <2>4, <2>5, QueueConserved
<1> QED
  BY <1>3, <1>4

\* SetQueueEnabled(), InsertFence() and RemoveFence() move no task.
LEMMA SwitchConserved ==
  ASSUME IndInv, Conserved, NEW q \in Queues,
         \/ \E b \in BOOLEAN : SetQueueEnabled(q, b) \/ InsertFence(q, b)
         \/ RemoveFence(q)
  PROVE  Conserved'
<1>1. /\ seq \in Nat \ {0} /\ QueueOK(q, queue[q], deferred[q], seq) /\ queue[q] \in Records
      /\ Distinct(queue[q], deferred[q])
  BY DEF IndInv, Scalars, AllQueues, Conserved, AllDistinct
<1>2. ASSUME NEW b \in BOOLEAN, SetQueueEnabled(q, b) PROVE Conserved'
  <2> DEFINE r == Switched(queue[q], b)
  <2>1. queue' = [queue EXCEPT ![q] = r] /\ UNCHANGED <<deferred, stack, unposted, started>>
    BY <1>2 DEF SetQueueEnabled, Switched, main_only
  <2>2. Keeps(queue[q], deferred[q], r, deferred[q])
    BY <1>1, SwitchKeeps
  <2> HIDE DEF r
  <2> QED
    BY <2>1, <2>2, QueueConserved
<1>3. ASSUME NEW f \in Nat, NEW i, SetFence(q, f, i), UNCHANGED <<deferred, stack, unposted, started>>
      PROVE  Conserved'
  <2> DEFINE r == Fenced(queue[q], f)
  <2>1. queue' = [queue EXCEPT ![q] = r]
    BY <1>3 DEF SetFence, Fenced
  <2>2. Keeps(queue[q], deferred[q], r, deferred[q])
    BY <1>1, FenceKeeps
  <2> HIDE DEF r
  <2> QED
    BY <1>3, <2>1, <2>2, QueueConserved
<1>4. ASSUME NEW b \in BOOLEAN, InsertFence(q, b) PROVE Conserved'
  <2> DEFINE f == IF b THEN kBlockingFence ELSE seq + 1
  <2>1. UNCHANGED <<deferred, stack, unposted, started>>
    BY <1>4 DEF InsertFence, main_only
  <2>2. f \in Nat
    BY <1>1 DEF kBlockingFence
  <2>3. PICK i : SetFence(q, f, i)
    BY <1>4 DEF InsertFence
  <2> HIDE DEF f
  <2> QED
    BY <1>3, <2>1, <2>2, <2>3
<1>5. CASE RemoveFence(q)
  <2>1. UNCHANGED <<deferred, stack, unposted, started>>
    BY <1>5 DEF RemoveFence, main_only
  <2>2. kNone \in Nat
    BY DEF kNone
  <2>3. PICK i : SetFence(q, kNone, i)
    BY <1>5 DEF RemoveFence
  <2> QED
    BY <1>3, <2>1, <2>2, <2>3
<1> QED
  BY <1>2, <1>4, <1>5

\* RunLoop::Run() outside any task.
LEMMA RunConserved ==
  ASSUME IndInv, Conserved, NEW b \in BOOLEAN, Run(b)
  PROVE  Conserved'
<1> DEFINE l == Loop(b, FALSE)
<1>1. /\ stack = <<>> /\ stack' = <<l>> /\ UNCHANGED <<queue, deferred, unposted, started>>
      /\ Scalars
  BY DEF Run, IndInv
<1>2. l.hop = {}
  BY <1>1, LoopFacts
<1> HIDE DEF l
<1>3. Len(stack') = 1 /\ stack'[1] = l /\ Top' = l
  BY <1>1 DEF Top
<1>4. Hops'
  BY <1>2, <1>3 DEF Hops, HopOK
<1>5. \A t : ~Carried(t) /\ ~Carried(t)'
  BY <1>1, <1>2, <1>3 DEF Carried, HasIn
<1> QED
  BY <1>1, <1>4, <1>5, SameHomes, StayHome

\* A nested run loop.
LEMMA RunNestedConserved ==
  ASSUME IndInv, Conserved, NEW b \in BOOLEAN, NEW u \in BOOLEAN, RunNested(b, u)
  PROVE  Conserved'
<1> DEFINE a == b /\ ~task_execution_allowed
           l == Loop(u, a)
<1>1. /\ stack # <<>> /\ Top.pc = "run" /\ stack' = Append(stack, l)
      /\ UNCHANGED <<queue, deferred, unposted, started>> /\ Scalars /\ StackOK
  BY DEF RunNested, Op, InTask, At, IndInv
<1>2. a \in BOOLEAN
  BY <1>1 DEF Scalars
<1>3. l.hop = {} /\ l \in Loops
  BY <1>1, <1>2, LoopFacts
<1> HIDE DEF l
<1>4. /\ Len(stack) \in Nat \ {0} /\ Len(stack') = Len(stack) + 1 /\ stack' # <<>>
      /\ stack'[Len(stack) + 1] = l /\ \A k \in 1..Len(stack) : stack'[k] = stack[k]
  BY <1>1, <1>3 DEF StackOK
<1>5. Top' = l
  BY <1>4 DEF Top
<1>6. Hops'
  <2> SUFFICES ASSUME NEW k \in 1..(Len(stack) + 1) PROVE HopOK(stack'[k])
    BY <1>4 DEF Hops
  <2>1. CASE k = Len(stack) + 1
    BY <1>3, <1>4, <2>1 DEF HopOK
  <2>2. CASE k # Len(stack) + 1
    <3>1. k \in 1..Len(stack)
      BY <1>4, <2>2
    <3> QED
      BY <1>4, <3>1 DEF Conserved, Hops
  <2> QED
    BY <2>1, <2>2
<1>7. \A t : ~Carried(t)
  BY <1>1, NoneCarried
<1>8. \A t : ~Carried(t)'
  BY <1>3, <1>5 DEF Carried, HasIn
<1> QED
  BY <1>1, <1>6, <1>7, <1>8, SameHomes, StayHome

\* RunLoop::Quit() and QuitWhenIdle().
LEMMA QuitConserved ==
  ASSUME IndInv, Conserved, NEW k \in 1..Len(stack), Quit(k) \/ QuitWhenIdle(k)
  PROVE  Conserved'
<1>1. /\ stack # <<>> /\ UNCHANGED <<queue, deferred, unposted, started>> /\ StackOK
  BY DEF Quit, QuitWhenIdle, Op, InTask, At, IndInv
<1>2. PICK l \in Loops :
        /\ stack' = [stack EXCEPT ![k] = l]
        /\ l.pc = stack[k].pc /\ l.hop = stack[k].hop
  BY <1>1, MarkedLoop
<1>3. /\ Len(stack) \in Nat \ {0} /\ Len(stack') = Len(stack) /\ stack' # <<>>
      /\ stack'[k] = l /\ \A j \in 1..Len(stack) : j # k => stack'[j] = stack[j]
  BY <1>1, <1>2 DEF StackOK
<1>4. \A j \in 1..Len(stack) : stack'[j].pc = stack[j].pc /\ stack'[j].hop = stack[j].hop
  BY <1>2, <1>3
<1>5. Hops'
  BY <1>3, <1>4 DEF Conserved, Hops, HopOK
<1>6. Top'.hop = Top.hop
  BY <1>3, <1>4 DEF Top
<1>7. \A t : Carried(t)' <=> Carried(t)
  BY <1>1, <1>3, <1>6 DEF Carried
<1> QED
  BY <1>1, <1>5, <1>7, SameHomes, StayHome

\* A run loop returns; the outermost one takes back the deferred tasks.
LEMMA ExitRunConserved ==
  ASSUME IndInv, Conserved, ExitRun
  PROVE  Conserved'
<1> DEFINE outer == SubSeq(stack, 1, Len(stack) - 1)
<1>1. /\ stack # <<>> /\ Top.pc = "exit" /\ stack' = outer
      /\ UNCHANGED <<seq, unposted, started>> /\ StackOK /\ AllQueues /\ seq \in Nat
  BY DEF ExitRun, At, IndInv, Scalars
<1>2. \/ /\ queue' = [q \in Queues |-> RequeueDeferredNonNestableTasks(q)]
         /\ deferred' = NoneDeferred
      \/ UNCHANGED <<queue, deferred>>
  BY DEF ExitRun
<1>3. /\ StackOK' /\ \A k \in 1..Len(stack') : k \in 1..Len(stack) /\ stack'[k] = stack[k]
      /\ stack' # <<>> => Top'.pc = "run"
  BY <1>1, PopFacts
<1> HIDE DEF outer
<1>4. Hops'
  BY <1>3 DEF Conserved, Hops
<1>5. stack' # <<>> => Top'.hop = {}
  <2>1. stack' # <<>> => Len(stack') \in 1..Len(stack')
    BY <1>3 DEF StackOK
  <2> QED
    BY <1>3, <1>4, <2>1 DEF Hops, HopOK, Top
<1>6. \A t : ~Carried(t)'
  BY <1>5 DEF Carried, HasIn
<1>7. \A t : ~Carried(t)
  BY <1>1, NoneCarried
<1>8. AllDistinct' /\ \A t \in Tasks : InQueue(t)' <=> InQueue(t)
  <2>1. CASE UNCHANGED <<queue, deferred>>
    BY <2>1, SameHomes
  <2>2. CASE /\ queue' = [q \in Queues |-> RequeueDeferredNonNestableTasks(q)]
             /\ deferred' = NoneDeferred
    <3>1. ASSUME NEW q \in Queues
          PROVE  Keeps(queue[q], deferred[q], queue'[q], deferred'[q])
      <4>1. QueueOK(q, queue[q], deferred[q], seq) /\ Distinct(queue[q], deferred[q])
        BY <1>1 DEF AllQueues, Conserved, AllDistinct
      <4>2. queue'[q] = Requeued(queue[q], deferred[q]) /\ deferred'[q] = NoBacklog
        BY <2>2 DEF RequeueDeferredNonNestableTasks, Requeued, NoneDeferred, NoBacklog
      <4> QED
        BY <1>1, <4>1, <4>2, RequeueKeepsTasks
    <3>2. AllDistinct'
      BY <3>1 DEF AllDistinct, Keeps
    <3>3. ASSUME NEW t \in Tasks PROVE InQueue(t)' <=> InQueue(t)
      <4>1. QueueOf[t] \in Queues
        BY Parameters
      <4>2. InQueue(t)' <=> Has(queue'[QueueOf[t]], deferred'[QueueOf[t]], t)
        BY DEF InQueue
      <4> QED
        BY <3>1, <4>1, <4>2 DEF InQueue, Keeps
    <3> QED
      BY <3>2, <3>3
  <2> QED
    BY <1>2, <2>1, <2>2
<1> QED
  BY <1>1, <1>4, <1>6, <1>7, <1>8, StayHome

\* A task enters its queue.
LEMMA PostedHome ==
  ASSUME IndInv, Conserved, NEW t \in Tasks, t \in unposted, unposted' = unposted \ {t}, NEW r,
         Gains(queue[QueueOf[t]], deferred[QueueOf[t]], r, deferred[QueueOf[t]], t),
         queue' = [queue EXCEPT ![QueueOf[t]] = r], UNCHANGED <<deferred, stack, started>>
  PROVE  Conserved'
<1> DEFINE q == QueueOf[t]
<1>1. AllQueues /\ q \in Queues
  BY Parameters DEF IndInv
<1>2. deferred' = [deferred EXCEPT ![q] = deferred[q]]
  BY <1>1 DEF AllQueues
<1>3. /\ Distinct(r, deferred[q])
      /\ \A x : Has(r, deferred[q], x) <=> Has(queue[q], deferred[q], x) \/ x = t
  BY DEF Gains
<1>4. queue' = [queue EXCEPT ![q] = r]
  OBVIOUS
<1> HIDE DEF q
<1>5. /\ AllDistinct'
      /\ \A x \in Tasks :
           InQueue(x)' <=> IF QueueOf[x] = q THEN Has(r, deferred[q], x) ELSE InQueue(x)
  BY <1>1, <1>2, <1>3, <1>4, OneQueueHomes
<1>6. \A x \in Tasks : InQueue(x)' <=> InQueue(x) \/ x = t
  BY <1>3, <1>5 DEF InQueue, q
<1>7. Hops' /\ \A x : Carried(x)' <=> Carried(x)
  BY SameHops
<1>8. StartedOnce' /\ \A x : Started(x)' <=> Started(x)
  BY DEF Conserved, StartedOnce, Started
<1>9. \A x \in Tasks : OneHome(x)'
  BY <1>6, <1>7, <1>8 DEF Conserved, OneHome
<1> QED
  BY <1>5, <1>7, <1>8, <1>9 DEF Conserved

\* PostTask() of another thread.
LEMMA PostTaskConserved ==
  ASSUME IndInv, Conserved, NEW p \in Posters, NEW t \in FromOthers, PostTask(p, t)
  PROVE  Conserved'
<1> DEFINE q == QueueOf[t]
           h == (Delay[t] > 0)
           e == Entry(t, h, seq + 1, DelayedRunTime(t))
           r == Posted(queue[q], e)
<1>1. /\ t \in unposted /\ unposted' = unposted \ {t} /\ PostImmediateTaskImpl(q, e)
      /\ UNCHANGED <<deferred, stack, started>> /\ AllQueues /\ seq \in Nat /\ now \in Nat
  BY DEF PostTask, MayPost, main_only, IndInv, Scalars
<1>2. t \in Tasks /\ q \in Queues /\ Delay[t] \in Nat
  BY Parameters
<1>3. DelayedRunTime(t) \in Nat
  BY <1>1, <1>2 DEF DelayedRunTime, Never
<1>4. h \in BOOLEAN /\ (h \/ Delay[t] = 0)
  BY <1>2
<1> HIDE DEF h
<1>5. e \in Entries /\ e.task = t /\ (e.hop \/ Delay[e.task] = 0)
  BY <1>1, <1>2, <1>3, <1>4 DEF Entry, Entries
<1> HIDE DEF e
<1>6. queue[q] \in Records /\ Distinct(queue[q], deferred[q])
  BY <1>1, <1>2 DEF AllQueues, Conserved, AllDistinct
<1>7. ~Has(queue[q], deferred[q], e.task)
  BY <1>1, <1>2, <1>5 DEF Conserved, OneHome, InQueue
<1>8. queue' = [queue EXCEPT ![q] = r]
  BY <1>1, <1>2, <1>6 DEF PostImmediateTaskImpl, Posted, AllQueues, Records
<1>9. Gains(queue[q], deferred[q], r, deferred[q], e.task)
  BY <1>5, <1>6, <1>7, PostGains
<1>10. Gains(queue[q], deferred[q], r, deferred[q], t)
  BY <1>5, <1>9
<1> HIDE DEF r
<1> QED
  BY <1>1, <1>2, <1>8, <1>10, PostedHome

\* MainPostTask.
LEMMA MainPostTaskConserved ==
  ASSUME IndInv, Conserved, NEW t \in FromMain, MainPostTask(t)
  PROVE  Conserved'
<1> DEFINE q == QueueOf[t]
           e == Entry(t, FALSE, seq + 1, DelayedRunTime(t))
<1>1. /\ t \in unposted /\ unposted' = unposted \ {t}
      /\ UNCHANGED <<deferred, stack, started>> /\ AllQueues /\ seq \in Nat \ {0}
      /\ now \in Nat \ {0}
  BY DEF MainPostTask, MayPost, main_only, IndInv, Scalars
<1>2. t \in Tasks /\ q \in Queues /\ Delay[t] \in Nat
  BY Parameters
<1>3. DelayedRunTime(t) \in Nat /\ (Delay[t] # 0 => DelayedRunTime(t) > 0)
  BY <1>1, <1>2 DEF DelayedRunTime, Never
<1>4. /\ e \in Entries /\ e.task = t /\ ~e.hop /\ e.time = DelayedRunTime(t)
      /\ e.order = seq + 1
  BY <1>1, <1>2, <1>3 DEF Entry, Entries
<1>5. QueueOK(q, queue[q], deferred[q], seq) /\ queue[q] \in Records
  BY <1>1, <1>2 DEF AllQueues
<1>6. Distinct(queue[q], deferred[q])
  BY <1>2 DEF Conserved, AllDistinct
<1>7. ~Has(queue[q], deferred[q], e.task)
  BY <1>1, <1>2, <1>4 DEF Conserved, OneHome, InQueue
<1>8. CASE Delay[t] = 0
  <2> DEFINE r == Posted(queue[q], e)
  <2>1. PostImmediateTaskImpl(q, e)
    BY <1>8 DEF MainPostTask
  <2> HIDE DEF e
  <2>2. queue' = [queue EXCEPT ![q] = r]
    BY <1>1, <1>2, <1>5, <2>1 DEF PostImmediateTaskImpl, Posted, AllQueues, Records
  <2>3. Gains(queue[q], deferred[q], r, deferred[q], e.task)
    BY <1>4, <1>5, <1>6, <1>7, <1>8, PostGains
  <2>4. Gains(queue[q], deferred[q], r, deferred[q], t)
    BY <1>4, <2>3
  <2> HIDE DEF r
  <2> QED
    BY <1>1, <1>2, <2>2, <2>4, PostedHome
<1>9. CASE Delay[t] # 0
  <2> DEFINE u == PushDelayed(queue[q], e)
             r == UpdateDelayedWakeUp(u)
  <2>1. queue' = [queue EXCEPT ![q] = r]
    BY <1>9 DEF MainPostTask, PushOntoDelayedIncomingQueueFromMainThread
  <2>2. e.order \in 2..(seq + 1) /\ QueueOf[e.task] = q
    <3>1. seq + 1 \in 2..(seq + 1)
      BY <1>1
    <3> HIDE DEF e
    <3> QED
      BY <1>4, <3>1
  <2> HIDE DEF e
  <2>3. Delayed(q, seq + 1, e) /\ e.time > 0 /\ Delay[e.task] > 0
    BY <1>2, <1>3, <1>4, <1>9, <2>2 DEF Delayed
  <2>4. seq + 1 \in Nat /\ seq <= seq + 1
    BY <1>1
  <2>5. Holds(q, u, deferred[q], seq + 1)
    BY <1>1, <1>4, <1>5, <2>3, <2>4, HoldsPushed
  <2>6. Gains(queue[q], deferred[q], u, deferred[q], e.task)
    BY <1>4, <1>5, <1>6, <1>7, <2>3, PushGains
  <2> HIDE DEF u
  <2>7. Keeps(u, deferred[q], r, deferred[q])
    BY <2>4, <2>5, <2>6, WakeUpKeeps DEF Gains
  <2> HIDE DEF r
  <2>8. Gains(queue[q], deferred[q], r, deferred[q], t)
    BY <1>4, <2>6, <2>7 DEF Gains, Keeps
  <2> QED
    BY <1>1, <1>2, <2>1, <2>8, PostedHome
<1> QED
  BY <1>8, <1>9

\* An entry is not among ones with other sequence numbers.
LEMMA NotAmong ==
  ASSUME NEW S, NEW e \in Entries, Below({e}, S) \/ Below(S, {e})
  PROVE  e \notin S
<1>1. e.order \in Nat
  BY DEF Entries
<1> QED
  BY <1>1 DEF Below

\* A non-nestable task is deferred: it stays in its queue.
LEMMA DeferConserved ==
  ASSUME IndInv, Conserved, NEW c \in Candidates,
         queue' = [queue EXCEPT ![c.queue] = TakeTask(queue[c.queue], c.immediate)],
         ~Nestable(c.entry), Defer(c), unposted' = unposted
  PROVE  Conserved'
<1> DEFINE q == c.queue
           r == queue[q]
           d == deferred[q]
           e == c.entry
           u == TakeTask(r, c.immediate)
           f == IF c.immediate THEN DeferImmediate(d, e) ELSE DeferDelayed(d, e)
<1>1. AllQueues /\ seq \in Nat /\ UNCHANGED <<stack, started>>
  BY DEF IndInv, Scalars, Defer
<1>2. /\ q \in Queues /\ c.immediate \in BOOLEAN
      /\ c.immediate => r.work # <<>> /\ e = r.work[1]
      /\ ~c.immediate => r.delayed_work # <<>> /\ e = r.delayed_work[1]
  BY <1>1, CandidateFacts
<1>3. /\ QueueOK(q, r, d, seq) /\ e \in Entries
      /\ c.immediate => Immediate(q, seq, e) /\ Below(Elems(d.immediate), {e})
      /\ ~c.immediate => Delayed(q, seq, e) /\ Below(Elems(d.delayed), {e})
  BY CandidateEntry
<1>4. queue' = [queue EXCEPT ![q] = u] /\ ~Nestable(e)
  OBVIOUS
<1>5. deferred' = [deferred EXCEPT ![q] = f]
  BY <1>1, <1>2 DEF Defer, DeferImmediate, DeferDelayed, AllQueues, Backlogs
<1> HIDE DEF q, e
<1>6. Distinct(r, d)
  BY <1>2 DEF Conserved, AllDistinct
<1>7. Imm(u, f) = Imm(r, d) /\ Del(u, f) = Del(r, d) /\ u.delayed_incoming = r.delayed_incoming
  <2>1. CASE c.immediate
    <3>1. u = TakeTask(r, TRUE) /\ f = DeferImmediate(d, e)
      BY <1>2, <2>1
    <3>2. /\ QueueOK(q, u, d, seq) /\ Below({e}, Elems(u.work) \cup Elems(u.incoming))
          /\ Elems(r.work) \cup Elems(r.incoming)
               = {e} \cup Elems(u.work) \cup Elems(u.incoming)
          /\ u.delayed_work = r.delayed_work /\ u.delayed_incoming = r.delayed_incoming
      BY <1>1, <1>2, <1>3, <2>1, <3>1, QueueTakeImmediate
    <3> HIDE DEF u
    <3>3. Immediate(q, seq, e) /\ Between(d, e, u) /\ e \in Entries
      BY <1>3, <2>1, <3>2 DEF Between
    <3>4. Elems(f.immediate) = Elems(d.immediate) \cup {e} /\ f.delayed = d.delayed
      <4>1. QueueOK(q, u, d, seq)
        BY <3>2
      <4> HIDE DEF d
      <4>2. /\ Elems(DeferImmediate(d, e).immediate) = Elems(d.immediate) \cup {e}
            /\ DeferImmediate(d, e).delayed = d.delayed
        BY <1>1, <1>4, <3>3, <4>1, QueueDeferImmediate
      <4> QED
        BY <3>1, <4>2
    <3> HIDE DEF f
    <3> QED
      BY <3>2, <3>4 DEF Imm, Del
  <2>2. CASE ~c.immediate
    <3>1. u = TakeTask(r, FALSE) /\ f = DeferDelayed(d, e)
      BY <1>2, <2>2
    <3>2. /\ QueueOK(q, u, d, seq) /\ Below({e}, Elems(u.delayed_work))
          /\ u.work = r.work /\ u.incoming = r.incoming
          /\ Elems(r.delayed_work) = {e} \cup Elems(u.delayed_work)
          /\ u.delayed_incoming = r.delayed_incoming
      BY <1>1, <1>2, <1>3, <2>2, <3>1, QueueTakeDelayed
    <3> HIDE DEF u
    <3>3. f.immediate = d.immediate /\ Elems(f.delayed) = Elems(d.delayed) \cup {e}
      <4>1. /\ QueueOK(q, u, d, seq) /\ e \in Entries /\ Delayed(q, seq, e)
            /\ BetweenDelayed(d, e, u)
        BY <1>3, <2>2, <3>2 DEF BetweenDelayed
      <4> HIDE DEF d
      <4>2. /\ DeferDelayed(d, e).immediate = d.immediate
            /\ Elems(DeferDelayed(d, e).delayed) = Elems(d.delayed) \cup {e}
        BY <1>1, <4>1, QueueDeferDelayed
      <4> QED
        BY <3>1, <4>2
    <3> HIDE DEF f
    <3> QED
      BY <3>2, <3>3 DEF Imm, Del
  <2> QED
    BY <2>1, <2>2
<1> HIDE DEF u, f
<1>8. Keeps(r, d, u, f)
  BY <1>6, <1>7, KeepsSame
<1>9. /\ AllDistinct'
      /\ \A t \in Tasks : InQueue(t)' <=> IF QueueOf[t] = q THEN Has(u, f, t) ELSE InQueue(t)
  BY <1>1, <1>2, <1>4, <1>5, <1>8, OneQueueHomes DEF Keeps
<1>10. \A t \in Tasks : InQueue(t)' <=> InQueue(t)
  BY <1>8, <1>9 DEF Keeps, InQueue
<1> QED
  BY <1>1, <1>9, <1>10, SameHops, StayHome

\* A task is taken from its queue for good.
LEMMA TakeLoses ==
  ASSUME IndInv, Conserved, NEW c \in Candidates
  PROVE  LET q == c.queue IN
         Loses(queue[q], deferred[q], TakeTask(queue[q], c.immediate), deferred[q], c.entry.task)
<1> DEFINE q == c.queue
           r == queue[q]
           d == deferred[q]
           e == c.entry
           u == TakeTask(r, c.immediate)
<1>1. AllQueues /\ seq \in Nat
  BY DEF IndInv, Scalars
<1>2. /\ q \in Queues /\ c.immediate \in BOOLEAN
      /\ c.immediate => r.work # <<>> /\ e = r.work[1]
      /\ ~c.immediate => r.delayed_work # <<>> /\ e = r.delayed_work[1]
  BY <1>1, CandidateFacts
<1>3. /\ QueueOK(q, r, d, seq) /\ e \in Entries
      /\ c.immediate => Below(Elems(d.immediate), {e})
      /\ ~c.immediate => Below(Elems(d.delayed), {e})
  BY CandidateEntry
<1> HIDE DEF q, e
<1>4. Apart(Imm(r, d), Del(r, d), r.delayed_incoming)
  BY <1>2 DEF Conserved, AllDistinct, Distinct
<1>5. Delay[e.task] \in Nat
  BY <1>3, Parameters DEF Entries
<1>6. CASE c.immediate
  <2>1. u = TakeTask(r, TRUE)
    BY <1>2, <1>6
  <2>2. /\ Below({e}, Elems(u.work) \cup Elems(u.incoming))
        /\ Elems(r.work) \cup Elems(r.incoming)
             = {e} \cup Elems(u.work) \cup Elems(u.incoming)
        /\ u.delayed_work = r.delayed_work /\ u.delayed_incoming = r.delayed_incoming
    BY <1>1, <1>2, <1>3, <1>6, <2>1, QueueTakeImmediate
  <2> HIDE DEF u
  <2>3. e \notin Elems(u.work) \cup Elems(u.incoming) /\ e \notin Elems(d.immediate)
    BY <1>3, <1>6, <2>2, NotAmong
  <2>4. Imm(r, d) = Imm(u, d) \cup {e} /\ e \notin Imm(u, d) /\ Del(u, d) = Del(r, d)
    BY <2>2, <2>3 DEF Imm, Del
  <2> HIDE DEF r, d
  <2>5. /\ Apart(Imm(u, d), Del(r, d), r.delayed_incoming)
        /\ \A t : HasIn(Imm(u, d) \cup Del(r, d) \cup r.delayed_incoming, t)
                    <=> HasIn(Imm(r, d) \cup Del(r, d) \cup r.delayed_incoming, t) /\ t # e.task
    BY <1>4, <1>5, <2>4, ApartTake
  <2>6. Loses(r, d, u, d, e.task)
    BY <2>2, <2>4, <2>5 DEF Loses, Distinct, Has
  <2> QED
    BY <2>6 DEF r, d, u, q, e
<1>7. CASE ~c.immediate
  <2>1. u = TakeTask(r, FALSE)
    BY <1>2, <1>7
  <2>2. /\ Below({e}, Elems(u.delayed_work)) /\ u.work = r.work /\ u.incoming = r.incoming
        /\ Elems(r.delayed_work) = {e} \cup Elems(u.delayed_work)
        /\ u.delayed_incoming = r.delayed_incoming
    BY <1>1, <1>2, <1>3, <1>7, <2>1, QueueTakeDelayed
  <2> HIDE DEF u
  <2>3. e \notin Elems(u.delayed_work) /\ e \notin Elems(d.delayed)
    BY <1>3, <1>7, <2>2, NotAmong
  <2>4. Imm(u, d) = Imm(r, d) /\ u.delayed_incoming = r.delayed_incoming
    BY <2>2 DEF Imm
  <2> HIDE DEF r, d
  <2>7. Del(r, d) = Del(u, d) \cup {e} /\ e \notin Del(u, d)
    BY <2>2, <2>3 DEF Del
  <2>5. /\ Apart(Imm(r, d), Del(u, d), r.delayed_incoming)
        /\ \A t : HasIn(Imm(r, d) \cup Del(u, d) \cup r.delayed_incoming, t)
                    <=> HasIn(Imm(r, d) \cup Del(r, d) \cup r.delayed_incoming, t) /\ t # e.task
    BY <1>4, <1>5, <2>7, ApartTakeDelayed
  <2>6. Loses(r, d, u, d, e.task)
    BY <2>4, <2>5 DEF Loses, Distinct, Has
  <2> QED
    BY <2>6 DEF r, d, u, q, e
<1> QED
  BY <1>2, <1>6, <1>7

\* One more start.
LEMMA StartsOnce ==
  ASSUME Conserved, NEW s \in Starts, started \in Seq(Starts), ~Started(s.task),
         started' = Append(started, s)
  PROVE  StartedOnce' /\ \A t : Started(t)' <=> Started(t) \/ t = s.task
<1>1. /\ Len(started) \in Nat /\ Len(started') = Len(started) + 1
      /\ started'[Len(started) + 1] = s
      /\ \A k \in 1..Len(started) : started'[k] = started[k]
  OBVIOUS
<1>2. 1..(Len(started) + 1) = (1..Len(started)) \cup {Len(started) + 1}
  BY <1>1
<1>3. \A k \in 1..Len(started) : started[k].task # s.task
  BY DEF Started
<1>4. StartedOnce'
  BY <1>1, <1>2, <1>3 DEF Conserved, StartedOnce
<1>5. \A t : Started(t)' <=> Started(t) \/ t = s.task
  BY <1>1, <1>2 DEF Started
<1> QED
  BY <1>4, <1>5

\* A task starts, or its hop does.
LEMMA StartTaskConserved ==
  ASSUME IndInv, Conserved, stack # <<>>, Top.pc = "pick", NEW c \in Candidates,
         queue' = [queue EXCEPT ![c.queue] = TakeTask(queue[c.queue], c.immediate)],
         StartTask(c), unposted' = unposted
  PROVE  Conserved'
<1> DEFINE q == c.queue
           d == deferred[q]
           e == c.entry
           u == TakeTask(queue[q], c.immediate)
           p == IF e.hop THEN "hop" ELSE "run"
           h == IF e.hop THEN {[e EXCEPT !.hop = FALSE]} ELSE {}
           l == [Top EXCEPT !.pc = p, !.hop = h]
           s == [task |-> e.task, order |-> e.order, nested |-> NestingDepth > 0]
<1>1. /\ AllQueues /\ StackOK /\ seq \in Nat /\ started \in Seq(Starts) /\ deferred' = deferred
  BY DEF IndInv, Scalars, StartTask, StartOrder
<1>2. /\ q \in Queues /\ c.immediate \in BOOLEAN
      /\ c.immediate => queue[q].work # <<>> /\ e = queue[q].work[1]
      /\ ~c.immediate => queue[q].delayed_work # <<>> /\ e = queue[q].delayed_work[1]
  BY <1>1, CandidateFacts
<1>3. /\ QueueOK(q, queue[q], d, seq) /\ e \in Entries
      /\ c.immediate => Immediate(q, seq, e)
      /\ ~c.immediate => Delayed(q, seq, e)
  BY CandidateEntry
<1>4. Loses(queue[q], d, u, d, e.task)
  BY TakeLoses
<1>5. queue' = [queue EXCEPT ![q] = u]
  OBVIOUS
<1>6. SetTop(l) /\ started' = IF e.hop THEN started ELSE Append(started, s)
  BY DEF StartTask
<1> HIDE DEF q, e, u
<1>7. e.task \in Tasks /\ e.hop \in BOOLEAN /\ e.order \in Nat /\ QueueOf[e.task] = q
  BY <1>2, <1>3 DEF Entries, Immediate, Delayed
<1>8. InQueue(e.task)
  <2>1. e \in Imm(queue[q], d) \cup Del(queue[q], d)
    <3>1. queue[q].work \in Seq(Entries) /\ queue[q].delayed_work \in Seq(Entries)
      BY <1>3 DEF QueueOK, Holds, Records
    <3>2. c.immediate => e \in Elems(queue[q].work)
      BY <1>2, <3>1, ElemsTail
    <3>3. ~c.immediate => e \in Elems(queue[q].delayed_work)
      BY <1>2, <3>1, ElemsTail
    <3> QED
      BY <1>2, <3>2, <3>3 DEF Imm, Del
  <2> QED
    BY <1>7, <2>1 DEF InQueue, Has, HasIn
<1>9. /\ AllDistinct'
      /\ \A t \in Tasks : InQueue(t)' <=> IF QueueOf[t] = q THEN Has(u, d, t) ELSE InQueue(t)
  <2>1. deferred' = [deferred EXCEPT ![q] = d]
    BY <1>1, <1>2 DEF AllQueues
  <2> QED
    BY <1>1, <1>2, <1>4, <1>5, <2>1, OneQueueHomes DEF Loses
<1>10. \A t \in Tasks : InQueue(t)' <=> InQueue(t) /\ t # e.task
  BY <1>4, <1>7, <1>9 DEF Loses, InQueue
<1>11. \A t : ~Carried(t)
  BY <1>1, NoneCarried
<1>12. Top \in Loops
  BY <1>1, TopFacts
<1>13. l.pc = p /\ l.hop = h
  <2> HIDE DEF p, h
  <2> QED
    BY <1>12 DEF Loops
<1>14. ~Started(e.task) /\ e.task \notin unposted
  BY <1>7, <1>8 DEF Conserved, OneHome
<1>15. CASE e.hop
  <2> DEFINE f == [e EXCEPT !.hop = FALSE]
  <2>1. h = {f} /\ p = "hop" /\ started' = started
    BY <1>6, <1>15
  <2>2. ~f.hop /\ f.task = e.task
    BY <1>3 DEF Entries
  <2> HIDE DEF f, l, h, p
  <2>3. HopOK(l)
    BY <1>13, <2>1, <2>2 DEF HopOK
  <2>4. Hops' /\ stack' # <<>> /\ Top' = l
    BY <1>1, <1>6, <2>3, TopHops
  <2>5. \A t : Carried(t)' <=> t = e.task
    BY <1>13, <2>1, <2>2, <2>4 DEF Carried, HasIn
  <2>6. StartedOnce' /\ \A t : Started(t)' <=> Started(t)
    BY <2>1 DEF Conserved, StartedOnce, Started
  <2>7. \A t \in Tasks : OneHome(t)'
    BY <1>10, <1>11, <1>14, <2>5, <2>6 DEF Conserved, OneHome
  <2> QED
    BY <1>9, <2>4, <2>6, <2>7 DEF Conserved
<1>16. CASE ~e.hop
  <2>1. h = {} /\ started' = Append(started, s)
    BY <1>6, <1>16
  <2>2. s \in Starts /\ s.task = e.task
    <3> DEFINE b == (NestingDepth > 0)
    <3>1. b \in BOOLEAN /\ s = [task |-> e.task, order |-> e.order, nested |-> b]
      OBVIOUS
    <3> HIDE DEF b, s
    <3> QED
      BY <1>7, <3>1 DEF Starts
  <2> HIDE DEF l, h, p, s
  <2>3. HopOK(l)
    BY <1>13, <2>1 DEF HopOK
  <2>4. Hops' /\ stack' # <<>> /\ Top' = l
    BY <1>1, <1>6, <2>3, TopHops
  <2>5. \A t : ~Carried(t)'
    BY <1>13, <2>1, <2>4 DEF Carried, HasIn
  <2>6. StartedOnce' /\ \A t : Started(t)' <=> Started(t) \/ t = e.task
    BY <1>1, <1>14, <2>1, <2>2, StartsOnce
  <2>7. \A t \in Tasks : OneHome(t)'
    BY <1>10, <1>11, <1>14, <2>5, <2>6 DEF Conserved, OneHome
  <2> QED
    BY <1>9, <2>4, <2>6, <2>7 DEF Conserved
<1> QED
  BY <1>7, <1>15, <1>16

\* PickTask.
LEMMA PickTaskConserved ==
  ASSUME IndInv, Conserved, PickTask
  PROVE  Conserved'
<1>1. stack # <<>> /\ Top.pc = "pick" /\ unposted' = unposted
  BY DEF PickTask, At
<1>2. PICK c \in Candidates :
        /\ queue' = [queue EXCEPT ![c.queue] = TakeTask(queue[c.queue], c.immediate)]
        /\ IF ~Nestable(c.entry) /\ NestingDepth > 0 THEN Defer(c) ELSE StartTask(c)
  BY DEF PickTask
<1>3. CASE ~Nestable(c.entry) /\ NestingDepth > 0
  BY <1>1, <1>2, <1>3, DeferConserved
<1>4. CASE ~(~Nestable(c.entry) /\ NestingDepth > 0)
  BY <1>1, <1>2, <1>4, StartTaskConserved
<1> QED
  BY <1>3, <1>4

\* A hop brings the task it carries to its queue.
LEMMA HopTaskConserved ==
  ASSUME IndInv, Conserved, HopTask
  PROVE  Conserved'
<1> DEFINE l == AfterTaskLoop
<1>1. /\ stack # <<>> /\ Top.pc = "hop" /\ ScheduleDelayedWorkTask /\ AfterTask
      /\ UNCHANGED <<deferred, unposted, started>>
  BY DEF HopTask, At
<1>2. AllQueues /\ StackOK /\ seq \in Nat \ {0} /\ now \in Nat \ {0}
  BY DEF IndInv, Scalars
<1>3. SetTop(l) /\ l.hop = {}
  BY <1>1, <1>2, AfterTaskFacts
<1> HIDE DEF l
<1>4. Hops' /\ \A t : ~Carried(t)'
  <2>1. HopOK(l)
    BY <1>3 DEF HopOK
  <2>2. Hops' /\ Top' = l
    BY <1>1, <1>2, <1>3, <2>1, TopHops
  <2> QED
    BY <1>3, <2>2 DEF Carried, HasIn
<1>5. PICK e \in Top.hop :
        LET q == QueueOf[e.task]
            pushed == PushDelayed(queue[q], [e EXCEPT !.time = Max({e.time, now})])
        IN
        \E ripe \in IF e.time <= now THEN HeapOrders(Due(pushed)) ELSE {<<>>} :
          queue' = [queue EXCEPT ![q] = IF e.time <= now THEN MoveReady(pushed, ripe, seq)
                                        ELSE UpdateDelayedWakeUp(pushed)]
  BY <1>1, Zenon DEF ScheduleDelayedWorkTask
<1> DEFINE q == QueueOf[e.task]
           f == [e EXCEPT !.time = Max({e.time, now})]
           pushed == PushDelayed(queue[q], f)
<1>6. Top \in Loops /\ LoopOK(Top, seq) /\ HopOK(Top)
  <2>1. Len(stack) \in 1..Len(stack)
    BY <1>1, <1>2, TopFacts
  <2> QED
    BY <1>1, <1>2, <2>1, TopFacts DEF Conserved, Hops, Top
<1>7. e \in Entries /\ Delayed(q, seq, e) /\ ~e.hop /\ \A g \in Top.hop : g = e
  BY <1>6 DEF Loops, LoopOK, HopOK
<1>8. e.time \in Nat /\ e.task \in Tasks /\ Delay[e.task] > 0
  BY <1>7 DEF Entries, Delayed
<1>9. Max({e.time, now}) \in Nat /\ Max({e.time, now}) > 0
  BY <1>2, <1>8, MaxOfTwo
<1>10. f \in Entries /\ f.task = e.task /\ f.order = e.order /\ f.time > 0 /\ ~f.hop
  BY <1>7, <1>9 DEF Entries
<1> HIDE DEF f
<1>11. q \in Queues
  BY <1>8, Parameters
<1>12. Delayed(q, seq, f) /\ Delay[f.task] > 0
  BY <1>7, <1>8, <1>10 DEF Delayed
<1>13. \A t : Carried(t) <=> t = e.task
  BY <1>1, <1>7 DEF Carried, HasIn
<1>14. ~Has(queue[q], deferred[q], e.task)
  BY <1>8, <1>13 DEF Conserved, OneHome, InQueue
<1> HIDE DEF q
<1>15. QueueOK(q, queue[q], deferred[q], seq) /\ queue[q] \in Records
  BY <1>2, <1>11 DEF AllQueues
<1>16. Distinct(queue[q], deferred[q])
  BY <1>11 DEF Conserved, AllDistinct
<1>17. Holds(q, pushed, deferred[q], seq)
  BY <1>2, <1>10, <1>12, <1>15, HoldsPushed
<1>18. Gains(queue[q], deferred[q], pushed, deferred[q], e.task)
  BY <1>10, <1>12, <1>14, <1>15, <1>16, PushGains
<1>19. PICK ripe \in IF e.time <= now THEN HeapOrders(Due(pushed)) ELSE {<<>>} :
         queue' = [queue EXCEPT ![q] = IF e.time <= now THEN MoveReady(pushed, ripe, seq)
                                       ELSE UpdateDelayedWakeUp(pushed)]
  BY <1>5, Zenon DEF q, f
<1> DEFINE r == IF e.time <= now THEN MoveReady(pushed, ripe, seq)
                ELSE UpdateDelayedWakeUp(pushed)
<1> HIDE DEF pushed
<1>20. Keeps(pushed, deferred[q], r, deferred[q])
  <2>1. Distinct(pushed, deferred[q])
    BY <1>18 DEF Gains
  <2>2. CASE e.time <= now
    <3>1. r = MoveReady(pushed, ripe, seq) /\ ripe \in HeapOrders(Due(pushed))
      BY <1>19, <2>2
    <3>2. Keeps(pushed, deferred[q], MoveReady(pushed, ripe, seq), deferred[q])
      BY <1>2, <1>17, <2>1, <3>1, MoveReadyKeeps
    <3> QED
      BY <3>1, <3>2
  <2>3. CASE ~(e.time <= now)
    BY <1>2, <1>17, <2>1, <2>3, WakeUpKeeps
  <2> QED
    BY <2>2, <2>3
<1>21. queue' = [queue EXCEPT ![q] = r]
  BY <1>19
<1> HIDE DEF r
<1>22. deferred' = [deferred EXCEPT ![q] = deferred[q]]
  BY <1>1, <1>2 DEF AllQueues
<1>23. /\ AllDistinct'
       /\ \A t \in Tasks :
            InQueue(t)' <=> IF QueueOf[t] = q THEN Has(r, deferred[q], t) ELSE InQueue(t)
  BY <1>2, <1>11, <1>20, <1>21, <1>22, OneQueueHomes DEF Keeps
<1>24. \A t \in Tasks : InQueue(t)' <=> InQueue(t) \/ t = e.task
  BY <1>18, <1>20, <1>23 DEF Keeps, Gains, InQueue, q
<1>25. StartedOnce' /\ \A t : Started(t)' <=> Started(t)
  BY <1>1 DEF Conserved, StartedOnce, Started
<1>26. \A t \in Tasks : OneHome(t)'
  BY <1>1, <1>4, <1>13, <1>24, <1>25 DEF Conserved, OneHome
<1> QED
  BY <1>4, <1>23, <1>25, <1>26 DEF Conserved

\* The initial state: no task was posted.
LEMMA InitConserved ==
  ASSUME Init
  PROVE  Conserved
<1>1. /\ queue = [q \in Queues |-> NewQueue] /\ deferred = [q \in Queues |-> NoBacklog]
      /\ stack = <<>> /\ started = <<>> /\ unposted = Tasks
  BY DEF Init, NoneDeferred, NoBacklog
<1>2. /\ NewQueue.work = <<>> /\ NewQueue.incoming = <<>> /\ NewQueue.delayed_work = <<>>
      /\ NewQueue.delayed_incoming = {} /\ NoBacklog.immediate = <<>> /\ NoBacklog.delayed = <<>>
  BY DEF NewQueue, NoBacklog
<1>3. Imm(NewQueue, NoBacklog) = {} /\ Del(NewQueue, NoBacklog) = {}
  BY <1>2, NoElems DEF Imm, Del
<1>4. Distinct(NewQueue, NoBacklog) /\ \A t : ~Has(NewQueue, NoBacklog, t)
  BY <1>2, <1>3 DEF Distinct, Apart, Has, HasIn
<1>5. AllDistinct
  BY <1>1, <1>4 DEF AllDistinct
<1>6. Hops /\ StartedOnce /\ \A t : ~Carried(t) /\ ~Started(t)
  BY <1>1 DEF Hops, StartedOnce, Carried, Started
<1>7. ASSUME NEW t \in Tasks PROVE ~InQueue(t)
  <2>1. QueueOf[t] \in Queues
    BY Parameters
  <2> QED
    BY <1>1, <1>4, <2>1 DEF InQueue
<1>8. \A t \in Tasks : OneHome(t)
  BY <1>1, <1>6, <1>7 DEF OneHome
<1> QED
  BY <1>5, <1>6, <1>8 DEF Conserved

\* The steps of the main thread.
LEMMA LoopStepsConserved ==
  ASSUME IndInv, Conserved, LoopSteps
  PROVE  Conserved'
<1>1. CASE \/ DoSomeWork \/ SelectNextTask \/ EndTask \/ WillCheckForMoreWork
           \/ DelayTillNextTask \/ DelayTillNextTaskReloaded \/ DidCheck \/ PumpWakesUp
  BY <1>1, QuietSteps
<1>2. CASE \E q \in Queues : ReloadEmptyImmediateWorkQueue(q)
  BY <1>2, ReloadConserved
<1>3. CASE MoveReadyDelayedTasksToWorkQueues
  BY <1>3, MoveReadyConserved
<1>4. CASE PickTask
  BY <1>4, PickTaskConserved
<1>5. CASE HopTask
  BY <1>5, HopTaskConserved
<1>6. CASE ExitRun
  BY <1>6, ExitRunConserved
<1> QED
  BY <1>1, <1>2, <1>3, <1>4, <1>5, <1>6 DEF LoopSteps

\* The calls that running tasks make.
LEMMA CallsConserved ==
  ASSUME IndInv, Conserved, Calls
  PROVE  Conserved'
<1>1. ASSUME NEW b \in BOOLEAN, SetTaskExecutionAllowed(b) PROVE Conserved'
  <2>1. UNCHANGED <<queue, deferred, stack, unposted, started>>
    BY <1>1 DEF SetTaskExecutionAllowed
  <2> QED
    BY <2>1, ElsewhereConserved
<1>2. CASE \E b, u \in BOOLEAN : RunNested(b, u)
  BY <1>2, RunNestedConserved
<1>3. CASE \E k \in 1..Len(stack) : Quit(k) \/ QuitWhenIdle(k)
  BY <1>3, QuitConserved
<1>4. CASE \E q \in Queues, b \in BOOLEAN : SetQueueEnabled(q, b) \/ InsertFence(q, b)
  BY <1>4, SwitchConserved
<1>5. CASE \E q \in Queues : RemoveFence(q)
  BY <1>5, SwitchConserved
<1> QED
  BY <1>1, <1>2, <1>3, <1>4, <1>5 DEF Calls

\* Every step keeps every task.
LEMMA NextConserved ==
  ASSUME IndInv, Conserved, [Next]_vars
  PROVE  Conserved'
<1>1. ASSUME \/ \E p \in Posters : PosterSteps(p)
             \/ BindToCurrentThread \/ Tick \/ vars' = vars
      PROVE  Conserved'
  <2>1. UNCHANGED <<queue, deferred, stack, unposted, started>>
    BY <1>1 DEF PosterSteps, RequestWork, SignalPump, BindToCurrentThread, Tick, main_only, vars
  <2> QED
    BY <2>1, ElsewhereConserved
<1>2. CASE \E p \in Posters : PosterSteps(p) \/ \E t \in FromOthers : PostTask(p, t)
  BY <1>1, <1>2, PostTaskConserved
<1>3. CASE MainSteps
  <2>1. \A b \in OutermostUntilIdle : b \in BOOLEAN
    BY Parameters
  <2> QED
    BY <1>1, <1>3, <2>1, LoopStepsConserved, RunConserved DEF MainSteps
<1>4. CASE Calls
  BY <1>4, CallsConserved
<1>5. CASE \E t \in FromMain : MainPostTask(t)
  BY <1>5, MainPostTaskConserved
<1>6. CASE Tick \/ vars' = vars
  BY <1>1, <1>6
<1> QED
  BY <1>2, <1>3, <1>4, <1>5, <1>6 DEF Next

\* Every task has one home, on every way through the incoming queues, reloads, hops of delayed
\* tasks, deferrals and requeues.
THEOREM Conservation == Spec => []Conserved
<1>1. Init => Conserved
  BY InitConserved
<1>2. IndInv /\ Conserved /\ [Next]_vars => Conserved'
  BY NextConserved
<1> QED
  BY <1>1, <1>2, Invariance, PTL DEF Spec

\* A place in an ordered line is known by its entry.
LEMMA SamePlace ==
  ASSUME NEW s \in Seq(Entries), Increasing(s), NEW j \in 1..Len(s), NEW k \in 1..Len(s),
         s[j] = s[k]
  PROVE  j = k
<1>1. s[j] \in Entries /\ s[j].order = s[k].order
  OBVIOUS
<1>2. s[j].order \in Nat
  BY <1>1 DEF Entries
<1>3. ~(j < k) /\ ~(k < j)
  BY <1>1, <1>2 DEF Increasing
<1> QED
  BY <1>3

\* The line i of a queue, as a case of its own.
LineOf(q, i) == Lines(q)[i]
\* The five lines.
LEMMA FiveLines ==
  ASSUME NEW q
  PROVE  /\ LineOf(q, 1) = queue[q].incoming /\ LineOf(q, 2) = queue[q].work
         /\ LineOf(q, 3) = queue[q].delayed_work /\ LineOf(q, 4) = deferred[q].immediate
         /\ LineOf(q, 5) = deferred[q].delayed
  BY DEF LineOf, Lines

\* A task is in one place of the lines of a queue, and then not among its delayed tasks.
LEMMA OnePlace ==
  ASSUME IndInv, Conserved, NEW q \in Queues
  PROVE  /\ \A i \in 1..5 : LineOf(q, i) \in Seq(Entries)
         /\ \A i, j \in 1..5 : \A k \in 1..Len(LineOf(q, i)), m \in 1..Len(LineOf(q, j)) :
              LineOf(q, i)[k].task = LineOf(q, j)[m].task => i = j /\ k = m
         /\ \A i \in 1..5 : \A k \in 1..Len(LineOf(q, i)) : \A e \in queue[q].delayed_incoming :
              LineOf(q, i)[k].task # e.task
         /\ \A e, f \in queue[q].delayed_incoming : e.task = f.task => e = f
         /\ \A t : Has(queue[q], deferred[q], t) <=>
              \/ \E i \in 1..5 : \E k \in 1..Len(LineOf(q, i)) : LineOf(q, i)[k].task = t
              \/ \E e \in queue[q].delayed_incoming : e.task = t
<1> DEFINE r == queue[q]
           d == deferred[q]
           A == Elems(LineOf(q, 1))
           B == Elems(LineOf(q, 2))
           C == Elems(LineOf(q, 3))
           D == Elems(LineOf(q, 4))
           E == Elems(LineOf(q, 5))
           W == r.delayed_incoming
<1>1. /\ LineOf(q, 1) = r.incoming /\ LineOf(q, 2) = r.work /\ LineOf(q, 3) = r.delayed_work
      /\ LineOf(q, 4) = d.immediate /\ LineOf(q, 5) = d.delayed
  BY FiveLines
<1>2. Holds(q, r, d, seq) /\ Apart(Imm(r, d), Del(r, d), W)
  BY DEF IndInv, AllQueues, QueueOK, Conserved, AllDistinct, Distinct
<1>3. \A e \in Imm(r, d) \cup Del(r, d) \cup W : Delay[e.task] \in Nat
  BY <1>2, EntriesOfTasks
<1>4. Imm(r, d) = A \cup B \cup D /\ Del(r, d) = C \cup E
  BY <1>1 DEF Imm, Del
<1>5. r \in Records /\ d \in Backlogs /\ Orders(r, d)
  BY <1>2 DEF Holds
<1>6. /\ LineOf(q, 1) \in Seq(Entries) /\ LineOf(q, 2) \in Seq(Entries)
      /\ LineOf(q, 3) \in Seq(Entries) /\ LineOf(q, 4) \in Seq(Entries)
      /\ LineOf(q, 5) \in Seq(Entries)
  BY <1>1, <1>5 DEF Records, Backlogs
<1>7. /\ Increasing(LineOf(q, 1)) /\ Increasing(LineOf(q, 2)) /\ Increasing(LineOf(q, 3))
      /\ Increasing(LineOf(q, 4)) /\ Increasing(LineOf(q, 5))
      /\ Below(D, B) /\ Below(D, A) /\ Below(B, A) /\ Below(E, C)
  BY <1>1, <1>5 DEF Orders
<1>8. /\ \A e, f \in A \cup B \cup C \cup D \cup E \cup W : e.task = f.task => e = f
      /\ (A \cup B \cup D) \cap (C \cup E) = {} /\ (A \cup B \cup C \cup D \cup E) \cap W = {}
  <2> HIDE DEF A, B, C, D, E, W
  <2> QED
    BY <1>2, <1>3, <1>4 DEF Apart
<1>9. 1..5 = {1, 2, 3, 4, 5}
  OBVIOUS
<1>10. \A i \in 1..5 : LineOf(q, i) \in Seq(Entries) /\ Increasing(LineOf(q, i))
  BY <1>6, <1>7, <1>9
<1>11. \A i \in 1..5 : Elems(LineOf(q, i)) \subseteq A \cup B \cup C \cup D \cup E
  BY <1>9
<1>12. ASSUME NEW i \in 1..5, NEW j \in 1..5, i # j
       PROVE  Elems(LineOf(q, i)) \cap Elems(LineOf(q, j)) = {}
  <2>1. A \subseteq Entries /\ B \subseteq Entries /\ C \subseteq Entries /\ D \subseteq Entries
        /\ E \subseteq Entries
    BY <1>6, ElemsType
  <2>2. ASSUME NEW S, NEW T, S \subseteq Entries, Below(S, T) PROVE S \cap T = {}
    BY <2>2 DEF Below, Entries
  <2>3. /\ D \cap B = {} /\ D \cap A = {} /\ B \cap A = {} /\ E \cap C = {}
    BY <1>7, <2>1, <2>2
  <2> HIDE DEF A, B, C, D, E, W
  <2>4. /\ A \cap B = {} /\ A \cap C = {} /\ A \cap D = {} /\ A \cap E = {} /\ B \cap C = {}
        /\ B \cap D = {} /\ B \cap E = {} /\ C \cap D = {} /\ C \cap E = {} /\ D \cap E = {}
    BY <1>8, <2>3
  <2> QED
    BY <1>9, <1>12, <2>4 DEF A, B, C, D, E
<1>13. ASSUME NEW i \in 1..5, NEW k \in 1..Len(LineOf(q, i))
       PROVE  LineOf(q, i)[k] \in Elems(LineOf(q, i))
  BY DEF Elems
<1> HIDE DEF A, B, C, D, E, W
<1>14. ASSUME NEW i \in 1..5, NEW j \in 1..5, NEW k \in 1..Len(LineOf(q, i)),
              NEW m \in 1..Len(LineOf(q, j)), LineOf(q, i)[k].task = LineOf(q, j)[m].task
       PROVE  i = j /\ k = m
  <2>1. LineOf(q, i)[k] = LineOf(q, j)[m]
    BY <1>8, <1>11, <1>13, <1>14
  <2>2. i = j
    BY <1>12, <1>13, <2>1
  <2> QED
    BY <1>10, <2>1, <2>2, SamePlace
<1>15. ASSUME NEW i \in 1..5, NEW k \in 1..Len(LineOf(q, i)), NEW e \in W
       PROVE  LineOf(q, i)[k].task # e.task
  BY <1>8, <1>11, <1>13
<1>16. \A e, f \in W : e.task = f.task => e = f
  BY <1>8
<1>17. ASSUME NEW t
       PROVE  Has(r, d, t) <=>
                \/ \E i \in 1..5 : \E k \in 1..Len(LineOf(q, i)) : LineOf(q, i)[k].task = t
                \/ \E e \in W : e.task = t
  <2>1. Has(r, d, t) <=> HasIn(A \cup B \cup C \cup D \cup E \cup W, t)
    BY <1>4 DEF Has, HasIn, W
  <2>2. ASSUME NEW e \in A \cup B \cup C \cup D \cup E
        PROVE  \E i \in 1..5 : \E k \in 1..Len(LineOf(q, i)) : LineOf(q, i)[k] = e
    <3>1. PICK i \in 1..5 : e \in Elems(LineOf(q, i))
      BY <1>9 DEF A, B, C, D, E
    <3> QED
      BY <3>1 DEF Elems
  <2>3. ASSUME NEW i \in 1..5, NEW k \in 1..Len(LineOf(q, i)), LineOf(q, i)[k].task = t
        PROVE  HasIn(A \cup B \cup C \cup D \cup E \cup W, t)
    BY <1>11, <1>13, <2>3 DEF HasIn
  <2> QED
    BY <2>1, <2>2, <2>3 DEF HasIn
<1> QED
  BY <1>10, <1>14, <1>15, <1>16, <1>17 DEF W

\* What is in each of the parts of Where(t).
LEMMA InParts ==
  ASSUME NEW t, NEW w
  PROVE  /\ w \in InUnposted(t) <=> w = <<"unposted">> /\ t \in unposted
         /\ w \in InLines(t) <=>
              \E q \in Queues, i \in 1..5 : \E k \in 1..Len(LineOf(q, i)) :
                LineOf(q, i)[k].task = t /\ w = <<"line", q, i, k>>
         /\ w \in InDelayed(t) <=>
              \E q \in Queues : \E e \in queue[q].delayed_incoming :
                e.task = t /\ w = <<"delayed", q, e>>
         /\ w \in InHops(t) <=>
              \E k \in 1..Len(stack) : \E e \in stack[k].hop : e.task = t /\ w = <<"hop", k, e>>
         /\ w \in InStarted(t) <=>
              \E k \in 1..Len(started) : started[k].task = t /\ w = <<"started", k>>
<1>1. w \in InUnposted(t) <=> w = <<"unposted">> /\ t \in unposted
  BY DEF InUnposted
<1>2. w \in InLines(t) <=>
        \E q \in Queues, i \in 1..5 : \E k \in 1..Len(LineOf(q, i)) :
          LineOf(q, i)[k].task = t /\ w = <<"line", q, i, k>>
  <2>1. ASSUME NEW q, NEW i
        PROVE  w \in {<<"line", q, i, k>> : k \in {n \in 1..Len(LineOf(q, i)) : LineOf(q, i)[n].task = t}}
                 <=> \E k \in 1..Len(LineOf(q, i)) :
                       LineOf(q, i)[k].task = t /\ w = <<"line", q, i, k>>
    OBVIOUS
  <2>2. w \in InLines(t) <=>
          \E q \in Queues, i \in 1..5 :
            w \in {<<"line", q, i, k>> : k \in {n \in 1..Len(LineOf(q, i)) : LineOf(q, i)[n].task = t}}
    BY DEF InLines, PlacesOf, LineOf
  <2> QED
    BY <2>1, <2>2
<1>3. w \in InDelayed(t) <=>
        \E q \in Queues : \E e \in queue[q].delayed_incoming :
          e.task = t /\ w = <<"delayed", q, e>>
  BY DEF InDelayed, EntriesOf
<1>4. w \in InHops(t) <=>
        \E k \in 1..Len(stack) : \E e \in stack[k].hop : e.task = t /\ w = <<"hop", k, e>>
  BY DEF InHops, EntriesOf
<1>5. w \in InStarted(t) <=>
        \E k \in 1..Len(started) : started[k].task = t /\ w = <<"started", k>>
  BY DEF InStarted, PlacesOf
<1> QED
  BY <1>1, <1>2, <1>3, <1>4, <1>5

\* The lines and the delayed tasks have a task in one place at most, if its queue has it.
LEMMA QueuePlaces ==
  ASSUME IndInv, Conserved, NEW t \in Tasks
  PROVE  /\ \A v, w \in InLines(t) \cup InDelayed(t) : v = w
         /\ InQueue(t) <=> InLines(t) \cup InDelayed(t) # {}
<1> DEFINE p == QueueOf[t]
<1>1. p \in Queues
  BY Parameters
<1>2. ASSUME NEW q \in Queues, NEW i \in 1..5, NEW k \in 1..Len(LineOf(q, i)),
             LineOf(q, i)[k].task = t
      PROVE  q = p
  <2>1. LineOf(q, i)[k] \in Imm(queue[q], deferred[q]) \cup Del(queue[q], deferred[q])
    <3>1. LineOf(q, i)[k] \in Elems(LineOf(q, i)) /\ 1..5 = {1, 2, 3, 4, 5}
      BY DEF Elems
    <3> QED
      BY <3>1, FiveLines DEF Imm, Del
  <2>2. Holds(q, queue[q], deferred[q], seq)
    BY DEF IndInv, AllQueues, QueueOK
  <2>3. QueueOf[LineOf(q, i)[k].task] = q
    BY <2>1, <2>2, EntriesOfTasks
  <2> QED
    BY <1>2, <2>3
<1>3. ASSUME NEW q \in Queues, NEW e \in queue[q].delayed_incoming, e.task = t PROVE q = p
  <2>1. Holds(q, queue[q], deferred[q], seq)
    BY DEF IndInv, AllQueues, QueueOK
  <2>2. QueueOf[e.task] = q
    BY <2>1, EntriesOfTasks
  <2> QED
    BY <1>3, <2>2
<1> HIDE DEF p
<1>4. /\ \A i, j \in 1..5 : \A k \in 1..Len(LineOf(p, i)), m \in 1..Len(LineOf(p, j)) :
           LineOf(p, i)[k].task = LineOf(p, j)[m].task => i = j /\ k = m
      /\ \A i \in 1..5 : \A k \in 1..Len(LineOf(p, i)) : \A e \in queue[p].delayed_incoming :
           LineOf(p, i)[k].task # e.task
      /\ \A e, f \in queue[p].delayed_incoming : e.task = f.task => e = f
      /\ Has(queue[p], deferred[p], t) <=>
           \/ \E i \in 1..5 : \E k \in 1..Len(LineOf(p, i)) : LineOf(p, i)[k].task = t
           \/ \E e \in queue[p].delayed_incoming : e.task = t
  BY <1>1, OnePlace
<1>5. ASSUME NEW v \in InLines(t)
      PROVE  \E i \in 1..5 : \E k \in 1..Len(LineOf(p, i)) :
               LineOf(p, i)[k].task = t /\ v = <<"line", p, i, k>>
  <2>1. PICK q \in Queues, i \in 1..5 : \E k \in 1..Len(LineOf(q, i)) :
          LineOf(q, i)[k].task = t /\ v = <<"line", q, i, k>>
    BY <1>5, InParts
  <2> QED
    BY <1>2, <2>1
<1>6. ASSUME NEW v \in InDelayed(t)
      PROVE  \E e \in queue[p].delayed_incoming : e.task = t /\ v = <<"delayed", p, e>>
  <2>1. PICK q \in Queues : \E e \in queue[q].delayed_incoming :
          e.task = t /\ v = <<"delayed", q, e>>
    BY <1>6, InParts
  <2> QED
    BY <1>3, <2>1
<1>7. ASSUME NEW v \in InLines(t), NEW w \in InLines(t) PROVE v = w
  <2>1. PICK i \in 1..5 : \E k \in 1..Len(LineOf(p, i)) :
          LineOf(p, i)[k].task = t /\ v = <<"line", p, i, k>>
    BY <1>5, <1>7
  <2>2. PICK j \in 1..5 : \E k \in 1..Len(LineOf(p, j)) :
          LineOf(p, j)[k].task = t /\ w = <<"line", p, j, k>>
    BY <1>5, <1>7
  <2>3. PICK k \in 1..Len(LineOf(p, i)) : LineOf(p, i)[k].task = t /\ v = <<"line", p, i, k>>
    BY <2>1
  <2>4. PICK m \in 1..Len(LineOf(p, j)) : LineOf(p, j)[m].task = t /\ w = <<"line", p, j, m>>
    BY <2>2
  <2>5. LineOf(p, i)[k].task = LineOf(p, j)[m].task
    BY <2>3, <2>4
  <2>6. i = j /\ k = m
    BY <1>4, <2>5
  <2> QED
    BY <2>3, <2>4, <2>6
<1>8. ASSUME NEW v \in InDelayed(t), NEW w \in InDelayed(t) PROVE v = w
  <2>1. PICK e \in queue[p].delayed_incoming : e.task = t /\ v = <<"delayed", p, e>>
    BY <1>6, <1>8
  <2>2. PICK f \in queue[p].delayed_incoming : f.task = t /\ w = <<"delayed", p, f>>
    BY <1>6, <1>8
  <2>3. e = f
    BY <1>4, <2>1, <2>2
  <2> QED
    BY <2>1, <2>2, <2>3
<1>9. ASSUME NEW v \in InLines(t), NEW w \in InDelayed(t) PROVE FALSE
  BY <1>4, <1>5, <1>6, <1>9
<1>10. \A v, w \in InLines(t) \cup InDelayed(t) : v = w
  BY <1>7, <1>8, <1>9
<1>11. InQueue(t) <=> Has(queue[p], deferred[p], t)
  BY DEF InQueue, p
<1>12. ASSUME InQueue(t) PROVE InLines(t) \cup InDelayed(t) # {}
  <2>1. CASE \E i \in 1..5 : \E k \in 1..Len(LineOf(p, i)) : LineOf(p, i)[k].task = t
    <3>1. PICK i \in 1..5 : \E k \in 1..Len(LineOf(p, i)) : LineOf(p, i)[k].task = t
      BY <2>1
    <3>2. PICK k \in 1..Len(LineOf(p, i)) : LineOf(p, i)[k].task = t
      BY <3>1
    <3>3. <<"line", p, i, k>> \in InLines(t)
      BY <1>1, <3>2, InParts
    <3> QED
      BY <3>3
  <2>2. CASE \E e \in queue[p].delayed_incoming : e.task = t
    <3>1. PICK e \in queue[p].delayed_incoming : e.task = t
      BY <2>2
    <3>2. <<"delayed", p, e>> \in InDelayed(t)
      BY <1>1, <3>1, InParts
    <3> QED
      BY <3>2
  <2> QED
    BY <1>4, <1>11, <1>12, <2>1, <2>2
<1>13. ASSUME InLines(t) \cup InDelayed(t) # {} PROVE InQueue(t)
  BY <1>4, <1>5, <1>6, <1>11, <1>13
<1> QED
  BY <1>10, <1>12, <1>13

\* The same of the hops, and of the starts.
LEMMA OtherPlaces ==
  ASSUME IndInv, Conserved, NEW t
  PROVE  /\ \A v, w \in InHops(t) : v = w
         /\ Carried(t) <=> InHops(t) # {}
         /\ \A v, w \in InStarted(t) : v = w
         /\ Started(t) <=> InStarted(t) # {}
<1>1. /\ StackOK /\ Hops /\ StartedOnce
  BY DEF IndInv, Conserved
<1>2. ASSUME NEW k \in 1..Len(stack), NEW e \in stack[k].hop
      PROVE  k = Len(stack) /\ stack # <<>> /\ \A f \in stack[k].hop : f = e
  <2>1. stack[k].pc = "hop" /\ \A f \in stack[k].hop : f = e
    BY <1>1, <1>2 DEF Hops, HopOK
  <2>2. ~(k < Len(stack)) /\ Len(stack) \in Nat
    BY <1>1, <2>1 DEF StackOK
  <2> QED
    BY <2>1, <2>2
<1>3. \A v, w \in InHops(t) : v = w
  <2> SUFFICES ASSUME NEW v \in InHops(t), NEW w \in InHops(t) PROVE v = w
    OBVIOUS
  <2>1. PICK k \in 1..Len(stack) : \E e \in stack[k].hop : e.task = t /\ v = <<"hop", k, e>>
    BY InParts
  <2>2. PICK m \in 1..Len(stack) : \E e \in stack[m].hop : e.task = t /\ w = <<"hop", m, e>>
    BY InParts
  <2>3. PICK e \in stack[k].hop : v = <<"hop", k, e>>
    BY <2>1
  <2>4. PICK f \in stack[m].hop : w = <<"hop", m, f>>
    BY <2>2
  <2>5. k = m /\ e = f
    BY <1>2
  <2> QED
    BY <2>3, <2>4, <2>5
<1>4. ASSUME Carried(t) PROVE InHops(t) # {}
  <2>1. Len(stack) \in 1..Len(stack)
    BY <1>1, <1>4 DEF Carried, StackOK
  <2>2. PICK e \in stack[Len(stack)].hop : e.task = t
    BY <1>4 DEF Carried, HasIn, Top
  <2>3. <<"hop", Len(stack), e>> \in InHops(t)
    BY <2>1, <2>2, InParts
  <2> QED
    BY <2>3
<1>5. ASSUME NEW v \in InHops(t) PROVE Carried(t)
  <2>1. PICK k \in 1..Len(stack) : \E e \in stack[k].hop : e.task = t
    BY InParts
  <2>2. k = Len(stack) /\ stack # <<>>
    BY <1>2, <2>1
  <2> QED
    BY <2>1, <2>2 DEF Carried, HasIn, Top
<1>6. \A v, w \in InStarted(t) : v = w
  BY <1>1, InParts DEF StartedOnce
<1>7. Started(t) <=> InStarted(t) # {}
  <2>1. ASSUME Started(t) PROVE InStarted(t) # {}
    <3>1. PICK k \in 1..Len(started) : started[k].task = t
      BY <2>1 DEF Started
    <3>2. <<"started", k>> \in InStarted(t)
      BY <3>1, InParts
    <3> QED
      BY <3>2
  <2>2. ASSUME NEW v \in InStarted(t) PROVE Started(t)
    BY InParts DEF Started
  <2> QED
    BY <2>1, <2>2
<1> QED
  BY <1>3, <1>4, <1>5, <1>6, <1>7

\* A task with one home is in one place.
LEMMA HomesArePlaces ==
  ASSUME IndInv, Conserved
  PROVE  TasksConserved
<1> SUFFICES ASSUME NEW t \in Tasks PROVE Cardinality(Where(t)) = 1
  BY DEF TasksConserved
<1> DEFINE U == InUnposted(t)
           Q == InLines(t) \cup InDelayed(t)
           H == InHops(t)
           S == InStarted(t)
<1>1. Where(t) = U \cup Q \cup H \cup S
  BY DEF Where
<1>2. OneHome(t)
  BY DEF Conserved
<1>3. (\A v, w \in U : v = w) /\ (t \in unposted <=> U # {})
  <2>1. \A w : w \in U <=> w = <<"unposted">> /\ t \in unposted
    BY InParts
  <2> HIDE DEF U
  <2>2. t \in unposted => <<"unposted">> \in U
    BY <2>1
  <2>3. U # {} => t \in unposted
    BY <2>1
  <2>4. \A v, w \in U : v = w
    BY <2>1
  <2> QED
    BY <2>2, <2>3, <2>4
<1>4. (\A v, w \in Q : v = w) /\ (InQueue(t) <=> Q # {})
  BY QueuePlaces
<1>5. /\ (\A v, w \in H : v = w) /\ (Carried(t) <=> H # {})
      /\ (\A v, w \in S : v = w) /\ (Started(t) <=> S # {})
  BY OtherPlaces
<1> HIDE DEF U, Q, H, S
<1>6. PICK w : w \in U \cup Q \cup H \cup S
  BY <1>2, <1>3, <1>4, <1>5 DEF OneHome
<1>7. ASSUME NEW v \in U \cup Q \cup H \cup S PROVE v = w
  BY <1>2, <1>3, <1>4, <1>5, <1>6, <1>7 DEF OneHome
<1>8. Where(t) = {w}
  BY <1>1, <1>6, <1>7
<1> QED
  BY <1>8, FS_Singleton

\* The work queues and what other threads read of them stay consistent: only an empty work
\* queue is reloaded, enqueue orders increase, and every task is in one place (task_queue_impl.cc,
\* work_queue.cc).
THEOREM QueuesStayConsistent == Spec => []QueuesConsistent
<1>1. IndInv /\ Conserved => QueuesConsistent
  <2> SUFFICES ASSUME IndInv, Conserved PROVE QueuesConsistent
    OBVIOUS
  <2>1. Scalars /\ AllQueues /\ StackOK /\ Reloads
    BY DEF IndInv
  <2>2. ASSUME NEW q \in Queues
        PROVE  LET r == queue[q] IN
               /\ r \in Records /\ Contents(q, r, deferred[q], seq) /\ Orders(r, deferred[q])
               /\ Published(r)
               /\ r.work \in Seq(Entries) /\ r.incoming \in Seq(Entries)
               /\ r.delayed_work \in Seq(Entries) /\ r.delayed_incoming \subseteq Entries
    <3>1. QueueOK(q, queue[q], deferred[q], seq)
      BY <2>1 DEF AllQueues
    <3>2. queue[q] \in Records
      BY <3>1 DEF QueueOK, Holds
    <3> QED
      BY <3>1, <3>2 DEF QueueOK, Holds, Records
  <2>3. TypeOK
    <3>1. ASSUME NEW q \in Queues,
                 NEW e \in UNION {Range(queue[q].incoming), Range(queue[q].work),
                                  Range(queue[q].delayed_work), queue[q].delayed_incoming}
          PROVE  EntryOK(e)
      <4>1. /\ Range(queue[q].incoming) = Elems(queue[q].incoming)
            /\ Range(queue[q].work) = Elems(queue[q].work)
            /\ Range(queue[q].delayed_work) = Elems(queue[q].delayed_work)
            /\ Elems(queue[q].incoming) \subseteq Entries
            /\ Elems(queue[q].work) \subseteq Entries
            /\ Elems(queue[q].delayed_work) \subseteq Entries
        BY <2>2, ElemsType
      <4>2. \/ e \in Elems(queue[q].incoming) \/ e \in Elems(queue[q].work)
            \/ e \in Elems(queue[q].delayed_work) \/ e \in queue[q].delayed_incoming
        BY <3>1, <4>1
      <4>3. e \in Entries
        BY <2>2, <4>1, <4>2
      <4>4. Contents(q, queue[q], deferred[q], seq)
        BY <2>2
      <4>5. e.order \in 2..seq
        BY <4>2, <4>4 DEF Contents, Immediate, Delayed
      <4> QED
        BY <4>3, <4>5 DEF EntryOK, Entries
    <3>2. ASSUME NEW q \in Queues PROVE queue[q].fence \in {kNone} \cup kBlockingFence..seq
      <4>1. queue[q].fence \in 0..seq /\ seq \in Nat
        BY <2>1, <2>2 DEF Contents, Scalars
      <4> QED
        BY <4>1 DEF kNone, kBlockingFence
    <3>3. \A k \in 1..Len(stack) : stack[k].pc \in PCs /\ (k < Len(stack) => stack[k].pc = "run")
      <4>1. ASSUME NEW k \in 1..Len(stack) PROVE stack[k].pc \in PCs
        <5>1. stack[k] \in Loops
          BY <2>1 DEF StackOK, LoopOK
        <5> QED
          BY <5>1 DEF Loops
      <4> QED
        BY <2>1, <4>1 DEF StackOK
    <3>4. \A p \in Posters : poster[p] \in {"idle", "request", "signal"}
      BY <2>1 DEF Scalars
    <3> QED
      BY <2>1, <3>1, <3>2, <3>3, <3>4 DEF TypeOK, Scalars
  <2>4. ReloadsOnlyEmptyQueues
    <3>1. \A q \in Queues : queue[q].work_empty = (queue[q].work = <<>>)
      BY <2>2 DEF Published
    <3>2. Reloading => \A q \in Top.callbacks : queue[q].work = <<>>
      <4>1. ASSUME Reloading, NEW q \in Top.callbacks PROVE queue[q].work = <<>>
        <5>1. stack # <<>>
          BY <4>1 DEF Reloading, At
        <5>2. q \in Queues /\ Callbacks = Top.callbacks
          BY <2>1, <5>1, TopFacts DEF Callbacks, Loops
        <5> QED
          BY <2>1, <5>2 DEF Reloads, NeedsReload
      <4> QED
        BY <4>1
    <3>3. \A q \in reload : queue[q].work = <<>>
      BY <2>1 DEF Reloads, NeedsReload, Scalars
    <3> QED
      BY <3>1, <3>2, <3>3 DEF ReloadsOnlyEmptyQueues
  <2>5. EnqueueOrdersIncrease
    <3>1. ASSUME NEW q \in Queues PROVE Increasing(queue[q].work \o queue[q].incoming)
      BY <2>2, IncreasingConcat DEF Orders
    <3>2. ASSUME NEW q \in Queues PROVE Increasing(queue[q].delayed_work)
      BY <2>2 DEF Orders
    <3> QED
      BY <3>1, <3>2 DEF EnqueueOrdersIncrease
  <2>6. TasksConserved
    BY HomesArePlaces
  <2> QED
    BY <2>3, <2>4, <2>5, <2>6 DEF QueuesConsistent
<1> QED
  BY <1>1, Invariance, Conservation, PTL

\* NextScheduledRunTime() is the earliest wake-up.
LEMMA NextRunTimeIsEarliest ==
  ASSUME AllQueues, NEW q \in Queues, queue[q].wake_up # Never
  PROVE  /\ NextRunTime(queue) \in Nat \ {Never}
         /\ NextRunTime(queue) <= queue[q].wake_up
<1> DEFINE times == {queue[x].wake_up : x \in Queues} \ {Never}
<1>1. \A x \in Queues : queue[x].wake_up \in Nat
  BY DEF AllQueues, Records
<1>2. times \subseteq Nat /\ queue[q].wake_up \in times /\ Never \notin times
  BY <1>1
<1>3. NextRunTime(queue) = IF times = {} THEN Never ELSE Min(times)
  BY DEF NextRunTime
<1> HIDE DEF times
<1>4. Min(times) \in times /\ \A y \in times : Min(times) <= y
  BY <1>2, MinIsLeast
<1>5. NextRunTime(queue) = Min(times)
  BY <1>2, <1>3
<1> QED
  BY <1>2, <1>4, <1>5

\* While the pump sleeps (MessagePumpDefault::Run()), a pending flag stands for a signal, and
\* a run loop that may run tasks has forgotten none, whatever the posting threads do meanwhile
\* and however the run loops were nested.
THEOREM NoWorkIsLost == Spec => []NoLostWork
<1>1. IndInv => NoLostWork
  <2> SUFFICES ASSUME IndInv, At("wait") PROVE NoLostWork
    BY DEF NoLostWork
  <2>1. /\ "PendingDoWork" \in state_ => event_ \/ \E p \in Posters : poster[p] = "signal"
        /\ task_execution_allowed =>
             Timed /\ ((\E q \in Queues : Runnable(q)) => WakeUpOnItsWay)
    BY DEF IndInv, Sleep
  <2>2. ASSUME NEW q \in Queues, NEW e \in queue[q].delayed_incoming, queue[q].enabled,
               task_execution_allowed
        PROVE  Top.timed /\ NextRunTime(queue) <= e.time
    <3>1. QueueOK(q, queue[q], deferred[q], seq) /\ AllQueues
      BY DEF IndInv, AllQueues
    <3>2. queue[q].wake_up # Never /\ queue[q].wake_up <= e.time
      BY <2>2, <3>1 DEF QueueOK, Wakes
    <3>3. NextRunTime(queue) \in Nat \ {Never} /\ NextRunTime(queue) <= queue[q].wake_up
      BY <3>1, <3>2, NextRunTimeIsEarliest
    <3>4. queue[q].wake_up \in Nat /\ e \in Entries
      BY <3>1 DEF QueueOK, Holds, Records
    <3>5. e.time \in Nat
      BY <3>4 DEF Entries
    <3> QED
      BY <2>1, <2>2, <3>2, <3>3, <3>4, <3>5 DEF Timed
  <2> QED
    BY <2>1, <2>2 DEF NoLostWork
<1> QED
  BY <1>1, Invariance, PTL

\* Tasks of a queue that were posted without delay start in the order they were posted; only
\* a task of a nested run loop may overtake one, and only a non-nestable one.
THEOREM TasksStartInPostingOrder == Spec => []StartsInPostingOrder
<1>1. IndInv => StartsInPostingOrder
  BY DEF IndInv, StartOrder
<1> QED
  BY <1>1, Invariance, PTL
=============================================================================
