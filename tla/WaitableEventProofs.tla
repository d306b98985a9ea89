------------------------ MODULE WaitableEventProofs ------------------------
(***************************************************************************)
(* Machine-checked proofs about WaitableEvent, for any events, threads,    *)
(* arrays given to WaitMany(), watchers, addresses and Flags: wait-lists   *)
(* are exact, no signal of an auto-reset event is lost or used twice, a    *)
(* wait outlives the Signal() that ends it, a watcher calls back exactly   *)
(* for its active watch, and WaitMany() never waits in a circle.           *)
(***************************************************************************)
EXTENDS WaitableEvent, FiniteSetTheorems, SequenceTheorems, WellFoundedInduction, TLAPS

-----------------------------------------------------------------------------
(***************************************************************************)
(* The inductive invariant.                                                *)
(***************************************************************************)
ThreadStates ==
  [pc : Pcs, events : Seq(Events), many : BOOLEAN,
   timed : BOOLEAN, i : Nat, fired : BOOLEAN, event : Events \cup {Nobody}, result : BOOLEAN,
   during : Threads \cup {Nobody}]

WatcherStates ==
  [flag : Flags \cup {Nobody}, kernel : Events \cup {Nobody}, waiter : Pointers \cup {Nobody}]

Types ==
  /\ signaled_ \in [Events -> BOOLEAN] /\ waiters_ \in [Events -> Seq(Waiters)]
  /\ lock \in [Events -> Threads \cup {Nobody}]
  /\ thread \in [Threads -> ThreadStates]
  /\ watcher \in [Watchers -> WatcherStates]
  /\ set \in SUBSET Flags /\ tasks \in [Watchers -> Seq(Flags)]
  /\ owed \in [Events -> Int]

\* A thread outside of the second half of a wait has a fresh SyncWaiter or none; one inside
\* has been handed signaling_event_ exactly if it was fired before Disable().
Controlled(t) ==
  /\ thread[t].pc \in {"idle", "signal", "signaled", "enqueue"} =>
       /\ ~thread[t].fired /\ ~thread[t].result
       /\ thread[t].event = Nobody /\ thread[t].during = Nobody
  /\ thread[t].pc \in {"enqueue", "cv", "dequeue"} =>
       thread[t].events # <<>> /\ IsInjective(thread[t].events)
  /\ thread[t].pc = "cv" => ~thread[t].result /\ (thread[t].fired <=> thread[t].event # Nobody)
  /\ thread[t].pc = "dequeue" =>
       /\ thread[t].fired /\ (thread[t].result <=> thread[t].event # Nobody)
       /\ thread[t].i \in 1..Len(thread[t].events)
  /\ thread[t].event # Nobody => thread[t].event \in ToSet(thread[t].events)

Control == \A t \in Threads : Controlled(t)

\* Who holds a kernel's lock: a Signal() at work, or an EnqueueMany() that has not got the
\* locks with higher addresses.
SignalHoldsLock(t) ==
  thread[t].pc \in {"signal", "signaled"} =>
    /\ Len(thread[t].events) = 1 /\ lock[thread[t].events[1]] = t
    /\ ~signaled_[thread[t].events[1]]
HeldInCall(t, e) ==
  lock[e] = t => \/ thread[t].pc \in {"signal", "signaled"} /\ thread[t].events[1] = e
                 \/ thread[t].pc = "enqueue" /\ e \in ToSet(thread[t].events)
LocksInOrder(t) ==
  thread[t].pc = "enqueue" =>
    /\ NotLocked(t) # {}
    /\ \A d \in Events : \A e \in NotLocked(t) : lock[d] = t => Address[d] < Address[e]

LocksOf(t) == SignalHoldsLock(t) /\ LocksInOrder(t) /\ \A e \in Events : HeldInCall(t, e)

Locks == \A t \in Threads : LocksOf(t)

\* The events from which t has not removed its SyncWaiter yet.
Ahead(t) ==
  {e \in Events : \E j \in 1..Len(thread[t].events) :
     thread[t].events[j] = e /\ (thread[t].pc = "dequeue" => thread[t].i <= j)}

\* SyncWaiters on wait-lists.
ListSane(e) == IsInjective(waiters_[e]) /\ (signaled_[e] => ToSet(waiters_[e]) = {})
OnList(t, e) ==
  SyncWaiter(t) \in ToSet(waiters_[e]) =>
    thread[t].pc \in {"cv", "dequeue"} /\ e \in Ahead(t) /\ thread[t].event # e
Sleeping(t) ==
  thread[t].pc = "cv" /\ ~thread[t].fired =>
    \A e \in ToSet(thread[t].events) : SyncWaiter(t) \in ToSet(waiters_[e])

ListsOf(t) == Sleeping(t) /\ \A e \in Events : OnList(t, e)

Lists == (\A e \in Events : ListSane(e)) /\ \A t \in Threads : ListsOf(t)

\* The Signal() that fired a waiter holds the lock the waiter has still to take.
FiredBy(t, u) ==
  thread[t].during = u =>
    /\ thread[u].pc \in {"signal", "signaled"} /\ thread[u].events[1] = thread[t].event
    /\ thread[t].event \in Ahead(t)

Firing == \A t, u \in Threads : FiredBy(t, u)

\* The threads that were handed the signal of e.
Handed(e) == {t \in Threads : thread[t].event = e}

Signaling(e) == \E t \in Threads : thread[t].pc = "signal" /\ thread[t].events[1] = e

\* A signal is in the event, with a Signal() that looks for a waiter, or with a waiter.
Balanced(e) ==
  AutoReset(e) =>
    owed[e] = (IF signaled_[e] THEN 1 ELSE 0) + (IF Signaling(e) THEN 1 ELSE 0)
              + Cardinality(Handed(e))

Conserved == \A e \in Events : Balanced(e)

\* A Flag belongs to one watcher; its AsyncWaiter is listed or its task is posted, not both.
OneWatcher(u, v) == watcher[u].flag = watcher[v].flag => u = v \/ watcher[u].flag = Nobody
TasksKnown(v) == \A flag \in ToSet(tasks[v]) : flag = watcher[v].flag \/ flag \in set
WaiterKnown(e, w) ==
  IsAsync(w) =>
    /\ \E v \in Watchers : watcher[v] = [flag |-> w.tag, kernel |-> e, waiter |-> w.ptr]
    /\ w.tag \notin set /\ \A v \in Watchers : w.tag \notin ToSet(tasks[v])
WatchKept(v) ==
  watcher[v].flag \notin set \cup {Nobody} =>
    \/ watcher[v].flag \in ToSet(tasks[v])
    \/ /\ watcher[v].kernel \in Events /\ watcher[v].waiter \in Pointers
       /\ AsyncWaiter(watcher[v].waiter, watcher[v].flag) \in ToSet(waiters_[watcher[v].kernel])

Watches ==
  /\ \A v \in Watchers : TasksKnown(v) /\ WatchKept(v) /\ \A u \in Watchers : OneWatcher(u, v)
  /\ \A e \in Events : \A w \in ToSet(waiters_[e]) : WaiterKnown(e, w)

IndInv == Types /\ Control /\ Locks /\ Lists /\ Firing /\ Conserved /\ Watches

-----------------------------------------------------------------------------
(***************************************************************************)
(* Sequences of waiters, events and Flags.                                 *)
(***************************************************************************)

\* push_back() adds one element.
LEMMA AppendSet ==
  ASSUME NEW S, NEW s \in Seq(S), NEW x \in S
  PROVE  /\ Append(s, x) \in Seq(S) /\ Append(s, x) # <<>>
         /\ ToSet(Append(s, x)) = ToSet(s) \cup {x}
         /\ IsInjective(s) /\ x \notin ToSet(s) => IsInjective(Append(s, x))
<1>1. /\ Append(s, x) \in Seq(S) /\ Len(Append(s, x)) = Len(s) + 1 /\ Len(s) \in Nat
      /\ Append(s, x)[Len(s) + 1] = x /\ \A k \in 1..Len(s) : Append(s, x)[k] = s[k]
  OBVIOUS
<1>2. DOMAIN s = 1..Len(s) /\ DOMAIN Append(s, x) = 1..(Len(s) + 1)
  BY <1>1
<1>3. Append(s, x) # <<>>
  BY <1>1
<1>4. ToSet(Append(s, x)) = ToSet(s) \cup {x}
  BY <1>1, <1>2 DEF ToSet
<1>5. ASSUME IsInjective(s), x \notin ToSet(s) PROVE IsInjective(Append(s, x))
  BY <1>1, <1>2, <1>5 DEF ToSet, IsInjective
<1> QED
  BY <1>1, <1>3, <1>4, <1>5

\* pop_front() removes the first element, and no other in a list without repetitions.
LEMMA TailSet ==
  ASSUME NEW S, NEW s \in Seq(S), s # <<>>
  PROVE  /\ Tail(s) \in Seq(S) /\ s[1] \in S /\ Head(s) = s[1]
         /\ ToSet(s) = ToSet(Tail(s)) \cup {s[1]}
         /\ IsInjective(s) => IsInjective(Tail(s)) /\ s[1] \notin ToSet(Tail(s))
<1>1. /\ Tail(s) \in Seq(S) /\ Len(s) \in Nat /\ Len(s) >= 1 /\ Len(Tail(s)) = Len(s) - 1
      /\ Head(s) = s[1] /\ \A k \in 1..(Len(s) - 1) : Tail(s)[k] = s[k + 1]
  OBVIOUS
<1>2. DOMAIN s = 1..Len(s) /\ DOMAIN Tail(s) = 1..(Len(s) - 1)
  BY <1>1
<1>3. ASSUME NEW k \in 1..Len(s), k # 1 PROVE s[k] \in ToSet(Tail(s))
  <2>1. k - 1 \in 1..(Len(s) - 1) /\ (k - 1) + 1 = k
    BY <1>1, <1>3
  <2>2. s[k] = Tail(s)[k - 1]
    BY <1>1, <2>1
  <2> QED
    BY <1>2, <2>1, <2>2 DEF ToSet
<1>4. ToSet(s) = ToSet(Tail(s)) \cup {s[1]}
  <2>1. 1 \in 1..Len(s) /\ \A k \in 1..(Len(s) - 1) : k + 1 \in 1..Len(s)
    BY <1>1
  <2>2. ToSet(Tail(s)) \cup {s[1]} \subseteq ToSet(s)
    BY <1>1, <1>2, <2>1 DEF ToSet
  <2>3. ToSet(s) \subseteq ToSet(Tail(s)) \cup {s[1]}
    BY <1>2, <1>3 DEF ToSet
  <2> QED
    BY <2>2, <2>3
<1>5. ASSUME IsInjective(s) PROVE IsInjective(Tail(s)) /\ s[1] \notin ToSet(Tail(s))
  <2>1. IsInjective(Tail(s))
    BY <1>1, <1>2, <1>5 DEF IsInjective
  <2>2. ASSUME NEW k \in 1..(Len(s) - 1), Tail(s)[k] = s[1] PROVE FALSE
    <3>1. k + 1 \in 1..Len(s) /\ 1 \in 1..Len(s) /\ s[k + 1] = s[1]
      BY <1>1, <2>2
    <3> QED
      BY <1>2, <1>5, <3>1 DEF IsInjective
  <2> QED
    BY <1>2, <2>1, <2>2 DEF ToSet
<1> QED
  BY <1>1, <1>4, <1>5

\* erase() of the element at k.
LEMMA RemoveAtSet ==
  ASSUME NEW S, NEW s \in Seq(S), IsInjective(s), NEW k \in 1..Len(s)
  PROVE  /\ RemoveAt(s, k) \in Seq(S) /\ IsInjective(RemoveAt(s, k))
         /\ ToSet(RemoveAt(s, k)) = ToSet(s) \ {s[k]}
<1> DEFINE r == RemoveAt(s, k)
           at(i) == IF i < k THEN i ELSE i + 1
<1>1. Len(s) \in Nat /\ DOMAIN s = 1..Len(s)
  OBVIOUS
<1> DEFINE before == SubSeq(s, 1, k - 1)
           after == SubSeq(s, k + 1, Len(s))
<1>2. before \in Seq(S) /\ Len(before) = k - 1 /\ \A i \in 1..(k - 1) : before[i] = s[i]
  BY <1>1, SubSeqProperties
<1>3. after \in Seq(S) /\ Len(after) = Len(s) - k /\ \A i \in 1..(Len(s) - k) : after[i] = s[i + k]
  <2>1. k + 1 \in Int /\ Len(s) \in Int /\ \A i \in (k + 1)..Len(s) : s[i] \in S
    BY <1>1
  <2>2. /\ after \in Seq(S) /\ Len(after) = IF k + 1 <= Len(s) THEN Len(s) - (k + 1) + 1 ELSE 0
        /\ \A i \in 1..(Len(s) - (k + 1) + 1) : after[i] = s[(k + 1) + i - 1]
    BY <2>1, SubSeqProperties
  <2> HIDE DEF after
  <2>3. Len(after) = Len(s) - k /\ Len(s) - (k + 1) + 1 = Len(s) - k
    <3>1. PICK n \in Nat : n = Len(s)
      BY <1>1
    <3>2. Len(after) = IF k + 1 <= n THEN n - (k + 1) + 1 ELSE 0
      BY <2>2, <3>1
    <3>3. k \in 1..n
      BY <3>1
    <3>4. n - (k + 1) + 1 = n - k
      BY <3>3
    <3>5. Len(after) = n - k
      BY <3>2, <3>3
    <3> QED
      BY <3>1, <3>4, <3>5
  <2>4. \A i \in 1..(Len(s) - k) : (k + 1) + i - 1 = i + k
    BY <1>1
  <2> QED
    BY <2>2, <2>3, <2>4
<1>4. r \in Seq(S) /\ Len(r) = Len(s) - 1 /\ DOMAIN r = 1..(Len(s) - 1)
  <2>1. r \in Seq(S) /\ Len(r) = Len(before) + Len(after)
    BY <1>2, <1>3, ConcatProperties DEF RemoveAt
  <2> HIDE DEF r, before, after
  <2> QED
    BY <1>1, <1>2, <1>3, <2>1
<1>5. ASSUME NEW i \in 1..(Len(s) - 1) PROVE at(i) \in 1..Len(s) /\ at(i) # k /\ r[i] = s[at(i)]
  <2>1. i \in 1..(Len(before) + Len(after))
    <3> HIDE DEF before, after
    <3> QED
      BY <1>1, <1>2, <1>3
  <2>2. r[i] = IF i <= Len(before) THEN before[i] ELSE after[i - Len(before)]
    BY <1>2, <1>3, <2>1, ConcatProperties DEF RemoveAt
  <2> HIDE DEF r, before, after
  <2>3. CASE i < k
    BY <1>1, <1>2, <2>2, <2>3
  <2>4. CASE ~(i < k)
    <3>1. i - Len(before) \in 1..(Len(s) - k) /\ (i - Len(before)) + k = i + 1
      BY <1>1, <1>2, <2>4
    <3> QED
      BY <1>1, <1>2, <1>3, <2>2, <2>4, <3>1
  <2> QED
    BY <2>3, <2>4
<1>6. IsInjective(r)
  <2>1. ASSUME NEW i \in 1..(Len(s) - 1), NEW j \in 1..(Len(s) - 1), r[i] = r[j] PROVE i = j
    <3>1. at(i) = at(j)
      BY <1>1, <1>5, <2>1 DEF IsInjective
    <3> QED
      BY <3>1, <1>1
  <2> QED
    BY <1>4, <2>1 DEF IsInjective
<1>7. ASSUME NEW i \in 1..(Len(s) - 1) PROVE r[i] \in ToSet(s) \ {s[k]}
  <2>1. at(i) \in 1..Len(s) /\ at(i) # k /\ r[i] = s[at(i)]
    BY <1>5
  <2> HIDE DEF at, r
  <2> QED
    BY <1>1, <2>1 DEF ToSet, IsInjective
<1>8. ASSUME NEW j \in 1..Len(s), j # k PROVE s[j] \in ToSet(r)
  <2>1. CASE j < k
    <3>1. j \in 1..(Len(s) - 1) /\ at(j) = j
      BY <1>1, <2>1
    <3> QED
      BY <1>4, <1>5, <3>1 DEF ToSet
  <2>2. CASE j > k
    <3>1. j - 1 \in 1..(Len(s) - 1) /\ at(j - 1) = j
      BY <1>1, <2>2
    <3> QED
      BY <1>4, <1>5, <3>1 DEF ToSet
  <2> QED
    BY <1>1, <1>8, <2>1, <2>2
<1>9. ToSet(r) = ToSet(s) \ {s[k]}
  BY <1>1, <1>4, <1>7, <1>8 DEF ToSet
<1> QED
  BY <1>4, <1>6, <1>9

\* A waiter is its address and its tag.
LEMMA WaiterIsPair ==
  ASSUME NEW w \in Waiters, NEW p, NEW tag
  PROVE  SameWaiter(w, p, tag) <=> w = [ptr |-> p, tag |-> tag]
BY DEF Waiters, SyncWaiter, AsyncWaiter, SameWaiter

\* WaitableEventKernel::Dequeue() removes that waiter and no other, and finds it exactly when
\* it is on the list.
LEMMA DequeueSet ==
  ASSUME NEW s \in Seq(Waiters), IsInjective(s), NEW p, NEW tag
  PROVE  /\ Dequeue(s, p, tag) \in Seq(Waiters) /\ IsInjective(Dequeue(s, p, tag))
         /\ ToSet(Dequeue(s, p, tag)) = ToSet(s) \ {[ptr |-> p, tag |-> tag]}
         /\ Listed(s, p, tag) <=> [ptr |-> p, tag |-> tag] \in ToSet(s)
<1> DEFINE w == [ptr |-> p, tag |-> tag]
           K == Places(s, p, tag)
<1>1. DOMAIN s = 1..Len(s) /\ Len(s) \in Nat /\ \A i \in 1..Len(s) : s[i] \in Waiters
  OBVIOUS
<1>2. K = {i \in 1..Len(s) : s[i] = w}
  BY <1>1, WaiterIsPair DEF Places
<1>3. Listed(s, p, tag) <=> w \in ToSet(s)
  BY <1>1, <1>2 DEF Listed, ToSet
<1>4. CASE K = {}
  BY <1>2, <1>3, <1>4 DEF Dequeue, Listed, ToSet
<1>5. CASE K # {}
  <2>1. PICK k \in K : TRUE
    BY <1>5
  <2>2. k \in 1..Len(s) /\ s[k] = w /\ k <= k /\ \A i \in K : i = k
    BY <1>1, <1>2, <2>1 DEF IsInjective
  <2>3. k \in K /\ (\A y \in K : k <= y) /\ \A x \in K : x = k
    BY <2>1, <2>2, Zenon
  <2>4. Min(K) = k
    BY <2>3 DEF Min
  <2>5. Dequeue(s, p, tag) = RemoveAt(s, k)
    BY <1>5, <2>4 DEF Dequeue, Listed
  <2> QED
    BY <1>3, <2>2, <2>5, RemoveAtSet
<1> QED
  BY <1>4, <1>5

\* The order of the natural numbers is well-founded.
LEMMA NaturalOrder ==
  \E R : IsWellFoundedOn(R, Nat) /\ \A x, y \in Nat : y < x => <<y, x>> \in R
<1>1. \A x, y \in Nat : y < x => <<y, x>> \in OpToRel(<, Nat)
  BY DEF OpToRel
<1> QED
  BY <1>1, NatLessThanWellFounded, Zenon

\* A non-empty set of natural numbers has a least element.
LEMMA LeastNatural ==
  ASSUME NEW T, T \subseteq Nat, T # {}
  PROVE  \E x \in T : \A y \in T : x <= y
<1>1. PICK R : IsWellFoundedOn(R, Nat) /\ \A x, y \in Nat : y < x => <<y, x>> \in R
  BY NaturalOrder, Zenon
<1>2. PICK x \in T : \A y \in T : ~(<<y, x>> \in R)
  BY <1>1, WFMin
<1>3. ASSUME NEW y \in T PROVE x <= y
  <2>1. x \in Nat /\ y \in Nat
    OBVIOUS
  <2>2. ~(y < x)
    BY <1>1, <1>2, <2>1, Zenon
  <2> QED
    BY <2>1, <2>2
<1> QED
  BY <1>3

-----------------------------------------------------------------------------
(***************************************************************************)
(* Types.                                                                  *)
(***************************************************************************)

\* Identities of different kinds differ.
LEMMA Constants ==
  /\ Nobody \notin Threads /\ Nobody \notin Events /\ Nobody \notin Pointers /\ Nobody \notin Flags
  /\ Threads \cap Pointers = {} /\ Threads \cap Flags = {}
  /\ Address \in [Events -> Nat]
  /\ \A events \in Arrays : events \in Seq(Events) /\ events # <<>> /\ IsInjective(events)
BY Parameters

\* A new SyncWaiter or AsyncWaiter is a waiter.
LEMMA WaitersMade ==
  /\ \A t \in Threads : SyncWaiter(t) \in Waiters /\ ~IsAsync(SyncWaiter(t))
  /\ \A p \in Pointers : \A flag \in Flags :
       AsyncWaiter(p, flag) \in Waiters /\ IsAsync(AsyncWaiter(p, flag))
  /\ \A t \in Threads : SyncWaiter(t).ptr = t
  /\ \A t, u \in Threads : SyncWaiter(t) = SyncWaiter(u) => t = u
  /\ \A w \in Waiters : IF IsAsync(w)
                        THEN w.tag \in Flags /\ w = AsyncWaiter(w.ptr, w.tag)
                        ELSE w.ptr \in Threads /\ w = SyncWaiter(w.ptr)
<1>1. ASSUME NEW t \in Threads
      PROVE  SyncWaiter(t) \in Waiters /\ ~IsAsync(SyncWaiter(t)) /\ SyncWaiter(t).ptr = t
  BY Constants DEF Waiters, SyncWaiter, IsAsync
<1>2. ASSUME NEW p \in Pointers, NEW flag \in Flags
      PROVE  AsyncWaiter(p, flag) \in Waiters /\ IsAsync(AsyncWaiter(p, flag))
  BY DEF Waiters, AsyncWaiter, IsAsync
<1>3. \A t, u \in Threads : SyncWaiter(t) = SyncWaiter(u) => t = u
  BY DEF SyncWaiter
<1>4. ASSUME NEW w \in Waiters
      PROVE  IF IsAsync(w) THEN w.tag \in Flags /\ w = AsyncWaiter(w.ptr, w.tag)
             ELSE w.ptr \in Threads /\ w = SyncWaiter(w.ptr)
  <2>1. CASE \E t \in Threads : w = SyncWaiter(t)
    BY <1>1, <2>1 DEF SyncWaiter
  <2>2. CASE \E p \in Pointers, flag \in Flags : w = AsyncWaiter(p, flag)
    BY <1>2, <2>2 DEF AsyncWaiter
  <2> QED
    BY <2>1, <2>2 DEF Waiters
<1> QED
  BY <1>1, <1>2, <1>3, <1>4

LEMMA IdleType == Idle \in ThreadStates
BY EmptySeq DEF Idle, ThreadStates, Pcs

\* Thread t is in a call of which the record is made by an EXCEPT.
LEMMA ThreadType ==
  ASSUME Types, NEW t \in Threads
  PROVE  thread[t] \in ThreadStates
BY DEF Types

\* The lock that EnqueueMany() takes next is the one with the lowest address.
LEMMA NextToLockIsMin ==
  ASSUME Types, NEW t \in Threads, NotLocked(t) # {}
  PROVE  /\ NextToLock(t) \in NotLocked(t) /\ NextToLock(t) \in Events
         /\ \A d \in NotLocked(t) : Address[NextToLock(t)] <= Address[d]
<1>1. thread[t].events \in Seq(Events)
  BY ThreadType DEF ThreadStates
<1>2. NotLocked(t) \subseteq Events
  BY <1>1 DEF NotLocked, ToSet
<1> DEFINE A == {Address[d] : d \in NotLocked(t)}
<1>3. A \subseteq Nat /\ A # {}
  BY <1>2, Constants
<1>4. PICK x \in A : \A y \in A : x <= y
  BY <1>3, LeastNatural
<1>5. \E e \in NotLocked(t) : \A d \in NotLocked(t) : Address[e] <= Address[d]
  BY <1>4
<1> QED
  BY <1>2, <1>5 DEF NextToLock

\* WaitMany() has a winner when one of its events is signaled.
LEMMA WinnerIsMin ==
  ASSUME NEW n \in Nat, NEW S, S \subseteq 1..n, S # {}
  PROVE  Min(S) \in S
<1>1. S \subseteq Nat
  OBVIOUS
<1>2. \E x \in S : \A y \in S : x <= y
  BY <1>1, LeastNatural
<1> QED
  BY <1>2 DEF Min


\* A caller that finds the event signaled resets it and takes the signal.
LEMMA ConsumePoints ==
  ASSUME Types, NEW e \in Events, Consume(e)
  PROVE  /\ signaled_' \in [Events -> BOOLEAN] /\ owed' \in [Events -> Int]
         /\ \A d \in Events : d # e => signaled_'[d] = signaled_[d] /\ owed'[d] = owed[d]
         /\ signaled_'[e] <=> e \in Manual
         /\ owed'[e] = IF AutoReset(e) THEN owed[e] - 1 ELSE owed[e]
<1>1. signaled_ \in [Events -> BOOLEAN] /\ owed \in [Events -> Int]
  BY DEF Types
<1>2. /\ signaled_' = [signaled_ EXCEPT ![e] = (e \in Manual)]
      /\ owed' = [owed EXCEPT ![e] = IF AutoReset(e) THEN @ - 1 ELSE @]
  BY DEF Consume
<1>3. CASE e \in Manual
  <2>1. signaled_' = [signaled_ EXCEPT ![e] = TRUE]
    BY <1>2, <1>3, Zenon
  <2> QED
    BY <1>1, <1>2, <1>3, <2>1
<1>4. CASE e \notin Manual
  <2>0. (e \in Manual) = FALSE
    BY <1>4
  <2>1. signaled_' = [signaled_ EXCEPT ![e] = FALSE]
    BY <1>2, <2>0
  <2> QED
    BY <1>1, <1>2, <1>4, <2>1
<1> QED
  BY <1>3, <1>4

\* Every step keeps the types.
LEMMA NextTypes == IndInv /\ Next => Types'
<1> SUFFICES ASSUME IndInv, Next PROVE Types'
  OBVIOUS
<1>0. Types /\ Lists /\ Locks /\ Control
  BY DEF IndInv
<1>a. \A e \in Events : waiters_[e] \in Seq(Waiters) /\ IsInjective(waiters_[e])
  BY <1>0 DEF Types, Lists, ListsOf, ListSane, OnList, Sleeping
<1>1. ASSUME NEW t \in Threads, NEW e \in Events, Reset(t, e) PROVE Types'
  BY <1>0, <1>1 DEF Reset, Types, kernels, watching
<1>2. ASSUME NEW t \in Threads, NEW e \in Events, IsSignaled(t, e) PROVE Types'
  <2>1. signaled_' \in [Events -> BOOLEAN] /\ owed' \in [Events -> Int]
    <3>1. Consume(e) \/ UNCHANGED <<signaled_, owed>>
      BY <1>2 DEF IsSignaled
    <3> QED
      BY <1>0, <3>1, ConsumePoints DEF Types
  <2> QED
    BY <1>0, <1>2, <2>1 DEF IsSignaled, Types, watching
<1>3. ASSUME NEW t \in Threads, NEW e \in Events, Signal(t, e) PROVE Types'
  <2>1. [Idle EXCEPT !.pc = "signal", !.events = <<e>>] \in ThreadStates
    <3>1. <<e>> \in Seq(Events)
      OBVIOUS
    <3> QED
      BY <3>1, IdleType DEF ThreadStates, Pcs
  <2>2. CASE signaled_[e]
    BY <1>0, <1>3, <2>2 DEF Signal, Types, kernels, watching
  <2>3. CASE ~signaled_[e]
    <3>1. /\ lock' = [lock EXCEPT ![e] = t]
          /\ thread' = [thread EXCEPT ![t] = [Idle EXCEPT !.pc = "signal", !.events = <<e>>]]
          /\ owed' = [owed EXCEPT ![e] = IF AutoReset(e) THEN @ + 1 ELSE @]
      BY <1>3, <2>3 DEF Signal
    <3> QED
      BY <1>0, <1>3, <2>1, <3>1 DEF Signal, Types, kernels, watching
  <2> QED
    BY <2>2, <2>3
<1>4. ASSUME NEW t \in Threads, NEW e \in Events, NEW timed \in BOOLEAN, Wait(t, e, timed)
      PROVE  Types'
  <2> DEFINE r == [Idle EXCEPT !.pc = "cv", !.events = <<e>>, !.timed = timed]
  <2>1. r \in ThreadStates
    <3>1. <<e>> \in Seq(Events)
      OBVIOUS
    <3> QED
      BY <3>1, IdleType DEF ThreadStates, Pcs
  <2>2. Append(waiters_[e], SyncWaiter(t)) \in Seq(Waiters)
    BY <1>a, AppendSet, WaitersMade
  <2> HIDE DEF r
  <2>3. \/ UNCHANGED <<waiters_, thread>>
        \/ /\ waiters_' = [waiters_ EXCEPT ![e] = Append(@, SyncWaiter(t))]
           /\ thread' = [thread EXCEPT ![t] = r]
    BY <1>4 DEF Wait, r
  <2>4. waiters_' \in [Events -> Seq(Waiters)] /\ thread' \in [Threads -> ThreadStates]
    BY <1>0, <2>1, <2>2, <2>3 DEF Types
  <2>5. signaled_' \in [Events -> BOOLEAN] /\ owed' \in [Events -> Int]
    <3>1. Consume(e) \/ UNCHANGED <<signaled_, owed>>
      BY <1>4 DEF Wait
    <3> QED
      BY <1>0, <3>1, ConsumePoints DEF Types
  <2> QED
    BY <1>0, <1>4, <2>4, <2>5 DEF Wait, Types, watching
<1>5. ASSUME NEW t \in Threads, NEW events \in Arrays, WaitMany(t, events) PROVE Types'
  <2>1. [Idle EXCEPT !.pc = "enqueue", !.events = events, !.many = TRUE] \in ThreadStates
    BY IdleType, Constants DEF ThreadStates, Pcs
  <2> QED
    BY <1>0, <1>5, <2>1 DEF WaitMany, Types, kernels, watching
<1>6. ASSUME NEW t \in Threads, SignalWaiter(t) PROVE Types'
  <2>1. PICK e \in Events, w \in Waiters :
          /\ e = thread[t].events[1] /\ w = waiters_[e][1]
          /\ waiters_[e] # <<>> /\ Tail(waiters_[e]) \in Seq(Waiters)
    <3>1. thread[t].pc = "signal" /\ waiters_[thread[t].events[1]] # <<>>
      BY <1>6 DEF SignalWaiter
    <3>2. thread[t].events[1] \in Events
      BY <1>0, <3>1, ThreadType DEF ThreadStates, Locks, LocksOf, SignalHoldsLock, HeldInCall,
                                    LocksInOrder
    <3> QED
      BY <1>a, <3>1, <3>2, TailSet
  <2>2. ASSUME NEW r \in ThreadStates
        PROVE  /\ [r EXCEPT !.pc = "signaled"] \in ThreadStates
               /\ [r EXCEPT !.fired = TRUE, !.event = e, !.during = t] \in ThreadStates
    BY DEF ThreadStates, Pcs
  <2> DEFINE after == IF AutoReset(e) /\ Fire(w) THEN [thread EXCEPT ![t].pc = "signaled"]
                      ELSE thread
  <2>3. after \in [Threads -> ThreadStates]
    BY <1>0, <2>2 DEF Types
  <2>4. thread' \in [Threads -> ThreadStates]
    <3>1. CASE IsAsync(w) \/ ~Fire(w)
      BY <1>6, <2>1, <2>3, <3>1 DEF SignalWaiter
    <3>2. CASE ~(IsAsync(w) \/ ~Fire(w))
      <4>1. thread' = [after EXCEPT ![w.ptr] = [@ EXCEPT !.fired = TRUE, !.event = e, !.during = t]]
        BY <1>6, <2>1, <3>2 DEF SignalWaiter
      <4>2. w.ptr \in Threads
        BY <3>2, WaitersMade
      <4> HIDE DEF after
      <4> QED
        BY <2>2, <2>3, <4>1, <4>2
    <3> QED
      BY <3>1, <3>2
  <2>5. tasks' \in [Watchers -> Seq(Flags)]
    <3>1. tasks' = [v \in Watchers |->
                      IF IsAsync(w) /\ watcher[v].flag = w.tag /\ w.tag \notin set
                      THEN Append(tasks[v], w.tag) ELSE tasks[v]]
      BY <1>6, <2>1 DEF SignalWaiter
    <3>2. \A v \in Watchers : tasks[v] \in Seq(Flags)
      BY <1>0 DEF Types
    <3>3. IsAsync(w) => w.tag \in Flags
      BY WaitersMade
    <3> QED
      BY <3>1, <3>2, <3>3, AppendSet
  <2>6. waiters_' \in [Events -> Seq(Waiters)]
    <3>1. waiters_' = [waiters_ EXCEPT ![e] = Tail(@)]
      BY <1>6, <2>1 DEF SignalWaiter
    <3> QED
      BY <1>0, <2>1, <3>1 DEF Types
  <2>7. owed' \in [Events -> Int]
    BY <1>0, <1>6, <2>1 DEF SignalWaiter, Types
  <2> QED
    BY <1>0, <1>6, <2>4, <2>5, <2>6, <2>7 DEF SignalWaiter, Types
<1>7. ASSUME NEW t \in Threads, SignalEnd(t) \/ SignalOneEnd(t) PROVE Types'
  <2>1. thread[t].events[1] \in Events
    BY <1>0, <1>7, ThreadType DEF ThreadStates, Locks, LocksOf, SignalHoldsLock, SignalEnd, SignalOneEnd
  <2>2. ASSUME NEW u \in Threads, u # t
        PROVE  [thread[u] EXCEPT !.during = IF @ = t THEN Nobody ELSE @] \in ThreadStates
    BY <1>0, ThreadType DEF ThreadStates
  <2>3. thread' \in [Threads -> ThreadStates]
    BY <1>7, <2>2, IdleType DEF SignalEnd, SignalOneEnd, Signaled
  <2> QED
    BY <1>0, <1>7, <2>1, <2>3 DEF SignalEnd, SignalOneEnd, Types, watching
<1>8. ASSUME NEW t \in Threads, EnqueueManyLocks(t) PROVE Types'
  BY <1>0, <1>8, NextToLockIsMin DEF EnqueueManyLocks, Locks, LocksOf, SignalHoldsLock,
         HeldInCall, LocksInOrder, Types, watching
<1>9. ASSUME NEW t \in Threads, EnqueueMany(t) PROVE Types'
  <2> DEFINE events == thread[t].events
             winners == {i \in 1..Len(events) : signaled_[events[i]]}
  <2>1. events \in Seq(Events) /\ Len(events) \in Nat
    BY <1>0, ThreadType DEF ThreadStates
  <2>2. lock' \in [Events -> Threads \cup {Nobody}] /\ UNCHANGED watching
    BY <1>0, <1>9 DEF EnqueueMany, Unlock, Types
  <2>3. CASE winners # {}
    <3>1. Min(winners) \in winners
      BY <2>1, <2>3, WinnerIsMin
    <3>2. events[Min(winners)] \in Events
      <4>1. Min(winners) \in 1..Len(events)
        BY <3>1
      <4> HIDE DEF winners, events
      <4> QED
        BY <2>1, <4>1
    <3>3. /\ Consume(events[Min(winners)]) /\ UNCHANGED waiters_
          /\ thread' = [thread EXCEPT ![t] = Idle]
      BY <1>9, <2>3 DEF EnqueueMany
    <3> HIDE DEF winners, events
    <3> QED
      BY <1>0, <2>2, <3>2, <3>3, IdleType, ConsumePoints DEF Types, watching
  <2>4. CASE winners = {}
    <3>1. /\ waiters_' = [e \in Events |-> IF e \in ToSet(events)
                                           THEN Append(waiters_[e], SyncWaiter(t)) ELSE waiters_[e]]
          /\ thread' = [thread EXCEPT ![t].pc = "cv"]
          /\ UNCHANGED <<signaled_, owed>>
      BY <1>9, <2>4 DEF EnqueueMany
    <3>2. \A e \in Events : Append(waiters_[e], SyncWaiter(t)) \in Seq(Waiters)
      BY <1>a, AppendSet, WaitersMade
    <3>3. [thread[t] EXCEPT !.pc = "cv"] \in ThreadStates
      BY <1>0, ThreadType DEF ThreadStates, Pcs
    <3>4. thread' = [thread EXCEPT ![t] = [thread[t] EXCEPT !.pc = "cv"]]
      BY <3>1
    <3>5. waiters_' \in [Events -> Seq(Waiters)] /\ thread' \in [Threads -> ThreadStates]
      BY <1>0, <1>a, <3>1, <3>2, <3>3, <3>4 DEF Types
    <3> QED
      BY <1>0, <2>2, <3>1, <3>5 DEF Types, watching
  <2> QED
    BY <2>3, <2>4
<1>10. ASSUME NEW t \in Threads, WakeUp(t) PROVE Types'
  <2>1. [thread[t] EXCEPT !.pc = "dequeue", !.i = 1, !.fired = TRUE,
                          !.result = thread[t].fired] \in ThreadStates
    BY <1>0, ThreadType DEF ThreadStates, Pcs
  <2> QED
    BY <1>0, <1>10, <2>1 DEF WakeUp, Types, kernels, watching
<1>11. ASSUME NEW t \in Threads, LeaveWaitList(t) PROVE Types'
  <2> DEFINE e == thread[t].events[thread[t].i]
  <2>1. e \in Events /\ thread[t] \in ThreadStates
    BY <1>0, <1>11, ThreadType DEF ThreadStates, Control, Controlled, LeaveWaitList
  <2>2. Dequeue(waiters_[e], t, t) \in Seq(Waiters)
    BY <1>a, <2>1, DequeueSet
  <2>3. waiters_' = waiters_ \/ waiters_' = [waiters_ EXCEPT ![e] = Dequeue(@, t, t)]
    BY <1>11 DEF LeaveWaitList
  <2>4. waiters_' \in [Events -> Seq(Waiters)]
    BY <1>0, <2>1, <2>2, <2>3 DEF Types
  <2>5. [Idle EXCEPT !.during = thread[t].during] \in ThreadStates
    BY <2>1, IdleType DEF ThreadStates
  <2>6. [thread[t] EXCEPT !.i = @ + 1] \in ThreadStates
    BY <2>1 DEF ThreadStates
  <2>7. \/ thread' = [thread EXCEPT ![t] = [Idle EXCEPT !.during = thread[t].during]]
        \/ thread' = [thread EXCEPT ![t] = [thread[t] EXCEPT !.i = @ + 1]]
    BY <1>11 DEF LeaveWaitList, Return
  <2>8. thread' \in [Threads -> ThreadStates]
    BY <1>0, <2>5, <2>6, <2>7 DEF Types
  <2>9. owed' \in [Events -> Int]
    <3>1. owed' = owed \/ owed' = [owed EXCEPT ![thread[t].event] = @ - 1]
      BY <1>11 DEF LeaveWaitList, Return
    <3> QED
      BY <1>0, <3>1 DEF Types
  <2> QED
    BY <1>0, <1>11, <2>4, <2>8, <2>9 DEF LeaveWaitList, Types, watching
<1>12. ASSUME NEW v \in Watchers, NEW e \in Events, StartWatching(v, e) PROVE Types'
  <2>1. PICK flag \in Flags :
       /\ set' = set \ {flag}
       /\ IF signaled_[e]
          THEN /\ Consume(e)
               /\ tasks' = [tasks EXCEPT ![v] = Append(@, flag)]
               /\ watcher' = [watcher EXCEPT ![v].flag = flag]
               /\ UNCHANGED waiters_
          ELSE /\ \E p \in Pointers \ PointersInUse :
                    /\ waiters_' = [waiters_ EXCEPT ![e] = Append(@, AsyncWaiter(p, flag))]
                    /\ watcher' = [watcher EXCEPT ![v] = [flag |-> flag, kernel |-> e, waiter |-> p]]
               /\ UNCHANGED <<signaled_, owed, tasks>>
    BY <1>12 DEF StartWatching
  <2>2. CASE signaled_[e]
    <3>1. Append(tasks[v], flag) \in Seq(Flags)
      BY <1>0 DEF Types
    <3>2. watcher' \in [Watchers -> WatcherStates]
      <4>1. watcher' = [watcher EXCEPT ![v] = [watcher[v] EXCEPT !.flag = flag]]
        BY <2>1, <2>2
      <4>2. [watcher[v] EXCEPT !.flag = flag] \in WatcherStates
        BY <1>0 DEF Types, WatcherStates
      <4> QED
        BY <1>0, <4>1, <4>2 DEF Types
    <3>3. tasks' \in [Watchers -> Seq(Flags)]
      BY <1>0, <2>1, <2>2, <3>1 DEF Types
    <3> QED
      BY <1>0, <1>12, <2>1, <2>2, <3>2, <3>3, ConsumePoints DEF StartWatching, Types
  <2>3. CASE ~signaled_[e]
    <3>1. PICK p \in Pointers :
            /\ waiters_' = [waiters_ EXCEPT ![e] = Append(@, AsyncWaiter(p, flag))]
            /\ watcher' = [watcher EXCEPT ![v] = [flag |-> flag, kernel |-> e, waiter |-> p]]
      BY <2>1, <2>3
    <3>2. Append(waiters_[e], AsyncWaiter(p, flag)) \in Seq(Waiters)
      BY <1>a, AppendSet, WaitersMade
    <3>3. waiters_' \in [Events -> Seq(Waiters)]
      BY <1>0, <3>1, <3>2 DEF Types
    <3>4. watcher' \in [Watchers -> WatcherStates]
      BY <1>0, <3>1 DEF Types, WatcherStates
    <3> QED
      BY <1>0, <1>12, <2>1, <2>3, <3>3, <3>4 DEF StartWatching, Types
  <2> QED
    BY <2>2, <2>3
<1>13. ASSUME NEW v \in Watchers, StopWatching(v) PROVE Types'
  <2> DEFINE me == watcher[v]
  <2>1. me \in WatcherStates /\ me.flag \in Flags
    BY <1>0, <1>13 DEF StopWatching, Types, WatcherStates
  <2>2. waiters_' = waiters_ \/ (/\ me.kernel # Nobody
                                 /\ waiters_' = [waiters_ EXCEPT ![me.kernel] =
                                                   Dequeue(waiters_[me.kernel], me.waiter, me.flag)])
    BY <1>13, Zenon DEF StopWatching
  <2>3. waiters_' \in [Events -> Seq(Waiters)]
    <3>1. me.kernel \in Events =>
            Dequeue(waiters_[me.kernel], me.waiter, me.flag) \in Seq(Waiters)
      BY <1>a, DequeueSet
    <3> QED
      BY <1>0, <2>1, <2>2, <3>1 DEF Types, WatcherStates
  <2>4. watcher' \in [Watchers -> WatcherStates]
    BY <1>0, <1>13 DEF StopWatching, Types, WatcherStates
  <2> QED
    BY <1>0, <1>13, <2>1, <2>3, <2>4 DEF StopWatching, Types
<1>14. ASSUME NEW v \in Watchers, AsyncCallbackHelper(v) PROVE Types'
  <2>1. tasks[v] \in Seq(Flags) /\ tasks[v] # <<>>
    BY <1>0, <1>14 DEF AsyncCallbackHelper, Types
  <2>2. Tail(tasks[v]) \in Seq(Flags) /\ Head(tasks[v]) \in Flags
    BY <2>1
  <2> QED
    BY <1>0, <1>14, <2>2 DEF AsyncCallbackHelper, Types, kernels
<1> QED
  BY <1>1, <1>2, <1>3, <1>4, <1>5, <1>6, <1>7, <1>8, <1>9, <1>10, <1>11, <1>12, <1>13, <1>14
     DEF Next, Calls, Steps

-----------------------------------------------------------------------------
(***************************************************************************)
(* What the larger steps do, point by point.                               *)
(***************************************************************************)

\* The call of u goes on.
SameCall(u) ==
  /\ thread'[u].pc = thread[u].pc /\ thread'[u].events = thread[u].events
  /\ thread'[u].i = thread[u].i /\ thread'[u].result = thread[u].result

\* A list is empty when nobody is on it.
LEMMA EmptyList ==
  ASSUME NEW S, NEW s \in Seq(S)
  PROVE  s = <<>> <=> ToSet(s) = {}
<1>1. CASE s = <<>>
  BY <1>1 DEF ToSet
<1>2. CASE s # <<>>
  <2>1. s[1] \in ToSet(s)
    BY <1>2, TailSet
  <2> QED
    BY <1>2, <2>1
<1> QED
  BY <1>1, <1>2

\* One round of Signal(): the first waiter leaves the list; a SyncWaiter that was not fired
\* is, an AsyncWaiter posts its task, and that is the end of SignalOne().
Serves(t, e, w) ==
  /\ thread[t].pc = "signal" /\ e = thread[t].events[1] /\ lock[e] = t /\ ~signaled_[e]
  /\ w \in ToSet(waiters_[e]) /\ ToSet(waiters_'[e]) = ToSet(waiters_[e]) \ {w}
  /\ IsInjective(waiters_'[e]) /\ w # SyncWaiter(t)
  /\ \A d \in Events : d # e => waiters_'[d] = waiters_[d]
  /\ \A d \in Events : owed'[d] = IF d = e /\ AutoReset(e) /\ IsAsync(w)
                                  THEN owed[d] - 1 ELSE owed[d]
  /\ \A v \in Watchers : ToSet(tasks'[v]) =
       IF IsAsync(w) /\ watcher[v].flag = w.tag /\ w.tag \notin set
       THEN ToSet(tasks[v]) \cup {w.tag} ELSE ToSet(tasks[v])
  /\ UNCHANGED <<signaled_, lock, watcher, set>>
  /\ thread'[t].pc = IF AutoReset(e) /\ Fire(w) THEN "signaled" ELSE "signal"
  /\ thread'[t].events = thread[t].events /\ thread'[t].fired = thread[t].fired
  /\ thread'[t].i = thread[t].i /\ thread'[t].result = thread[t].result
  /\ thread'[t].event = thread[t].event /\ thread'[t].during = thread[t].during
  /\ \A u \in Threads : u # t =>
       /\ SameCall(u)
       /\ IF SyncWaiter(u) = w /\ ~thread[u].fired
          THEN /\ Fire(w) /\ thread'[u].fired /\ thread'[u].event = e /\ thread'[u].during = t
          ELSE /\ thread'[u].fired = thread[u].fired /\ thread'[u].event = thread[u].event
               /\ thread'[u].during = thread[u].during

\* SignalOne() and SignalAll() serve the waiter at the front.
LEMMA SignalWaiterPoints ==
  ASSUME IndInv, NEW t \in Threads, SignalWaiter(t)
  PROVE  \E e \in Events, w \in Waiters : Serves(t, e, w)
<1>0. Types /\ Lists /\ Locks
  BY DEF IndInv
<1>1. thread[t].pc = "signal" /\ waiters_[thread[t].events[1]] # <<>>
  BY DEF SignalWaiter
<1>2. PICK e \in Events : e = thread[t].events[1] /\ lock[e] = t /\ ~signaled_[e]
  BY <1>0, <1>1, ThreadType DEF ThreadStates, Locks, LocksOf, SignalHoldsLock, HeldInCall,
                                LocksInOrder
<1>3. waiters_[e] \in Seq(Waiters) /\ IsInjective(waiters_[e])
  BY <1>0 DEF Types, Lists, ListsOf, ListSane, OnList, Sleeping
<1>4. PICK w \in Waiters : w = waiters_[e][1]
  BY <1>1, <1>2, <1>3, TailSet
<1>5. /\ w \in ToSet(waiters_[e]) /\ ToSet(Tail(waiters_[e])) = ToSet(waiters_[e]) \ {w}
      /\ IsInjective(Tail(waiters_[e]))
  BY <1>1, <1>2, <1>3, <1>4, TailSet
<1>6. w # SyncWaiter(t)
  BY <1>0, <1>1, <1>5 DEF Lists, ListsOf, ListSane, OnList, Sleeping
<1> DEFINE after == IF AutoReset(e) /\ Fire(w) THEN [thread EXCEPT ![t].pc = "signaled"]
                    ELSE thread
<1>7. /\ waiters_' = [waiters_ EXCEPT ![e] = Tail(waiters_[e])]
      /\ thread' = IF IsAsync(w) \/ ~Fire(w) THEN after
                   ELSE [after EXCEPT ![w.ptr] = [@ EXCEPT !.fired = TRUE, !.event = e,
                                                           !.during = t]]
      /\ tasks' = [v \in Watchers |->
                     IF IsAsync(w) /\ watcher[v].flag = w.tag /\ w.tag \notin set
                     THEN Append(tasks[v], w.tag) ELSE tasks[v]]
      /\ owed' = [owed EXCEPT ![e] = IF AutoReset(e) /\ IsAsync(w) THEN @ - 1 ELSE @]
      /\ UNCHANGED <<signaled_, lock, watcher, set>>
  BY <1>2, <1>4 DEF SignalWaiter
<1>8. /\ ToSet(waiters_'[e]) = ToSet(waiters_[e]) \ {w} /\ IsInjective(waiters_'[e])
      /\ \A d \in Events : d # e => waiters_'[d] = waiters_[d]
  BY <1>0, <1>5, <1>7 DEF Types
<1>9. \A d \in Events : owed'[d] = IF d = e /\ AutoReset(e) /\ IsAsync(w)
                                   THEN owed[d] - 1 ELSE owed[d]
  BY <1>0, <1>7 DEF Types
<1>10. ASSUME NEW v \in Watchers
       PROVE  ToSet(tasks'[v]) = IF IsAsync(w) /\ watcher[v].flag = w.tag /\ w.tag \notin set
                                 THEN ToSet(tasks[v]) \cup {w.tag} ELSE ToSet(tasks[v])
  <2>1. tasks[v] \in Seq(Flags) /\ (IsAsync(w) => w.tag \in Flags)
    BY <1>0, WaitersMade DEF Types
  <2>2. IsAsync(w) => ToSet(Append(tasks[v], w.tag)) = ToSet(tasks[v]) \cup {w.tag}
    BY <2>1, AppendSet
  <2> QED
    BY <1>7, <2>2
<1>11. thread \in [Threads -> ThreadStates] /\ after \in [Threads -> ThreadStates]
  <2>1. \A r \in ThreadStates : [r EXCEPT !.pc = "signaled"] \in ThreadStates
    BY DEF ThreadStates, Pcs
  <2> QED
    BY <1>0, <2>1 DEF Types
<1>12. /\ \A u \in Threads : u # t => after[u] = thread[u]
       /\ after[t].pc = IF AutoReset(e) /\ Fire(w) THEN "signaled" ELSE "signal"
       /\ after[t].events = thread[t].events /\ after[t].fired = thread[t].fired
       /\ after[t].i = thread[t].i /\ after[t].result = thread[t].result
       /\ after[t].event = thread[t].event /\ after[t].during = thread[t].during
  BY <1>1, <1>11 DEF ThreadStates
<1> HIDE DEF after
<1>13. UNCHANGED <<signaled_, lock, watcher, set>>
  BY <1>7
<1> DEFINE Treats(u) ==
             /\ SameCall(u)
             /\ IF SyncWaiter(u) = w /\ ~thread[u].fired
                THEN /\ Fire(w) /\ thread'[u].fired /\ thread'[u].event = e /\ thread'[u].during = t
                ELSE /\ thread'[u].fired = thread[u].fired /\ thread'[u].event = thread[u].event
                     /\ thread'[u].during = thread[u].during
<1>14. CASE IsAsync(w) \/ ~Fire(w)
  <2>1. thread' = after
    BY <1>7, <1>14
  <2>2. ASSUME NEW u \in Threads, SyncWaiter(u) = w PROVE thread[u].fired
    BY <1>14, <2>2, WaitersMade DEF Fire
  <2>3. ASSUME NEW u \in Threads, u # t PROVE Treats(u)
    BY <1>12, <2>1, <2>2, <2>3 DEF SameCall
  <2> HIDE DEF Treats
  <2>4. Serves(t, e, w)
    BY <1>1, <1>2, <1>5, <1>6, <1>8, <1>9, <1>10, <1>12, <1>13, <2>1, <2>3, Zenon DEF Serves, Treats
  <2> QED
    BY <2>4
<1>15. CASE ~IsAsync(w) /\ Fire(w)
  <2>1. PICK x \in Threads : w = SyncWaiter(x) /\ w.ptr = x /\ x # t /\ ~thread[x].fired
    BY <1>6, <1>15, WaitersMade DEF Fire
  <2>2. thread' = [after EXCEPT ![x] = [after[x] EXCEPT !.fired = TRUE, !.event = e,
                                                        !.during = t]]
    BY <1>7, <1>15, <2>1
  <2>3. thread'[t] = after[t] /\ \A u \in Threads : u # x => thread'[u] = after[u]
    BY <1>11, <2>1, <2>2
  <2>4. Treats(x)
    <3>1. thread'[x] = [thread[x] EXCEPT !.fired = TRUE, !.event = e, !.during = t]
      BY <1>11, <1>12, <2>1, <2>2
    <3>2. thread[x] \in ThreadStates
      BY <1>11
    <3> QED
      BY <1>15, <2>1, <3>1, <3>2 DEF SameCall, ThreadStates
  <2>5. ASSUME NEW u \in Threads, u # t PROVE Treats(u)
    <3>1. CASE u = x
      BY <2>4, <3>1
    <3>2. CASE u # x
      <4>1. SyncWaiter(u) # w
        BY <2>1, <3>2, WaitersMade
      <4>2. thread'[u] = thread[u]
        BY <1>12, <2>3, <2>5, <3>2
      <4> QED
        BY <4>1, <4>2 DEF SameCall
    <3> QED
      BY <3>1, <3>2
  <2> HIDE DEF Treats
  <2>6. Serves(t, e, w)
    BY <1>1, <1>2, <1>5, <1>6, <1>8, <1>9, <1>10, <1>12, <1>13, <2>3, <2>5, Zenon DEF Serves, Treats
  <2> QED
    BY <2>6
<1> QED
  BY <1>14, <1>15

\* The end of Signal(): no waiter is left and the event stays signaled, or SignalOne() has
\* found one.
Ends(t, e) ==
  /\ thread[t].pc \in {"signal", "signaled"}
  /\ e = thread[t].events[1] /\ lock[e] = t /\ ~signaled_[e]
  /\ thread[t].pc = "signal" => ToSet(waiters_[e]) = {} /\ signaled_'[e]
  /\ thread[t].pc = "signaled" => ~signaled_'[e]
  /\ \A d \in Events : d # e => signaled_'[d] = signaled_[d]
  /\ \A d \in Events : lock'[d] = IF d = e THEN Nobody ELSE lock[d]
  /\ thread'[t] = Idle
  /\ \A u \in Threads : u # t =>
       /\ SameCall(u) /\ thread'[u].fired = thread[u].fired /\ thread'[u].event = thread[u].event
       /\ thread'[u].during = IF thread[u].during = t THEN Nobody ELSE thread[u].during
  /\ UNCHANGED <<waiters_, watching, owed>>

\* Signal() releases the lock of the kernel.
LEMMA SignalEndPoints ==
  ASSUME IndInv, NEW t \in Threads, SignalEnd(t) \/ SignalOneEnd(t)
  PROVE  \E e \in Events : Ends(t, e)
<1>0. Types /\ Lists /\ Locks
  BY DEF IndInv
<1>1. PICK e \in Events : e = thread[t].events[1] /\ lock[e] = t /\ ~signaled_[e]
  BY <1>0, ThreadType DEF ThreadStates, Locks, LocksOf, SignalHoldsLock, SignalEnd, SignalOneEnd
<1>2. /\ \/ /\ thread[t].pc = "signal" /\ waiters_[e] = <<>>
            /\ signaled_' = [signaled_ EXCEPT ![e] = TRUE]
         \/ thread[t].pc = "signaled" /\ signaled_' = signaled_
      /\ lock' = [lock EXCEPT ![e] = Nobody]
      /\ thread' = Signaled(t)
      /\ UNCHANGED <<waiters_, watching, owed>>
  BY <1>1 DEF SignalEnd, SignalOneEnd
<1>3. thread[t].pc = "signal" => ToSet(waiters_[e]) = {}
  BY <1>0, <1>2, EmptyList DEF Types
<1>4. /\ thread[t].pc = "signal" => signaled_'[e]
      /\ thread[t].pc = "signaled" => ~signaled_'[e]
      /\ \A d \in Events : d # e => signaled_'[d] = signaled_[d]
      /\ \A d \in Events : lock'[d] = IF d = e THEN Nobody ELSE lock[d]
  BY <1>0, <1>1, <1>2 DEF Types
<1>5. thread'[t] = Idle
  BY <1>2 DEF Signaled
<1>6. ASSUME NEW u \in Threads, u # t
      PROVE  /\ SameCall(u) /\ thread'[u].fired = thread[u].fired /\ thread'[u].event = thread[u].event
             /\ thread'[u].during = IF thread[u].during = t THEN Nobody ELSE thread[u].during
  <2>1. thread'[u] = [thread[u] EXCEPT !.during = IF @ = t THEN Nobody ELSE @]
    BY <1>2, <1>6 DEF Signaled
  <2>2. thread[u] \in ThreadStates
    BY <1>0, ThreadType
  <2> QED
    BY <2>1, <2>2 DEF SameCall, ThreadStates
<1>7. Ends(t, e)
  BY <1>1, <1>2, <1>3, <1>4, <1>5, <1>6 DEF Ends
<1> QED
  BY <1>7

\* A waiter that leaves the list of the event at index i, and returns after the last.
Leaves(t, e) ==
  /\ thread[t].pc = "dequeue" /\ e = thread[t].events[thread[t].i] /\ lock[e] = Nobody
  /\ ToSet(waiters_'[e]) = ToSet(waiters_[e]) \ {SyncWaiter(t)} /\ IsInjective(waiters_'[e])
  /\ \A d \in Events : d # e => waiters_'[d] = waiters_[d]
  /\ \A u \in Threads : u # t => thread'[u] = thread[u]
  /\ IF thread[t].i = Len(thread[t].events)
     THEN /\ thread'[t] = [Idle EXCEPT !.during = thread[t].during]
          /\ \A d \in Events : owed'[d] = IF thread[t].event = d /\ AutoReset(d)
                                          THEN owed[d] - 1 ELSE owed[d]
     ELSE /\ thread'[t] = [thread[t] EXCEPT !.i = thread[t].i + 1]
          /\ owed' = owed
  /\ UNCHANGED <<signaled_, lock, watching>>

\* A fired waiter is not on the list of the event that fired it, so the two branches of the
\* loop in WaitMany() have the same effect.
LEMMA LeaveWaitListPoints ==
  ASSUME IndInv, NEW t \in Threads, LeaveWaitList(t)
  PROVE  \E e \in Events : Leaves(t, e)
<1>0. Types /\ Lists /\ Control
  BY DEF IndInv
<1>1. thread[t] \in ThreadStates
  BY <1>0, ThreadType
<1>2. PICK e \in Events : e = thread[t].events[thread[t].i]
  BY <1>0, <1>1 DEF ThreadStates, Control, Controlled, LeaveWaitList
<1>3. /\ thread[t].pc = "dequeue" /\ lock[e] = Nobody
      /\ waiters_' = IF thread[t].many /\ e = thread[t].event THEN waiters_
                     ELSE [waiters_ EXCEPT ![e] = Dequeue(@, t, t)]
      /\ IF thread[t].i = Len(thread[t].events) THEN Return(t)
         ELSE thread' = [thread EXCEPT ![t].i = @ + 1] /\ UNCHANGED owed
      /\ UNCHANGED <<signaled_, lock, watching>>
  BY <1>2 DEF LeaveWaitList, Unlocked
<1>4. waiters_[e] \in Seq(Waiters) /\ IsInjective(waiters_[e])
  BY <1>0 DEF Types, Lists, ListsOf, ListSane, OnList, Sleeping
<1>5. /\ ToSet(waiters_'[e]) = ToSet(waiters_[e]) \ {SyncWaiter(t)} /\ IsInjective(waiters_'[e])
      /\ \A d \in Events : d # e => waiters_'[d] = waiters_[d]
  <2>1. CASE thread[t].many /\ e = thread[t].event
    <3>1. SyncWaiter(t) \notin ToSet(waiters_[e])
      BY <1>0, <2>1 DEF Lists, ListsOf, ListSane, OnList, Sleeping
    <3> QED
      BY <1>3, <1>4, <2>1, <3>1
  <2>2. CASE ~(thread[t].many /\ e = thread[t].event)
    <3>1. waiters_' = [waiters_ EXCEPT ![e] = Dequeue(waiters_[e], t, t)]
      BY <1>3, <2>2
    <3>2. /\ ToSet(Dequeue(waiters_[e], t, t)) = ToSet(waiters_[e]) \ {SyncWaiter(t)}
          /\ IsInjective(Dequeue(waiters_[e], t, t))
      BY <1>4, DequeueSet DEF SyncWaiter
    <3> QED
      BY <1>0, <3>1, <3>2 DEF Types
  <2> QED
    BY <2>1, <2>2
<1>6. CASE thread[t].i = Len(thread[t].events)
  <2>1. /\ thread' = [thread EXCEPT ![t] = [Idle EXCEPT !.during = thread[t].during]]
        /\ owed' = IF thread[t].result /\ AutoReset(thread[t].event)
                   THEN [owed EXCEPT ![thread[t].event] = @ - 1] ELSE owed
    BY <1>3, <1>6 DEF Return
  <2>2. /\ thread'[t] = [Idle EXCEPT !.during = thread[t].during]
        /\ \A u \in Threads : u # t => thread'[u] = thread[u]
    BY <1>0, <2>1 DEF Types
  <2>3. thread[t].result <=> thread[t].event # Nobody
    BY <1>0, <1>3 DEF Control, Controlled
  <2>4. \A d \in Events : owed'[d] = IF thread[t].event = d /\ AutoReset(d)
                                     THEN owed[d] - 1 ELSE owed[d]
    BY <1>0, <2>1, <2>3, Constants DEF Types
  <2>5. Leaves(t, e)
    BY <1>2, <1>3, <1>5, <1>6, <2>2, <2>4, Zenon DEF Leaves
  <2> QED
    BY <2>5
<1>7. CASE thread[t].i # Len(thread[t].events)
  <2>1. thread' = [thread EXCEPT ![t] = [thread[t] EXCEPT !.i = thread[t].i + 1]] /\ owed' = owed
    BY <1>3, <1>7
  <2>2. /\ thread'[t] = [thread[t] EXCEPT !.i = thread[t].i + 1]
        /\ \A u \in Threads : u # t => thread'[u] = thread[u]
    BY <1>0, <2>1 DEF Types
  <2>3. Leaves(t, e)
    BY <1>2, <1>3, <1>5, <1>7, <2>1, <2>2, Zenon DEF Leaves
  <2> QED
    BY <2>3
<1> QED
  BY <1>6, <1>7

\* WaitMany() takes the signal of one of its events.
Wins(t, e) ==
  /\ thread[t].pc = "enqueue" /\ e \in ToSet(thread[t].events) /\ signaled_[e] /\ Consume(e)
  /\ thread'[t] = Idle /\ \A u \in Threads : u # t => thread'[u] = thread[u]
  /\ \A d \in Events : lock'[d] = IF lock[d] = t THEN Nobody ELSE lock[d]
  /\ UNCHANGED <<waiters_, watching>>

\* WaitMany() enqueues its SyncWaiter on all of its events.
Enqueues(t) ==
  /\ thread[t].pc = "enqueue" /\ \A e \in ToSet(thread[t].events) : ~signaled_[e]
  /\ \A e \in Events :
       /\ ToSet(waiters_'[e]) = IF e \in ToSet(thread[t].events)
                                THEN ToSet(waiters_[e]) \cup {SyncWaiter(t)} ELSE ToSet(waiters_[e])
       /\ IsInjective(waiters_'[e])
  /\ thread'[t] = [thread[t] EXCEPT !.pc = "cv"] /\ \A u \in Threads : u # t => thread'[u] = thread[u]
  /\ \A d \in Events : lock'[d] = IF lock[d] = t THEN Nobody ELSE lock[d]
  /\ UNCHANGED <<signaled_, owed, watching>>

\* The two ends of EnqueueMany().
LEMMA EnqueueManyPoints ==
  ASSUME IndInv, NEW t \in Threads, EnqueueMany(t)
  PROVE  (\E e \in Events : Wins(t, e)) \/ Enqueues(t)
<1>0. Types /\ Lists /\ Control
  BY DEF IndInv
<1> DEFINE events == thread[t].events
           winners == {i \in 1..Len(events) : signaled_[events[i]]}
<1>1. events \in Seq(Events) /\ Len(events) \in Nat /\ DOMAIN events = 1..Len(events)
  BY <1>0, ThreadType DEF ThreadStates
<1>2. /\ thread[t].pc = "enqueue" /\ UNCHANGED watching
      /\ \A d \in Events : lock'[d] = IF lock[d] = t THEN Nobody ELSE lock[d]
  BY DEF EnqueueMany, Unlock, Holds
<1>3. CASE winners # {}
  <2>1. PICK i \in 1..Len(events) : i = Min(winners) /\ signaled_[events[i]]
    BY <1>1, <1>3, WinnerIsMin
  <2>2. events[i] \in Events /\ events[i] \in ToSet(events)
    <3>1. i \in 1..Len(events)
      BY <2>1
    <3> HIDE DEF events
    <3> QED
      BY <1>1, <3>1 DEF ToSet
  <2>3. Consume(events[i]) /\ UNCHANGED waiters_ /\ thread' = [thread EXCEPT ![t] = Idle]
    BY <1>3, <2>1 DEF EnqueueMany
  <2>4. thread'[t] = Idle /\ \A u \in Threads : u # t => thread'[u] = thread[u]
    BY <1>0, <2>3 DEF Types
  <2>5. UNCHANGED <<waiters_, watching>>
    BY <1>2, <2>3
  <2>6. Wins(t, events[i])
    BY <1>2, <2>1, <2>2, <2>3, <2>4, <2>5, Zenon DEF Wins
  <2> QED
    BY <2>2, <2>6
<1>4. CASE winners = {}
  <2>1. /\ waiters_' = [e \in Events |-> IF e \in ToSet(events)
                                         THEN Append(waiters_[e], SyncWaiter(t)) ELSE waiters_[e]]
        /\ thread' = [thread EXCEPT ![t] = [thread[t] EXCEPT !.pc = "cv"]]
        /\ UNCHANGED <<signaled_, owed>>
    BY <1>4 DEF EnqueueMany
  <2>2. ASSUME NEW e \in Events
        PROVE  /\ ToSet(waiters_'[e]) = IF e \in ToSet(thread[t].events)
                                        THEN ToSet(waiters_[e]) \cup {SyncWaiter(t)}
                                        ELSE ToSet(waiters_[e])
               /\ IsInjective(waiters_'[e])
    <3>1. waiters_[e] \in Seq(Waiters) /\ IsInjective(waiters_[e])
      BY <1>0 DEF Types, Lists, ListsOf, ListSane, OnList, Sleeping
    <3>2. SyncWaiter(t) \in Waiters /\ SyncWaiter(t) \notin ToSet(waiters_[e])
      BY <1>0, <1>2, WaitersMade DEF Lists, ListsOf, ListSane, OnList, Sleeping
    <3>3. /\ ToSet(Append(waiters_[e], SyncWaiter(t))) = ToSet(waiters_[e]) \cup {SyncWaiter(t)}
          /\ IsInjective(Append(waiters_[e], SyncWaiter(t)))
      BY <3>1, <3>2, AppendSet
    <3> QED
      BY <2>1, <3>1, <3>3
  <2>3. \A e \in ToSet(thread[t].events) : ~signaled_[e]
    BY <1>1, <1>4 DEF ToSet
  <2>4. /\ thread'[t] = [thread[t] EXCEPT !.pc = "cv"]
        /\ \A u \in Threads : u # t => thread'[u] = thread[u]
    BY <1>0, <2>1 DEF Types
  <2>5. UNCHANGED <<signaled_, owed, watching>>
    BY <1>2, <2>1
  <2>6. Enqueues(t)
    BY <1>2, <2>2, <2>3, <2>4, <2>5, Zenon DEF Enqueues
  <2> QED
    BY <2>6
<1> QED
  BY <1>3, <1>4

\* A caller that finds the event signaled.
Takes(e) ==
  signaled_[e] /\ lock[e] = Nobody /\ Consume(e) /\ UNCHANGED <<waiters_, thread, lock, watching>>

\* A wait that enqueues its SyncWaiter.
Blocks(t, e) ==
  /\ thread[t].pc = "idle" /\ lock[e] = Nobody /\ ~signaled_[e]
  /\ ToSet(waiters_'[e]) = ToSet(waiters_[e]) \cup {SyncWaiter(t)} /\ IsInjective(waiters_'[e])
  /\ \A d \in Events : d # e => waiters_'[d] = waiters_[d]
  /\ thread'[t].pc = "cv" /\ thread'[t].events = <<e>> /\ ~thread'[t].fired /\ ~thread'[t].result
  /\ thread'[t].event = Nobody /\ thread'[t].during = Nobody
  /\ \A u \in Threads : u # t => thread'[u] = thread[u]
  /\ UNCHANGED <<signaled_, lock, owed, watching>>

\* TimedWait() returns at once or goes to sleep.
LEMMA WaitPoints ==
  ASSUME IndInv, NEW t \in Threads, NEW e \in Events, NEW timed \in BOOLEAN, Wait(t, e, timed)
  PROVE  Takes(e) \/ Blocks(t, e)
<1>0. Types /\ Lists
  BY DEF IndInv
<1>1. thread[t].pc = "idle" /\ lock[e] = Nobody /\ UNCHANGED <<lock, watching>>
  BY DEF Wait, Call, Unlocked
<1>2. CASE signaled_[e]
  BY <1>1, <1>2 DEF Wait, Takes
<1>3. CASE ~signaled_[e]
  <2> DEFINE r == [Idle EXCEPT !.pc = "cv", !.events = <<e>>, !.timed = timed]
  <2>1. /\ waiters_' = [waiters_ EXCEPT ![e] = Append(waiters_[e], SyncWaiter(t))]
        /\ thread' = [thread EXCEPT ![t] = r] /\ UNCHANGED <<signaled_, owed>>
    BY <1>3 DEF Wait
  <2>2. waiters_[e] \in Seq(Waiters) /\ IsInjective(waiters_[e])
    BY <1>0 DEF Types, Lists, ListsOf, ListSane, OnList, Sleeping
  <2>3. SyncWaiter(t) \in Waiters /\ SyncWaiter(t) \notin ToSet(waiters_[e])
    BY <1>0, <1>1, WaitersMade DEF Lists, ListsOf, ListSane, OnList, Sleeping
  <2>4. /\ ToSet(Append(waiters_[e], SyncWaiter(t))) = ToSet(waiters_[e]) \cup {SyncWaiter(t)}
        /\ IsInjective(Append(waiters_[e], SyncWaiter(t)))
    BY <2>2, <2>3, AppendSet
  <2>5. /\ ToSet(waiters_'[e]) = ToSet(waiters_[e]) \cup {SyncWaiter(t)} /\ IsInjective(waiters_'[e])
        /\ \A d \in Events : d # e => waiters_'[d] = waiters_[d]
    BY <1>0, <2>1, <2>4 DEF Types
  <2>6. /\ r.pc = "cv" /\ r.events = <<e>> /\ ~r.fired /\ ~r.result
        /\ r.event = Nobody /\ r.during = Nobody
    BY DEF Idle
  <2> HIDE DEF r
  <2>7. thread'[t] = r /\ \A u \in Threads : u # t => thread'[u] = thread[u]
    BY <1>0, <2>1 DEF Types
  <2> QED
    BY <1>1, <1>3, <2>1, <2>5, <2>6, <2>7 DEF Blocks
<1> QED
  BY <1>2, <1>3

\* A watch of a signaled event posts its task.
Posts(v, e, flag) ==
  /\ watcher[v].flag \in set \cup {Nobody} /\ ~Referenced(flag) /\ lock[e] = Nobody
  /\ signaled_[e] /\ Consume(e) /\ set' = set \ {flag}
  /\ ToSet(tasks'[v]) = ToSet(tasks[v]) \cup {flag}
  /\ \A u \in Watchers : u # v => tasks'[u] = tasks[u] /\ watcher'[u] = watcher[u]
  /\ watcher'[v].flag = flag
  /\ UNCHANGED <<waiters_, lock, thread>>

\* Another watch enqueues an AsyncWaiter.
Registers(v, e, flag, p) ==
  /\ watcher[v].flag \in set \cup {Nobody} /\ ~Referenced(flag) /\ lock[e] = Nobody
  /\ ~signaled_[e] /\ set' = set \ {flag}
  /\ ToSet(waiters_'[e]) = ToSet(waiters_[e]) \cup {AsyncWaiter(p, flag)} /\ IsInjective(waiters_'[e])
  /\ \A d \in Events : d # e => waiters_'[d] = waiters_[d]
  /\ \A u \in Watchers : u # v => watcher'[u] = watcher[u]
  /\ watcher'[v] = [flag |-> flag, kernel |-> e, waiter |-> p]
  /\ UNCHANGED <<signaled_, lock, thread, tasks, owed>>

\* The two ends of StartWatching().
LEMMA StartWatchingPoints ==
  ASSUME IndInv, NEW v \in Watchers, NEW e \in Events, StartWatching(v, e)
  PROVE  \E flag \in Flags : Posts(v, e, flag) \/ \E p \in Pointers : Registers(v, e, flag, p)
<1>0. Types /\ Lists
  BY DEF IndInv
<1>1. /\ watcher[v].flag \in set \cup {Nobody} /\ lock[e] = Nobody
      /\ UNCHANGED <<lock, thread>>
  BY DEF StartWatching, Unlocked
<1>2. PICK flag \in Flags :
       /\ ~Referenced(flag)
       /\ set' = set \ {flag}
       /\ IF signaled_[e]
          THEN /\ Consume(e)
               /\ tasks' = [tasks EXCEPT ![v] = Append(@, flag)]
               /\ watcher' = [watcher EXCEPT ![v].flag = flag]
               /\ UNCHANGED waiters_
          ELSE /\ \E p \in Pointers \ PointersInUse :
                    /\ waiters_' = [waiters_ EXCEPT ![e] = Append(@, AsyncWaiter(p, flag))]
                    /\ watcher' = [watcher EXCEPT ![v] = [flag |-> flag, kernel |-> e, waiter |-> p]]
               /\ UNCHANGED <<signaled_, owed, tasks>>
  BY DEF StartWatching
<1>3. CASE signaled_[e]
  <2>1. Consume(e) /\ UNCHANGED waiters_
    BY <1>2, <1>3
  <2>2. /\ tasks' = [tasks EXCEPT ![v] = Append(tasks[v], flag)]
        /\ watcher' = [watcher EXCEPT ![v] = [watcher[v] EXCEPT !.flag = flag]]
    BY <1>2, <1>3
  <2>3. tasks[v] \in Seq(Flags) /\ watcher[v] \in WatcherStates
    BY <1>0 DEF Types
  <2>4. ToSet(Append(tasks[v], flag)) = ToSet(tasks[v]) \cup {flag}
    BY <2>3, AppendSet
  <2>5. ToSet(tasks'[v]) = ToSet(tasks[v]) \cup {flag} /\ watcher'[v].flag = flag
    BY <1>0, <2>2, <2>3, <2>4 DEF Types, WatcherStates
  <2>6. \A u \in Watchers : u # v => tasks'[u] = tasks[u] /\ watcher'[u] = watcher[u]
    BY <1>0, <2>2 DEF Types
  <2>7. Posts(v, e, flag)
    BY <1>1, <1>2, <1>3, <2>1, <2>5, <2>6 DEF Posts
  <2> QED
    BY <2>7
<1>4. CASE ~signaled_[e]
  <2>1. PICK p \in Pointers :
          /\ waiters_' = [waiters_ EXCEPT ![e] = Append(waiters_[e], AsyncWaiter(p, flag))]
          /\ watcher' = [watcher EXCEPT ![v] = [flag |-> flag, kernel |-> e, waiter |-> p]]
    BY <1>2, <1>4
  <2>2. UNCHANGED <<signaled_, owed, tasks>>
    BY <1>2, <1>4
  <2>3. waiters_[e] \in Seq(Waiters) /\ IsInjective(waiters_[e])
    BY <1>0 DEF Types, Lists, ListsOf, ListSane, OnList, Sleeping
  <2>4. AsyncWaiter(p, flag) \in Waiters /\ AsyncWaiter(p, flag) \notin ToSet(waiters_[e])
    BY <1>2, WaitersMade DEF Referenced, AsyncWaiter
  <2>5. /\ ToSet(Append(waiters_[e], AsyncWaiter(p, flag)))
             = ToSet(waiters_[e]) \cup {AsyncWaiter(p, flag)}
        /\ IsInjective(Append(waiters_[e], AsyncWaiter(p, flag)))
    BY <2>3, <2>4, AppendSet
  <2>6. /\ ToSet(waiters_'[e]) = ToSet(waiters_[e]) \cup {AsyncWaiter(p, flag)}
        /\ IsInjective(waiters_'[e]) /\ \A d \in Events : d # e => waiters_'[d] = waiters_[d]
    BY <1>0, <2>1, <2>5 DEF Types
  <2>7. /\ \A u \in Watchers : u # v => watcher'[u] = watcher[u]
        /\ watcher'[v] = [flag |-> flag, kernel |-> e, waiter |-> p]
    BY <1>0, <2>1 DEF Types
  <2>8. Registers(v, e, flag, p)
    BY <1>1, <1>2, <1>4, <2>2, <2>6, <2>7 DEF Registers
  <2> QED
    BY <2>8
<1> QED
  BY <1>3, <1>4

\* The end of a watch: its waiter is on no list afterwards.
Stops(v) ==
  /\ watcher[v].flag \in Flags
  /\ \A e \in Events :
       /\ ToSet(waiters_'[e]) = IF e = watcher[v].kernel
                                THEN ToSet(waiters_[e]) \ {AsyncWaiter(watcher[v].waiter, watcher[v].flag)}
                                ELSE ToSet(waiters_[e])
       /\ IsInjective(waiters_'[e])
  /\ watcher'[v].flag = Nobody /\ \A u \in Watchers : u # v => watcher'[u] = watcher[u]
  /\ \/ set' = set \cup {watcher[v].flag}
     \/ /\ set' = set /\ watcher[v].kernel \in Events
        /\ AsyncWaiter(watcher[v].waiter, watcher[v].flag) \in ToSet(waiters_[watcher[v].kernel])
  /\ UNCHANGED <<signaled_, lock, thread, tasks, owed>>

\* StopWatching() removes the AsyncWaiter or sets the Flag: a waiter of a watch whose callback
\* ran is on no list, and no other waiter has its address and its Flag.
LEMMA StopWatchingPoints ==
  ASSUME IndInv, NEW v \in Watchers, StopWatching(v)
  PROVE  Stops(v)
<1>0. Types /\ Lists /\ Watches
  BY DEF IndInv
<1> DEFINE me == watcher[v]
           aw == AsyncWaiter(me.waiter, me.flag)
           listed == me.kernel # Nobody /\ Listed(waiters_[me.kernel], me.waiter, me.flag)
<1>1. me \in WatcherStates /\ me.flag \in Flags
  BY <1>0 DEF StopWatching, Types, WatcherStates
<1>2. /\ watcher' = [watcher EXCEPT ![v] = [watcher[v] EXCEPT !.flag = Nobody]]
      /\ waiters_' = IF me.flag \notin set /\ listed
                     THEN [waiters_ EXCEPT ![me.kernel] = Dequeue(waiters_[me.kernel], me.waiter, me.flag)]
                     ELSE waiters_
      /\ set' = IF listed THEN set ELSE set \cup {me.flag}
      /\ UNCHANGED <<signaled_, lock, thread, tasks, owed>>
  BY DEF StopWatching
<1>3. ASSUME NEW e \in Events PROVE waiters_[e] \in Seq(Waiters) /\ IsInjective(waiters_[e])
  BY <1>0 DEF Types, Lists, ListsOf, ListSane, OnList, Sleeping
<1>4. listed <=> me.kernel \in Events /\ aw \in ToSet(waiters_[me.kernel])
  BY <1>1, <1>3, Constants, DequeueSet DEF WatcherStates, AsyncWaiter
<1>5. watcher'[v].flag = Nobody /\ \A u \in Watchers : u # v => watcher'[u] = watcher[u]
  BY <1>0, <1>1, <1>2 DEF Types, WatcherStates
<1>6. listed => me.flag \notin set
  <2>1. ASSUME me.kernel \in Events, aw \in ToSet(waiters_[me.kernel]) PROVE me.flag \notin set
    <3>1. aw \in Waiters /\ aw.tag = me.flag
      BY <1>3, <2>1 DEF ToSet, AsyncWaiter
    <3>2. IsAsync(aw)
      <4>1. ~IsAsync(aw) => aw.tag \in Threads
        BY <3>1, WaitersMade DEF SyncWaiter
      <4> QED
        BY <1>1, <3>1, <4>1, Constants
    <3> QED
      BY <1>0, <2>1, <3>1, <3>2 DEF Watches, WaiterKnown
  <2> QED
    BY <1>4, <2>1
<1>7. ASSUME NEW e \in Events
      PROVE  /\ ToSet(waiters_'[e]) = IF e = me.kernel THEN ToSet(waiters_[e]) \ {aw}
                                      ELSE ToSet(waiters_[e])
             /\ IsInjective(waiters_'[e])
  <2>1. CASE listed
    <3>1. me.kernel \in Events
      BY <1>4, <2>1
    <3>2. waiters_' = [waiters_ EXCEPT ![me.kernel] = Dequeue(waiters_[me.kernel], me.waiter, me.flag)]
      BY <1>2, <1>6, <2>1
    <3>3. /\ ToSet(Dequeue(waiters_[me.kernel], me.waiter, me.flag)) = ToSet(waiters_[me.kernel]) \ {aw}
          /\ IsInjective(Dequeue(waiters_[me.kernel], me.waiter, me.flag))
      BY <1>3, <3>1, DequeueSet DEF AsyncWaiter
    <3> HIDE DEF listed, me, aw
    <3> QED
      BY <1>0, <1>3, <3>1, <3>2, <3>3 DEF Types
  <2>2. CASE ~listed
    <3>1. waiters_' = waiters_
      BY <1>2, <2>2
    <3>2. e = me.kernel => aw \notin ToSet(waiters_[e])
      BY <1>4, <2>2
    <3> HIDE DEF listed, me, aw
    <3> QED
      BY <1>3, <3>1, <3>2
  <2> QED
    BY <2>1, <2>2
<1>8. \/ set' = set \cup {me.flag}
      \/ set' = set /\ me.kernel \in Events /\ aw \in ToSet(waiters_[me.kernel])
  BY <1>2, <1>4
<1> QED
  BY <1>1, <1>2, <1>5, <1>7, <1>8 DEF Stops

-----------------------------------------------------------------------------
(***************************************************************************)
(* Threads and locks.                                                      *)
(***************************************************************************)

\* A record of one event.
LEMMA OneEvent ==
  ASSUME NEW e \in Events
  PROVE  /\ <<e>> \in Seq(Events) /\ <<e>> # <<>> /\ IsInjective(<<e>>) /\ ToSet(<<e>>) = {e}
         /\ Len(<<e>>) = 1 /\ <<e>>[1] = e
<1>1. <<e>> \in Seq(Events) /\ Len(<<e>>) = 1 /\ <<e>>[1] = e /\ DOMAIN <<e>> = {1}
  OBVIOUS
<1> QED
  BY <1>1 DEF IsInjective, ToSet

\* The places of threads and the members of their SyncWaiters stay in agreement.
LEMMA NextControl == IndInv /\ Next => Control'
<1> SUFFICES ASSUME IndInv, Next PROVE Control'
  OBVIOUS
<1>0. Types /\ Control
  BY DEF IndInv
<1>u. ASSUME thread' = thread PROVE Control'
  BY <1>0, <1>u DEF Control, Controlled
<1>i. Idle.pc = "idle" /\ ~Idle.fired /\ ~Idle.result /\ Idle.event = Nobody /\ Idle.during = Nobody
  BY DEF Idle
<1>1. ASSUME NEW t \in Threads, NEW e \in Events, Reset(t, e) PROVE Control'
  BY <1>1, <1>u DEF Reset
<1>2. ASSUME NEW t \in Threads, NEW e \in Events, IsSignaled(t, e) PROVE Control'
  BY <1>2, <1>u DEF IsSignaled
<1>3. ASSUME NEW t \in Threads, NEW e \in Events, Signal(t, e) PROVE Control'
  <2>1. CASE signaled_[e]
    BY <1>3, <1>u, <2>1 DEF Signal
  <2>2. CASE ~signaled_[e]
    <3> DEFINE r == [Idle EXCEPT !.pc = "signal", !.events = <<e>>]
    <3>1. r.pc = "signal" /\ ~r.fired /\ ~r.result /\ r.event = Nobody /\ r.during = Nobody
      BY DEF Idle
    <3>2. thread' = [thread EXCEPT ![t] = r]
      BY <1>3, <2>2 DEF Signal
    <3> HIDE DEF r
    <3>3. thread'[t] = r /\ \A u \in Threads : u # t => thread'[u] = thread[u]
      BY <1>0, <3>2 DEF Types
    <3> QED
      BY <1>0, <3>1, <3>3 DEF Control, Controlled
  <2> QED
    BY <2>1, <2>2
<1>4. ASSUME NEW t \in Threads, NEW e \in Events, NEW timed \in BOOLEAN, Wait(t, e, timed)
      PROVE  Control'
  <2>1. CASE Takes(e)
    BY <1>u, <2>1 DEF Takes
  <2>2. CASE Blocks(t, e)
    <3>1. thread'[t].events # <<>> /\ IsInjective(thread'[t].events)
      BY <2>2, OneEvent DEF Blocks
    <3>2. thread'[t].pc = "cv" /\ ~thread'[t].fired /\ ~thread'[t].result /\ thread'[t].event = Nobody
      BY <2>2 DEF Blocks
    <3>3. \A u \in Threads : u # t => thread'[u] = thread[u]
      BY <2>2 DEF Blocks
    <3> QED
      BY <1>0, <3>1, <3>2, <3>3 DEF Control, Controlled
  <2> QED
    BY <1>4, <2>1, <2>2, WaitPoints
<1>5. ASSUME NEW t \in Threads, NEW events \in Arrays, WaitMany(t, events) PROVE Control'
  <2> DEFINE r == [Idle EXCEPT !.pc = "enqueue", !.events = events, !.many = TRUE]
  <2>1. /\ r.pc = "enqueue" /\ r.events = events
        /\ ~r.fired /\ ~r.result /\ r.event = Nobody /\ r.during = Nobody
    BY DEF Idle
  <2>2. thread' = [thread EXCEPT ![t] = r]
    BY <1>5 DEF WaitMany
  <2> HIDE DEF r
  <2>3. thread'[t] = r /\ \A u \in Threads : u # t => thread'[u] = thread[u]
    BY <1>0, <2>2 DEF Types
  <2> QED
    BY <1>0, <2>1, <2>3, Constants DEF Control, Controlled
<1>6. ASSUME NEW t \in Threads, SignalWaiter(t) PROVE Control'
  <2>1. PICK e \in Events, w \in Waiters : Serves(t, e, w)
    BY <1>6, SignalWaiterPoints
  <2>2. ASSUME NEW u \in Threads PROVE Controlled(u)'
    <3>1. CASE u = t
      BY <1>0, <1>i, <2>1, <3>1 DEF Serves, Control, Controlled
    <3>2. CASE u # t /\ SyncWaiter(u) = w /\ ~thread[u].fired
      <4>1. thread[u].pc = "cv" /\ e \in ToSet(thread[u].events)
        <5>1. SyncWaiter(u) \in ToSet(waiters_[e])
          BY <2>1, <3>2 DEF Serves
        <5>2. thread[u].pc \in {"cv", "dequeue"} /\ e \in Ahead(u)
          BY <5>1 DEF IndInv, Lists, ListsOf, OnList
        <5>3. thread[u].events \in Seq(Events)
          BY <1>0, ThreadType DEF ThreadStates
        <5> QED
          BY <1>0, <3>2, <5>2, <5>3 DEF Ahead, ToSet, Control, Controlled
      <4>2. /\ SameCall(u) /\ thread'[u].fired /\ thread'[u].event = e
        BY <2>1, <3>2 DEF Serves
      <4> QED
        BY <1>0, <4>1, <4>2, Constants DEF SameCall, Control, Controlled
    <3>3. CASE u # t /\ ~(SyncWaiter(u) = w /\ ~thread[u].fired)
      <4>1. /\ SameCall(u) /\ thread'[u].fired = thread[u].fired /\ thread'[u].event = thread[u].event
            /\ thread'[u].during = thread[u].during
        BY <2>1, <3>3 DEF Serves
      <4> QED
        BY <1>0, <4>1 DEF SameCall, Control, Controlled
    <3> QED
      BY <3>1, <3>2, <3>3
  <2> QED
    BY <2>2 DEF Control
<1>7. ASSUME NEW t \in Threads, SignalEnd(t) \/ SignalOneEnd(t) PROVE Control'
  <2>1. PICK e \in Events : Ends(t, e)
    BY <1>7, SignalEndPoints
  <2>2. ASSUME NEW u \in Threads PROVE Controlled(u)'
    BY <1>0, <1>i, <2>1 DEF Ends, SameCall, Control, Controlled
  <2> QED
    BY <2>2 DEF Control
<1>8. ASSUME NEW t \in Threads, EnqueueManyLocks(t) PROVE Control'
  BY <1>8, <1>u DEF EnqueueManyLocks
<1>9. ASSUME NEW t \in Threads, EnqueueMany(t) PROVE Control'
  <2>1. ASSUME NEW e \in Events, Wins(t, e) PROVE Control'
    BY <1>0, <1>i, <2>1 DEF Wins, Control, Controlled
  <2>2. CASE Enqueues(t)
    <3>1. thread[t] \in ThreadStates
      BY <1>0, ThreadType
    <3>2. /\ thread'[t].pc = "cv" /\ thread'[t].events = thread[t].events
          /\ thread'[t].fired = thread[t].fired /\ thread'[t].result = thread[t].result
          /\ thread'[t].event = thread[t].event
      BY <2>2, <3>1 DEF Enqueues, ThreadStates
    <3>3. thread[t].pc = "enqueue" /\ \A u \in Threads : u # t => thread'[u] = thread[u]
      BY <2>2 DEF Enqueues
    <3> QED
      BY <1>0, <3>2, <3>3 DEF Control, Controlled
  <2> QED
    BY <1>9, <2>1, <2>2, EnqueueManyPoints
<1>10. ASSUME NEW t \in Threads, WakeUp(t) PROVE Control'
  <2>1. thread[t] \in ThreadStates
    BY <1>0, ThreadType
  <2>2. thread[t].pc = "cv" /\ 1 \in 1..Len(thread[t].events)
    BY <1>0, <1>10, <2>1 DEF WakeUp, Control, Controlled, ThreadStates
  <2> DEFINE r == [thread[t] EXCEPT !.pc = "dequeue", !.i = 1, !.fired = TRUE,
                                    !.result = thread[t].fired]
  <2>3. /\ r.pc = "dequeue" /\ r.i = 1 /\ r.fired /\ r.result = thread[t].fired
        /\ r.events = thread[t].events /\ r.event = thread[t].event
    BY <2>1 DEF ThreadStates
  <2>4. thread' = [thread EXCEPT ![t] = r]
    BY <1>10 DEF WakeUp
  <2> HIDE DEF r
  <2>5. thread'[t] = r /\ \A u \in Threads : u # t => thread'[u] = thread[u]
    BY <1>0, <2>4 DEF Types
  <2> QED
    BY <1>0, <2>2, <2>3, <2>5 DEF Control, Controlled
<1>11. ASSUME NEW t \in Threads, LeaveWaitList(t) PROVE Control'
  <2>1. PICK e \in Events : Leaves(t, e)
    BY <1>11, LeaveWaitListPoints
  <2>2. thread[t] \in ThreadStates
    BY <1>0, ThreadType
  <2>3. CASE thread[t].i = Len(thread[t].events)
    <3>1. thread[t].during = Nobody
      <4>1. SUFFICES ASSUME NEW u \in Threads, thread[t].during = u PROVE FALSE
        BY <2>2, <4>1 DEF ThreadStates
      <4>2. /\ thread[u].pc \in {"signal", "signaled"} /\ thread[u].events[1] = thread[t].event
            /\ thread[t].event \in Ahead(t)
        BY <4>1 DEF IndInv, Firing, FiredBy
      <4>3. thread[t].event = e
        BY <2>1, <2>2, <2>3, <4>2 DEF Ahead, Leaves, ThreadStates
      <4>4. lock[e] = u
        BY <4>2, <4>3 DEF IndInv, Locks, LocksOf, SignalHoldsLock
      <4> QED
        BY <2>1, <4>4, Constants DEF Leaves
    <3> DEFINE r == [Idle EXCEPT !.during = thread[t].during]
    <3>2. r.pc = "idle" /\ ~r.fired /\ ~r.result /\ r.event = Nobody /\ r.during = Nobody
      BY <3>1 DEF Idle
    <3>3. thread'[t] = r /\ \A u \in Threads : u # t => thread'[u] = thread[u]
      BY <2>1, <2>3 DEF Leaves
    <3> HIDE DEF r
    <3> QED
      BY <1>0, <3>2, <3>3 DEF Control, Controlled
  <2>4. CASE thread[t].i # Len(thread[t].events)
    <3> DEFINE r == [thread[t] EXCEPT !.i = thread[t].i + 1]
    <3>1. thread'[t] = r /\ \A u \in Threads : u # t => thread'[u] = thread[u]
      BY <2>1, <2>4 DEF Leaves
    <3>2. /\ r.pc = thread[t].pc /\ r.i = thread[t].i + 1 /\ r.fired = thread[t].fired
          /\ r.events = thread[t].events /\ r.event = thread[t].event
          /\ r.result = thread[t].result
      BY <2>2 DEF ThreadStates
    <3>3. thread[t].pc = "dequeue" /\ thread[t].i + 1 \in 1..Len(thread[t].events)
      <4>1. thread[t].pc = "dequeue"
        BY <2>1 DEF Leaves
      <4>2. thread[t].i \in 1..Len(thread[t].events) /\ Len(thread[t].events) \in Nat
        BY <1>0, <2>2, <4>1 DEF Control, Controlled, ThreadStates
      <4> QED
        BY <2>4, <4>1, <4>2
    <3> HIDE DEF r
    <3> QED
      BY <1>0, <3>1, <3>2, <3>3 DEF Control, Controlled
  <2> QED
    BY <2>3, <2>4
<1>12. ASSUME NEW v \in Watchers, NEW e \in Events, StartWatching(v, e) PROVE Control'
  BY <1>12, <1>u DEF StartWatching
<1>13. ASSUME NEW v \in Watchers, StopWatching(v) PROVE Control'
  BY <1>13, <1>u DEF StopWatching
<1>14. ASSUME NEW v \in Watchers, AsyncCallbackHelper(v) PROVE Control'
  BY <1>14, <1>u DEF AsyncCallbackHelper
<1> QED
  BY <1>1, <1>2, <1>3, <1>4, <1>5, <1>6, <1>7, <1>8, <1>9, <1>10, <1>11, <1>12, <1>13, <1>14
     DEF Next, Calls, Steps

\* A thread whose call and locks a step leaves alone.
LEMMA LocksKept ==
  ASSUME Types, NEW u \in Threads, LocksOf(u),
         thread'[u].pc = thread[u].pc, thread'[u].events = thread[u].events,
         \A d \in Events : lock'[d] = u <=> lock[d] = u,
         \A d \in Events : lock[d] = u /\ ~signaled_[d] => ~signaled_'[d]
  PROVE  LocksOf(u)'
<1>0. thread[u].events \in Seq(Events)
  BY ThreadType DEF ThreadStates
<1>1. SignalHoldsLock(u)'
  BY <1>0 DEF LocksOf, SignalHoldsLock
<1>2. \A e \in Events : HeldInCall(u, e)'
  BY DEF LocksOf, HeldInCall
<1>3. NotLocked(u)' = NotLocked(u) /\ NotLocked(u) \subseteq Events
  BY <1>0 DEF NotLocked, Holds, ToSet
<1>4. LocksInOrder(u)'
  BY <1>3 DEF LocksOf, LocksInOrder
<1> QED
  BY <1>1, <1>2, <1>4 DEF LocksOf

\* A thread that holds no lock and wants none.
LEMMA NoLocks ==
  ASSUME NEW u \in Threads, thread'[u].pc \notin {"signal", "signaled", "enqueue"},
         \A d \in Events : lock'[d] # u
  PROVE  LocksOf(u)'
BY DEF LocksOf, SignalHoldsLock, HeldInCall, LocksInOrder

\* A thread outside of Signal() and EnqueueMany() holds no lock.
LEMMA HoldsNone ==
  ASSUME IndInv, NEW u \in Threads, thread[u].pc \notin {"signal", "signaled", "enqueue"}
  PROVE  \A d \in Events : lock[d] # u
BY DEF IndInv, Locks, LocksOf, HeldInCall

\* Locks are taken by Signal() and, in the order of addresses, by EnqueueMany().
LEMMA NextLocks == IndInv /\ Next => Locks'
<1> SUFFICES ASSUME IndInv, Next PROVE Locks'
  OBVIOUS
<1>0. Types /\ Locks
  BY DEF IndInv
<1>l. \A u \in Threads : LocksOf(u)
  BY <1>0 DEF Locks
<1>s. signaled_ \in [Events -> BOOLEAN] /\ lock \in [Events -> Threads \cup {Nobody}]
  BY <1>0 DEF Types
<1>u. ASSUME UNCHANGED <<thread, lock>>, \A d \in Events : ~signaled_[d] => ~signaled_'[d]
      PROVE  Locks'
  BY <1>0, <1>l, <1>u, LocksKept DEF Locks
<1>c. ASSUME NEW e \in Events, signaled_[e], Consume(e)
      PROVE  \A d \in Events : ~signaled_[d] => ~signaled_'[d]
  BY <1>0, <1>c, ConsumePoints
<1>1. ASSUME NEW t \in Threads, NEW e \in Events, Reset(t, e) PROVE Locks'
  BY <1>1, <1>s, <1>u DEF Reset
<1>2. ASSUME NEW t \in Threads, NEW e \in Events, IsSignaled(t, e) PROVE Locks'
  <2>1. CASE signaled_[e]
    BY <1>2, <1>u, <1>c, <2>1 DEF IsSignaled
  <2>2. CASE ~signaled_[e]
    BY <1>2, <1>u, <2>2 DEF IsSignaled
  <2> QED
    BY <2>1, <2>2
<1>3. ASSUME NEW t \in Threads, NEW e \in Events, Signal(t, e) PROVE Locks'
  <2>1. CASE signaled_[e]
    BY <1>3, <1>u, <2>1 DEF Signal
  <2>2. CASE ~signaled_[e]
    <3>1. /\ thread[t].pc = "idle" /\ lock[e] = Nobody /\ lock' = [lock EXCEPT ![e] = t]
          /\ thread' = [thread EXCEPT ![t] = [Idle EXCEPT !.pc = "signal", !.events = <<e>>]]
          /\ signaled_' = signaled_
      BY <1>3, <2>2 DEF Signal, Call, Unlocked
    <3>2. thread'[t].pc = "signal" /\ thread'[t].events = <<e>>
      BY <1>0, <3>1 DEF Types, Idle
    <3>3. \A u \in Threads : u # t => thread'[u] = thread[u]
      BY <1>0, <3>1 DEF Types
    <3>4. \A d \in Events : lock'[d] = IF d = e THEN t ELSE lock[d]
      BY <1>s, <3>1
    <3>5. \A d \in Events : lock[d] # t
      BY <3>1, HoldsNone
    <3>6. LocksOf(t)'
      <4>1. Len(thread'[t].events) = 1 /\ thread'[t].events[1] = e
        BY <3>2, OneEvent
      <4> QED
        BY <2>2, <3>1, <3>2, <3>4, <3>5, <4>1 DEF LocksOf, SignalHoldsLock, HeldInCall, LocksInOrder
    <3>7. ASSUME NEW u \in Threads, u # t PROVE LocksOf(u)'
      BY <1>0, <1>l, <3>1, <3>3, <3>4, <3>7, Constants, LocksKept
    <3> QED
      BY <3>6, <3>7 DEF Locks
  <2> QED
    BY <2>1, <2>2
<1>4. ASSUME NEW t \in Threads, NEW e \in Events, NEW timed \in BOOLEAN, Wait(t, e, timed)
      PROVE  Locks'
  <2>1. CASE Takes(e)
    BY <1>u, <1>c, <2>1 DEF Takes
  <2>2. CASE Blocks(t, e)
    <3>1. /\ thread[t].pc = "idle" /\ thread'[t].pc = "cv" /\ UNCHANGED <<signaled_, lock>>
          /\ \A u \in Threads : u # t => thread'[u] = thread[u]
      BY <2>2 DEF Blocks
    <3>2. LocksOf(t)'
      BY <3>1, HoldsNone, NoLocks
    <3>3. ASSUME NEW u \in Threads, u # t PROVE LocksOf(u)'
      BY <1>0, <1>l, <3>1, <3>3, LocksKept
    <3> QED
      BY <3>2, <3>3 DEF Locks
  <2> QED
    BY <1>4, <2>1, <2>2, WaitPoints
<1>5. ASSUME NEW t \in Threads, NEW events \in Arrays, WaitMany(t, events) PROVE Locks'
  <2>1. /\ thread[t].pc = "idle" /\ UNCHANGED <<signaled_, lock>>
        /\ thread' = [thread EXCEPT ![t] = [Idle EXCEPT !.pc = "enqueue", !.events = events,
                                                        !.many = TRUE]]
    BY <1>5 DEF WaitMany, Call, kernels
  <2>2. /\ thread'[t].pc = "enqueue" /\ thread'[t].events = events
        /\ \A u \in Threads : u # t => thread'[u] = thread[u]
    BY <1>0, <2>1 DEF Types, Idle
  <2>3. \A d \in Events : lock[d] # t
    BY <2>1, HoldsNone
  <2>4. events \in Seq(Events) /\ events # <<>>
    BY Constants
  <2>5. ToSet(events) \subseteq Events /\ ToSet(events) # {}
    BY <2>4, EmptyList DEF ToSet
  <2>6. NotLocked(t)' = ToSet(events)
    BY <2>1, <2>2, <2>3, <2>5 DEF NotLocked, Holds
  <2>7. LocksOf(t)'
    BY <2>1, <2>2, <2>3, <2>5, <2>6 DEF LocksOf, SignalHoldsLock, HeldInCall, LocksInOrder
  <2>8. ASSUME NEW u \in Threads, u # t PROVE LocksOf(u)'
    BY <1>0, <1>l, <2>1, <2>2, <2>8, LocksKept
  <2> QED
    BY <2>7, <2>8 DEF Locks
<1>6. ASSUME NEW t \in Threads, SignalWaiter(t) PROVE Locks'
  <2>1. PICK e \in Events, w \in Waiters : Serves(t, e, w)
    BY <1>6, SignalWaiterPoints
  <2>2. /\ thread[t].pc = "signal" /\ UNCHANGED <<signaled_, lock>>
        /\ thread'[t].pc \in {"signal", "signaled"} /\ thread'[t].events = thread[t].events
        /\ \A u \in Threads : u # t => SameCall(u)
    BY <2>1 DEF Serves
  <2>3. LocksOf(t)'
    BY <1>l, <2>2 DEF LocksOf, SignalHoldsLock, HeldInCall, LocksInOrder
  <2>4. ASSUME NEW u \in Threads, u # t PROVE LocksOf(u)'
    BY <1>0, <1>l, <2>2, <2>4, LocksKept DEF SameCall
  <2> QED
    BY <2>3, <2>4 DEF Locks
<1>7. ASSUME NEW t \in Threads, SignalEnd(t) \/ SignalOneEnd(t) PROVE Locks'
  <2>1. PICK e \in Events : Ends(t, e)
    BY <1>7, SignalEndPoints
  <2>2. /\ thread[t].pc \in {"signal", "signaled"} /\ e = thread[t].events[1] /\ lock[e] = t
        /\ \A d \in Events : d # e => signaled_'[d] = signaled_[d]
        /\ \A d \in Events : lock'[d] = IF d = e THEN Nobody ELSE lock[d]
        /\ thread'[t] = Idle /\ \A u \in Threads : u # t => SameCall(u)
    BY <2>1 DEF Ends
  <2>3. LocksOf(t)'
    <3>1. thread'[t].pc = "idle"
      BY <2>2 DEF Idle
    <3>2. \A d \in Events : lock[d] = t => d = e
      BY <1>l, <2>2 DEF LocksOf, HeldInCall
    <3> QED
      BY <2>2, <3>1, <3>2, Constants, NoLocks
  <2>4. ASSUME NEW u \in Threads, u # t PROVE LocksOf(u)'
    BY <1>0, <1>l, <2>2, <2>4, Constants, LocksKept DEF SameCall
  <2> QED
    BY <2>3, <2>4 DEF Locks
<1>8. ASSUME NEW t \in Threads, EnqueueManyLocks(t) PROVE Locks'
  <2>1. PICK n \in Events : n = NextToLock(t) /\ n \in NotLocked(t)
                            /\ \A d \in NotLocked(t) : Address[n] <= Address[d]
    BY <1>0, <1>l, <1>8, NextToLockIsMin DEF EnqueueManyLocks, LocksOf, LocksInOrder
  <2>2. /\ thread[t].pc = "enqueue" /\ NotLocked(t) # {n} /\ lock[n] = Nobody
        /\ lock' = [lock EXCEPT ![n] = t] /\ UNCHANGED <<signaled_, thread>>
    BY <1>8, <2>1 DEF EnqueueManyLocks, Unlocked
  <2>3. \A d \in Events : lock'[d] = IF d = n THEN t ELSE lock[d]
    BY <1>s, <2>2
  <2>4. thread[t].events \in Seq(Events)
    BY <1>0, ThreadType DEF ThreadStates
  <2>5. NotLocked(t)' = NotLocked(t) \ {n} /\ NotLocked(t) \subseteq Events
    BY <2>2, <2>3, <2>4 DEF NotLocked, Holds, ToSet
  <2>6. ASSUME NEW d \in Events, NEW e \in NotLocked(t), e # n, lock'[d] = t
        PROVE  Address[d] < Address[e]
    <3>1. CASE d = n
      <4>1. Address[n] # Address[e] /\ Address[n] \in Nat /\ Address[e] \in Nat
        BY <2>5, <2>6, Parameters
      <4> QED
        BY <2>1, <3>1, <4>1
    <3>2. CASE d # n
      BY <1>l, <2>2, <2>3, <2>6, <3>2 DEF LocksOf, LocksInOrder
    <3> QED
      BY <3>1, <3>2
  <2>7. LocksInOrder(t)'
    BY <2>1, <2>2, <2>5, <2>6 DEF LocksInOrder
  <2>8. \A e \in Events : HeldInCall(t, e)'
    <3>1. n \in ToSet(thread[t].events)
      BY <2>1 DEF NotLocked
    <3> QED
      BY <1>l, <2>2, <2>3, <3>1 DEF LocksOf, HeldInCall
  <2>9. LocksOf(t)'
    BY <2>2, <2>7, <2>8 DEF LocksOf, SignalHoldsLock
  <2>10. ASSUME NEW u \in Threads, u # t PROVE LocksOf(u)'
    BY <1>0, <1>l, <2>2, <2>3, <2>10, Constants, LocksKept
  <2> QED
    BY <2>9, <2>10 DEF Locks
<1>9. ASSUME NEW t \in Threads, EnqueueMany(t) PROVE Locks'
  <2>1. /\ \A d \in Events : lock'[d] = IF lock[d] = t THEN Nobody ELSE lock[d]
        /\ \A d \in Events : ~signaled_[d] => ~signaled_'[d]
        /\ thread'[t].pc \notin {"signal", "signaled", "enqueue"}
        /\ \A u \in Threads : u # t => thread'[u] = thread[u]
    <3>1. ASSUME NEW e \in Events, Wins(t, e)
          PROVE  (\A d \in Events : ~signaled_[d] => ~signaled_'[d]) /\ thread'[t].pc = "idle"
      BY <1>c, <3>1 DEF Wins, Idle
    <3>2. ASSUME Enqueues(t) PROVE UNCHANGED signaled_ /\ thread'[t].pc = "cv"
      BY <1>0, <3>2, ThreadType DEF Enqueues, ThreadStates
    <3> QED
      BY <1>9, <3>1, <3>2, EnqueueManyPoints DEF Wins, Enqueues
  <2>2. LocksOf(t)'
    BY <2>1, Constants, NoLocks
  <2>3. ASSUME NEW u \in Threads, u # t PROVE LocksOf(u)'
    BY <1>0, <1>l, <2>1, <2>3, Constants, LocksKept
  <2> QED
    BY <2>2, <2>3 DEF Locks
<1>10. ASSUME NEW t \in Threads, WakeUp(t) PROVE Locks'
  <2>1. /\ thread[t].pc = "cv" /\ thread'[t].pc = "dequeue" /\ UNCHANGED <<signaled_, lock>>
        /\ \A u \in Threads : u # t => thread'[u] = thread[u]
    BY <1>0, <1>10, ThreadType DEF WakeUp, kernels, Types, ThreadStates
  <2>2. LocksOf(t)'
    BY <2>1, HoldsNone, NoLocks
  <2>3. ASSUME NEW u \in Threads, u # t PROVE LocksOf(u)'
    BY <1>0, <1>l, <2>1, <2>3, LocksKept
  <2> QED
    BY <2>2, <2>3 DEF Locks
<1>11. ASSUME NEW t \in Threads, LeaveWaitList(t) PROVE Locks'
  <2>1. PICK e \in Events : Leaves(t, e)
    BY <1>11, LeaveWaitListPoints
  <2>2. /\ thread[t].pc = "dequeue" /\ UNCHANGED <<signaled_, lock>>
        /\ \A u \in Threads : u # t => thread'[u] = thread[u]
    BY <2>1 DEF Leaves
  <2>3. thread'[t].pc \notin {"signal", "signaled", "enqueue"}
    BY <1>0, <2>1, ThreadType DEF Leaves, Idle, ThreadStates
  <2>4. LocksOf(t)'
    BY <2>2, <2>3, HoldsNone, NoLocks
  <2>5. ASSUME NEW u \in Threads, u # t PROVE LocksOf(u)'
    BY <1>0, <1>l, <2>2, <2>5, LocksKept
  <2> QED
    BY <2>4, <2>5 DEF Locks
<1>12. ASSUME NEW v \in Watchers, NEW e \in Events, StartWatching(v, e) PROVE Locks'
  <2>1. PICK flag \in Flags : Posts(v, e, flag) \/ \E p \in Pointers : Registers(v, e, flag, p)
    BY <1>12, StartWatchingPoints
  <2>2. UNCHANGED <<thread, lock>>
    BY <1>12 DEF StartWatching
  <2>3. \A d \in Events : ~signaled_[d] => ~signaled_'[d]
    BY <1>c, <2>1 DEF Posts, Registers
  <2> QED
    BY <1>u, <2>2, <2>3
<1>13. ASSUME NEW v \in Watchers, StopWatching(v) PROVE Locks'
  BY <1>13, <1>u DEF StopWatching
<1>14. ASSUME NEW v \in Watchers, AsyncCallbackHelper(v) PROVE Locks'
  BY <1>14, <1>u DEF AsyncCallbackHelper, kernels
<1> QED
  BY <1>1, <1>2, <1>3, <1>4, <1>5, <1>6, <1>7, <1>8, <1>9, <1>10, <1>11, <1>12, <1>13, <1>14
     DEF Next, Calls, Steps

-----------------------------------------------------------------------------
(***************************************************************************)
(* Wait-lists.                                                             *)
(***************************************************************************)

\* A thread whose wait and whose places on lists a step leaves alone.
LEMMA ListsKept ==
  ASSUME Types, NEW u \in Threads, ListsOf(u), SameCall(u),
         thread'[u].fired = thread[u].fired, thread'[u].event = thread[u].event,
         \A e \in Events : SyncWaiter(u) \in ToSet(waiters_'[e]) <=> SyncWaiter(u) \in ToSet(waiters_[e])
  PROVE  ListsOf(u)'
<1>1. Ahead(u)' = Ahead(u)
  BY DEF SameCall, Ahead
<1>2. \A e \in Events : OnList(u, e)'
  BY <1>1 DEF ListsOf, OnList, SameCall, SyncWaiter
<1>3. ToSet(thread[u].events) \subseteq Events
  BY ThreadType DEF ThreadStates, ToSet
<1>4. Sleeping(u)'
  BY <1>3 DEF ListsOf, Sleeping, SameCall, SyncWaiter
<1> QED
  BY <1>2, <1>4 DEF ListsOf

\* A thread that is on no list and need not be.
LEMMA OffLists ==
  ASSUME NEW u \in Threads, thread'[u].pc # "cv",
         \A e \in Events : SyncWaiter(u) \notin ToSet(waiters_'[e])
  PROVE  ListsOf(u)'
BY DEF ListsOf, OnList, Sleeping, SyncWaiter

\* A thread that does not wait is on no list.
LEMMA ListedInWait ==
  ASSUME IndInv, NEW u \in Threads, thread[u].pc \notin {"cv", "dequeue"}
  PROVE  \A e \in Events : SyncWaiter(u) \notin ToSet(waiters_[e])
BY DEF IndInv, Lists, ListsOf, OnList

\* A step that leaves a thread's record alone leaves its call alone.
LEMMA SameRecord ==
  ASSUME NEW u \in Threads, thread'[u] = thread[u]
  PROVE  SameCall(u) /\ thread'[u].fired = thread[u].fired /\ thread'[u].event = thread[u].event
BY DEF SameCall

\* Wait-lists name the threads that wait, and a signaled event has nobody on its list.
LEMMA NextLists == IndInv /\ Next => Lists'
<1> SUFFICES ASSUME IndInv, Next PROVE Lists'
  OBVIOUS
<1>0. Types /\ Lists /\ Control
  BY DEF IndInv
<1>l. \A u \in Threads : ListsOf(u)
  BY <1>0 DEF Lists
<1>e. \A e \in Events : ListSane(e)
  BY <1>0 DEF Lists
<1>s. signaled_ \in [Events -> BOOLEAN]
  BY <1>0 DEF Types
<1>k. ASSUME NEW u \in Threads, thread'[u] = thread[u],
             \A e \in Events : SyncWaiter(u) \in ToSet(waiters_'[e])
                               <=> SyncWaiter(u) \in ToSet(waiters_[e])
      PROVE  ListsOf(u)'
  BY <1>0, <1>l, <1>k, SameRecord, ListsKept
<1>u. ASSUME UNCHANGED <<thread, waiters_>>, \A d \in Events : signaled_'[d] => signaled_[d]
      PROVE  Lists'
  BY <1>e, <1>k, <1>u DEF Lists, ListSane
<1>c. ASSUME NEW e \in Events, signaled_[e], Consume(e)
      PROVE  \A d \in Events : signaled_'[d] => signaled_[d]
  BY <1>0, <1>c, ConsumePoints
<1>1. ASSUME NEW t \in Threads, NEW e \in Events, Reset(t, e) PROVE Lists'
  BY <1>1, <1>s, <1>u DEF Reset
<1>2. ASSUME NEW t \in Threads, NEW e \in Events, IsSignaled(t, e) PROVE Lists'
  <2>1. CASE signaled_[e]
    BY <1>2, <1>u, <1>c, <2>1 DEF IsSignaled
  <2>2. CASE ~signaled_[e]
    BY <1>2, <1>u, <2>2 DEF IsSignaled
  <2> QED
    BY <2>1, <2>2
<1>3. ASSUME NEW t \in Threads, NEW e \in Events, Signal(t, e) PROVE Lists'
  <2>1. CASE signaled_[e]
    BY <1>3, <1>u, <2>1 DEF Signal
  <2>2. CASE ~signaled_[e]
    <3>1. /\ thread[t].pc = "idle" /\ UNCHANGED <<signaled_, waiters_>>
          /\ thread' = [thread EXCEPT ![t] = [Idle EXCEPT !.pc = "signal", !.events = <<e>>]]
      BY <1>3, <2>2 DEF Signal, Call
    <3>2. thread'[t].pc = "signal" /\ \A u \in Threads : u # t => thread'[u] = thread[u]
      BY <1>0, <3>1 DEF Types, Idle
    <3>3. ListsOf(t)'
      BY <3>1, <3>2, ListedInWait, OffLists
    <3>4. \A d \in Events : ListSane(d)'
      BY <1>e, <3>1 DEF ListSane
    <3> QED
      BY <1>k, <3>1, <3>2, <3>3, <3>4 DEF Lists
  <2> QED
    BY <2>1, <2>2
<1>4. ASSUME NEW t \in Threads, NEW e \in Events, NEW timed \in BOOLEAN, Wait(t, e, timed)
      PROVE  Lists'
  <2>1. CASE Takes(e)
    BY <1>u, <1>c, <2>1 DEF Takes
  <2>2. CASE Blocks(t, e)
    <3>1. /\ thread[t].pc = "idle" /\ ~signaled_[e] /\ signaled_' = signaled_
          /\ ToSet(waiters_'[e]) = ToSet(waiters_[e]) \cup {SyncWaiter(t)} /\ IsInjective(waiters_'[e])
          /\ \A d \in Events : d # e => waiters_'[d] = waiters_[d]
          /\ thread'[t].pc = "cv" /\ thread'[t].events = <<e>> /\ thread'[t].event = Nobody
          /\ \A u \in Threads : u # t => thread'[u] = thread[u]
      BY <2>2 DEF Blocks
    <3>2. Len(thread'[t].events) = 1 /\ thread'[t].events[1] = e /\ ToSet(thread'[t].events) = {e}
      BY <3>1, OneEvent
    <3>3. Ahead(t)' = {e}
      BY <3>1, <3>2 DEF Ahead
    <3>4. \A d \in Events : SyncWaiter(t) \notin ToSet(waiters_[d])
      BY <3>1, ListedInWait
    <3>5. ListsOf(t)'
      BY <3>1, <3>2, <3>3, <3>4, Constants DEF ListsOf, OnList, Sleeping, SyncWaiter
    <3>6. \A d \in Events : ListSane(d)'
      BY <1>e, <3>1 DEF ListSane
    <3>7. ASSUME NEW u \in Threads, u # t PROVE ListsOf(u)'
      <4>1. SyncWaiter(u) # SyncWaiter(t)
        BY <3>7, WaitersMade
      <4> QED
        BY <1>k, <3>1, <3>7, <4>1
    <3> QED
      BY <3>5, <3>6, <3>7 DEF Lists
  <2> QED
    BY <1>4, <2>1, <2>2, WaitPoints
<1>5. ASSUME NEW t \in Threads, NEW events \in Arrays, WaitMany(t, events) PROVE Lists'
  <2>1. /\ thread[t].pc = "idle" /\ UNCHANGED <<signaled_, waiters_>>
        /\ thread' = [thread EXCEPT ![t] = [Idle EXCEPT !.pc = "enqueue", !.events = events,
                                                        !.many = TRUE]]
    BY <1>5 DEF WaitMany, Call, kernels
  <2>2. thread'[t].pc = "enqueue" /\ \A u \in Threads : u # t => thread'[u] = thread[u]
    BY <1>0, <2>1 DEF Types, Idle
  <2>3. ListsOf(t)'
    BY <2>1, <2>2, ListedInWait, OffLists
  <2>4. \A d \in Events : ListSane(d)'
    BY <1>e, <2>1 DEF ListSane
  <2> QED
    BY <1>k, <2>1, <2>2, <2>3, <2>4 DEF Lists
<1>6. ASSUME NEW t \in Threads, SignalWaiter(t) PROVE Lists'
  <2>1. PICK e \in Events, w \in Waiters : Serves(t, e, w)
    BY <1>6, SignalWaiterPoints
  <2>2. /\ thread[t].pc = "signal" /\ signaled_' = signaled_ /\ w \in ToSet(waiters_[e])
        /\ ToSet(waiters_'[e]) = ToSet(waiters_[e]) \ {w} /\ IsInjective(waiters_'[e])
        /\ \A d \in Events : d # e => waiters_'[d] = waiters_[d]
    BY <2>1 DEF Serves
  <2>3. \A d \in Events : ListSane(d)'
    BY <1>e, <2>2 DEF ListSane
  <2>4. \A u \in Threads : \A d \in Events :
          SyncWaiter(u) \in ToSet(waiters_'[d]) => SyncWaiter(u) \in ToSet(waiters_[d])
    BY <2>2
  <2>5. ListsOf(t)'
    <3>1. thread'[t].pc # "cv"
      BY <2>1 DEF Serves
    <3> QED
      BY <2>2, <2>4, <3>1, ListedInWait, OffLists
  <2>6. ASSUME NEW u \in Threads, u # t, SyncWaiter(u) = w, ~thread[u].fired PROVE ListsOf(u)'
    <3>1. SameCall(u) /\ thread'[u].fired /\ thread'[u].event = e
      BY <2>1, <2>6 DEF Serves
    <3>2. Ahead(u)' = Ahead(u)
      BY <3>1 DEF SameCall, Ahead
    <3>3. Sleeping(u)'
      BY <3>1 DEF Sleeping
    <3>4. SyncWaiter(u) \notin ToSet(waiters_'[e])
      BY <2>2, <2>6
    <3>5. ASSUME NEW d \in Events PROVE OnList(u, d)'
      <4>1. OnList(u, d)
        BY <1>l DEF ListsOf
      <4> QED
        BY <2>4, <3>1, <3>2, <3>4, <4>1 DEF OnList, SameCall, SyncWaiter
    <3> QED
      BY <3>3, <3>5 DEF ListsOf
  <2>7. ASSUME NEW u \in Threads, u # t, ~(SyncWaiter(u) = w /\ ~thread[u].fired) PROVE ListsOf(u)'
    <3>1. /\ SameCall(u) /\ thread'[u].fired = thread[u].fired /\ thread'[u].event = thread[u].event
      BY <2>1, <2>7 DEF Serves
    <3>2. CASE SyncWaiter(u) # w
      <4>1. \A d \in Events : SyncWaiter(u) \in ToSet(waiters_'[d])
                              <=> SyncWaiter(u) \in ToSet(waiters_[d])
        BY <2>2, <3>2
      <4> QED
        BY <1>0, <1>l, <3>1, <4>1, ListsKept
    <3>3. CASE SyncWaiter(u) = w
      <4>1. thread[u].fired
        BY <2>7, <3>3
      <4>2. Sleeping(u)'
        BY <3>1, <4>1 DEF Sleeping
      <4>3. Ahead(u)' = Ahead(u)
        BY <3>1 DEF SameCall, Ahead
      <4>4. ASSUME NEW d \in Events PROVE OnList(u, d)'
        <5>1. OnList(u, d)
          BY <1>l DEF ListsOf
        <5> QED
          BY <2>4, <3>1, <4>3, <5>1 DEF OnList, SameCall, SyncWaiter
      <4> QED
        BY <4>2, <4>4 DEF ListsOf
    <3> QED
      BY <3>2, <3>3
  <2> QED
    BY <2>3, <2>5, <2>6, <2>7 DEF Lists
<1>7. ASSUME NEW t \in Threads, SignalEnd(t) \/ SignalOneEnd(t) PROVE Lists'
  <2>1. PICK e \in Events : Ends(t, e)
    BY <1>7, SignalEndPoints
  <2>2. /\ thread[t].pc \in {"signal", "signaled"} /\ waiters_' = waiters_
        /\ signaled_'[e] => ToSet(waiters_[e]) = {}
        /\ \A d \in Events : d # e => signaled_'[d] = signaled_[d]
    BY <2>1 DEF Ends
  <2>3. \A d \in Events : ListSane(d)'
    BY <1>e, <2>2 DEF ListSane
  <2>4. ListsOf(t)'
    <3>1. thread'[t].pc # "cv"
      BY <2>1 DEF Ends, Idle
    <3> QED
      BY <2>2, <3>1, ListedInWait, OffLists
  <2>5. ASSUME NEW u \in Threads, u # t PROVE ListsOf(u)'
    <3>1. SameCall(u) /\ thread'[u].fired = thread[u].fired /\ thread'[u].event = thread[u].event
      BY <2>1, <2>5 DEF Ends
    <3> QED
      BY <1>0, <1>l, <2>2, <3>1, ListsKept
  <2> QED
    BY <2>3, <2>4, <2>5 DEF Lists
<1>8. ASSUME NEW t \in Threads, EnqueueManyLocks(t) PROVE Lists'
  BY <1>8, <1>u DEF EnqueueManyLocks
<1>9. ASSUME NEW t \in Threads, EnqueueMany(t) PROVE Lists'
  <2>1. ASSUME NEW e \in Events, Wins(t, e) PROVE Lists'
    <3>1. /\ thread[t].pc = "enqueue" /\ thread'[t] = Idle /\ waiters_' = waiters_
          /\ \A u \in Threads : u # t => thread'[u] = thread[u]
      BY <2>1 DEF Wins
    <3>2. \A d \in Events : ListSane(d)'
      <4>1. \A d \in Events : signaled_'[d] => signaled_[d]
        BY <1>c, <2>1 DEF Wins
      <4> QED
        BY <1>e, <3>1, <4>1 DEF ListSane
    <3>3. ListsOf(t)'
      <4>1. thread'[t].pc # "cv"
        BY <3>1 DEF Idle
      <4> QED
        BY <3>1, <4>1, ListedInWait, OffLists
    <3> QED
      BY <1>k, <3>1, <3>2, <3>3 DEF Lists
  <2>2. CASE Enqueues(t)
    <3>1. /\ thread[t].pc = "enqueue" /\ signaled_' = signaled_
          /\ \A e \in ToSet(thread[t].events) : ~signaled_[e]
          /\ \A e \in Events :
               /\ ToSet(waiters_'[e]) = IF e \in ToSet(thread[t].events)
                                        THEN ToSet(waiters_[e]) \cup {SyncWaiter(t)}
                                        ELSE ToSet(waiters_[e])
               /\ IsInjective(waiters_'[e])
          /\ \A u \in Threads : u # t => thread'[u] = thread[u]
      BY <2>2 DEF Enqueues
    <3>2. \A d \in Events : ListSane(d)'
      BY <1>e, <3>1 DEF ListSane
    <3>3. ASSUME NEW u \in Threads, u # t PROVE ListsOf(u)'
      <4>1. SyncWaiter(u) # SyncWaiter(t)
        BY <3>3, WaitersMade
      <4> QED
        BY <1>k, <3>1, <3>3, <4>1
    <3>4. thread[t] \in ThreadStates /\ thread[t].event = Nobody
      BY <1>0, <3>1, ThreadType DEF Control, Controlled
    <3>5. thread'[t].pc = "cv" /\ thread'[t].events = thread[t].events /\ thread'[t].event = Nobody
      BY <2>2, <3>4 DEF Enqueues, ThreadStates
    <3>6. ToSet(thread[t].events) \subseteq Events /\ Ahead(t)' = ToSet(thread[t].events)
      BY <3>4, <3>5 DEF Ahead, ToSet, ThreadStates
    <3>7. \A d \in Events : SyncWaiter(t) \notin ToSet(waiters_[d])
      BY <3>1, ListedInWait
    <3>8. \A e \in Events : OnList(t, e)'
      BY <3>1, <3>5, <3>6, <3>7, Constants DEF OnList, SyncWaiter
    <3>9. Sleeping(t)'
      BY <3>1, <3>5, <3>6 DEF Sleeping, SyncWaiter
    <3> QED
      BY <3>2, <3>3, <3>8, <3>9 DEF Lists, ListsOf
  <2> QED
    BY <1>9, <2>1, <2>2, EnqueueManyPoints
<1>10. ASSUME NEW t \in Threads, WakeUp(t) PROVE Lists'
  <2>1. thread[t] \in ThreadStates
    BY <1>0, ThreadType
  <2>2. /\ thread[t].pc = "cv" /\ UNCHANGED <<signaled_, waiters_>>
        /\ thread'[t].pc = "dequeue" /\ thread'[t].i = 1 /\ thread'[t].events = thread[t].events
        /\ thread'[t].event = thread[t].event
        /\ \A u \in Threads : u # t => thread'[u] = thread[u]
    BY <1>0, <1>10, <2>1 DEF WakeUp, kernels, Types, ThreadStates
  <2>3. \A d \in Events : ListSane(d)'
    BY <1>e, <2>2 DEF ListSane
  <2>4. Ahead(t) \subseteq Ahead(t)'
    BY <2>2 DEF Ahead
  <2>5. ASSUME NEW d \in Events PROVE OnList(t, d)'
    <3>1. OnList(t, d)
      BY <1>l DEF ListsOf
    <3> QED
      BY <2>2, <2>4, <3>1 DEF OnList, SyncWaiter
  <2>6. ListsOf(t)'
    BY <2>2, <2>5 DEF ListsOf, Sleeping
  <2> QED
    BY <1>k, <2>2, <2>3, <2>6 DEF Lists
<1>11. ASSUME NEW t \in Threads, LeaveWaitList(t) PROVE Lists'
  <2>1. PICK e \in Events : Leaves(t, e)
    BY <1>11, LeaveWaitListPoints
  <2>2. /\ thread[t].pc = "dequeue" /\ e = thread[t].events[thread[t].i] /\ signaled_' = signaled_
        /\ ToSet(waiters_'[e]) = ToSet(waiters_[e]) \ {SyncWaiter(t)} /\ IsInjective(waiters_'[e])
        /\ \A d \in Events : d # e => waiters_'[d] = waiters_[d]
        /\ \A u \in Threads : u # t => thread'[u] = thread[u]
    BY <2>1 DEF Leaves
  <2>3. \A d \in Events : ListSane(d)'
    BY <1>e, <2>2 DEF ListSane
  <2>4. ASSUME NEW u \in Threads, u # t PROVE ListsOf(u)'
    <3>1. SyncWaiter(u) # SyncWaiter(t)
      BY <2>4, WaitersMade
    <3> QED
      BY <1>k, <2>2, <2>4, <3>1
  <2>5. thread[t] \in ThreadStates /\ thread[t].i \in Nat /\ Len(thread[t].events) \in Nat
    BY <1>0, ThreadType DEF ThreadStates
  <2>6. ASSUME NEW d \in Events, SyncWaiter(t) \in ToSet(waiters_'[d])
        PROVE  /\ d # e /\ thread[t].event # d
               /\ \E j \in 1..Len(thread[t].events) : thread[t].events[j] = d /\ thread[t].i < j
    <3>1. d # e /\ SyncWaiter(t) \in ToSet(waiters_[d])
      BY <2>2, <2>6
    <3>2. d \in Ahead(t) /\ thread[t].event # d
      BY <1>l, <3>1 DEF ListsOf, OnList
    <3>3. PICK j \in 1..Len(thread[t].events) : thread[t].events[j] = d /\ thread[t].i <= j
      BY <2>2, <3>2 DEF Ahead
    <3>4. thread[t].i < j
      BY <2>2, <2>5, <3>1, <3>3
    <3> QED
      BY <3>1, <3>2, <3>3, <3>4
  <2>7. CASE thread[t].i = Len(thread[t].events)
    <3>1. thread'[t].pc = "idle"
      BY <2>1, <2>7 DEF Leaves, Idle
    <3>2. \A d \in Events : SyncWaiter(t) \notin ToSet(waiters_'[d])
      BY <2>5, <2>6, <2>7
    <3>3. ListsOf(t)'
      BY <3>1, <3>2, OffLists
    <3> QED
      BY <2>3, <2>4, <3>3 DEF Lists
  <2>8. CASE thread[t].i # Len(thread[t].events)
    <3>1. /\ thread'[t].pc = "dequeue" /\ thread'[t].i = thread[t].i + 1
          /\ thread'[t].events = thread[t].events /\ thread'[t].event = thread[t].event
      BY <2>1, <2>2, <2>5, <2>8 DEF Leaves, ThreadStates
    <3>2. ASSUME NEW d \in Events PROVE OnList(t, d)'
      <4>1. ASSUME SyncWaiter(t) \in ToSet(waiters_'[d]) PROVE d \in Ahead(t)'
        <5>1. PICK j \in 1..Len(thread[t].events) : thread[t].events[j] = d /\ thread[t].i < j
          BY <2>6, <4>1
        <5>2. thread[t].i + 1 <= j
          BY <2>5, <5>1
        <5> QED
          BY <3>1, <5>1, <5>2 DEF Ahead
      <4> QED
        BY <2>6, <3>1, <4>1 DEF OnList, SyncWaiter
    <3>3. ListsOf(t)'
      BY <3>1, <3>2 DEF ListsOf, Sleeping
    <3> QED
      BY <2>3, <2>4, <3>3 DEF Lists
  <2> QED
    BY <2>7, <2>8
<1>12. ASSUME NEW v \in Watchers, NEW e \in Events, StartWatching(v, e) PROVE Lists'
  <2>1. PICK flag \in Flags : Posts(v, e, flag) \/ \E p \in Pointers : Registers(v, e, flag, p)
    BY <1>12, StartWatchingPoints
  <2>2. CASE Posts(v, e, flag)
    BY <1>u, <1>c, <2>2 DEF Posts
  <2>3. ASSUME NEW p \in Pointers, Registers(v, e, flag, p) PROVE Lists'
    <3>1. /\ ~signaled_[e] /\ UNCHANGED <<signaled_, thread>>
          /\ ToSet(waiters_'[e]) = ToSet(waiters_[e]) \cup {AsyncWaiter(p, flag)}
          /\ IsInjective(waiters_'[e])
          /\ \A d \in Events : d # e => waiters_'[d] = waiters_[d]
      BY <2>3 DEF Registers
    <3>2. \A d \in Events : ListSane(d)'
      BY <1>e, <3>1 DEF ListSane
    <3>3. ASSUME NEW u \in Threads PROVE ListsOf(u)'
      <4>1. SyncWaiter(u) # AsyncWaiter(p, flag)
        BY WaitersMade
      <4> QED
        BY <1>k, <3>1, <4>1
    <3> QED
      BY <3>2, <3>3 DEF Lists
  <2> QED
    BY <2>1, <2>2, <2>3
<1>13. ASSUME NEW v \in Watchers, StopWatching(v) PROVE Lists'
  <2>1. Stops(v)
    BY <1>13, StopWatchingPoints
  <2> DEFINE aw == AsyncWaiter(watcher[v].waiter, watcher[v].flag)
  <2>2. /\ UNCHANGED <<signaled_, thread>> /\ watcher[v].flag \in Flags
        /\ \A e \in Events :
             /\ ToSet(waiters_'[e]) = IF e = watcher[v].kernel
                                      THEN ToSet(waiters_[e]) \ {aw} ELSE ToSet(waiters_[e])
             /\ IsInjective(waiters_'[e])
    BY <2>1 DEF Stops
  <2>3. \A u \in Threads : SyncWaiter(u) # aw
    BY <2>2, Constants DEF SyncWaiter, AsyncWaiter
  <2> HIDE DEF aw
  <2>4. \A d \in Events : ListSane(d)'
    BY <1>e, <2>2 DEF ListSane
  <2>5. ASSUME NEW u \in Threads PROVE ListsOf(u)'
    BY <1>k, <2>2, <2>3
  <2> QED
    BY <2>4, <2>5 DEF Lists
<1>14. ASSUME NEW v \in Watchers, AsyncCallbackHelper(v) PROVE Lists'
  BY <1>14, <1>u DEF AsyncCallbackHelper, kernels
<1> QED
  BY <1>1, <1>2, <1>3, <1>4, <1>5, <1>6, <1>7, <1>8, <1>9, <1>10, <1>11, <1>12, <1>13, <1>14
     DEF Next, Calls, Steps

-----------------------------------------------------------------------------
(***************************************************************************)
(* The Signal() that fired a waiter.                                       *)
(***************************************************************************)

\* A waiter whose wait a step leaves alone, as it does the Signal() that fired it.
LEMMA FiringKept ==
  ASSUME NEW a \in Threads, NEW u \in Threads, FiredBy(a, u), SameCall(a), SameCall(u),
         thread'[a].event = thread[a].event, thread'[a].during = thread[a].during
  PROVE  FiredBy(a, u)'
<1>1. Ahead(a)' = Ahead(a)
  BY DEF SameCall, Ahead
<1> QED
  BY <1>1 DEF FiredBy, SameCall

\* The Signal() that fired a waiter goes on as long as the waiter says so.
LEMMA NextFiring == IndInv /\ Next => Firing'
<1> SUFFICES ASSUME IndInv, Next PROVE Firing'
  OBVIOUS
<1>0. Types /\ Control /\ Locks /\ Lists /\ Firing
  BY DEF IndInv
<1>f. \A a, u \in Threads : FiredBy(a, u)
  BY <1>0 DEF Firing
<1>c. \A u \in Threads : thread[u].pc \in {"idle", "signal", "signaled", "enqueue"} => thread[u].during = Nobody
  BY <1>0 DEF Control, Controlled
<1>n. ASSUME NEW a \in Threads, thread'[a].during = Nobody PROVE \A u \in Threads : FiredBy(a, u)'
  BY <1>n, Constants DEF FiredBy
<1>k. ASSUME NEW a \in Threads, NEW u \in Threads, thread'[a] = thread[a], thread'[u] = thread[u]
      PROVE  FiredBy(a, u)'
  BY <1>f, <1>k, SameRecord, FiringKept
<1>u. ASSUME thread' = thread PROVE Firing'
  BY <1>k, <1>u DEF Firing
<1>m. ASSUME NEW t \in Threads, thread[t].pc \notin {"signal", "signaled"}, thread'[t].during = Nobody,
             \A u \in Threads : u # t => thread'[u] = thread[u]
      PROVE  Firing'
  <2>1. ASSUME NEW a \in Threads, NEW u \in Threads, a # t PROVE FiredBy(a, u)'
    <3>1. CASE u = t
      BY <1>f, <1>m, <2>1, <3>1 DEF FiredBy
    <3>2. CASE u # t
      BY <1>k, <1>m, <2>1, <3>2
    <3> QED
      BY <3>1, <3>2
  <2> QED
    BY <1>m, <1>n, <2>1 DEF Firing
<1>1. ASSUME NEW t \in Threads, NEW e \in Events, Reset(t, e) PROVE Firing'
  BY <1>1, <1>u DEF Reset
<1>2. ASSUME NEW t \in Threads, NEW e \in Events, IsSignaled(t, e) PROVE Firing'
  BY <1>2, <1>u DEF IsSignaled
<1>3. ASSUME NEW t \in Threads, NEW e \in Events, Signal(t, e) PROVE Firing'
  <2>1. CASE signaled_[e]
    BY <1>3, <1>u, <2>1 DEF Signal
  <2>2. CASE ~signaled_[e]
    <3>1. /\ thread[t].pc = "idle"
          /\ thread' = [thread EXCEPT ![t] = [Idle EXCEPT !.pc = "signal", !.events = <<e>>]]
      BY <1>3, <2>2 DEF Signal, Call
    <3>2. thread'[t].during = Nobody /\ \A u \in Threads : u # t => thread'[u] = thread[u]
      BY <1>0, <3>1 DEF Types, Idle
    <3> QED
      BY <1>m, <3>1, <3>2
  <2> QED
    BY <2>1, <2>2
<1>4. ASSUME NEW t \in Threads, NEW e \in Events, NEW timed \in BOOLEAN, Wait(t, e, timed)
      PROVE  Firing'
  <2>1. CASE Takes(e)
    BY <1>u, <2>1 DEF Takes
  <2>2. CASE Blocks(t, e)
    BY <1>m, <2>2 DEF Blocks
  <2> QED
    BY <1>4, <2>1, <2>2, WaitPoints
<1>5. ASSUME NEW t \in Threads, NEW events \in Arrays, WaitMany(t, events) PROVE Firing'
  <2>1. /\ thread[t].pc = "idle"
        /\ thread' = [thread EXCEPT ![t] = [Idle EXCEPT !.pc = "enqueue", !.events = events,
                                                        !.many = TRUE]]
    BY <1>5 DEF WaitMany, Call
  <2>2. thread'[t].during = Nobody /\ \A u \in Threads : u # t => thread'[u] = thread[u]
    BY <1>0, <2>1 DEF Types, Idle
  <2> QED
    BY <1>m, <2>1, <2>2
<1>6. ASSUME NEW t \in Threads, SignalWaiter(t) PROVE Firing'
  <2>1. PICK e \in Events, w \in Waiters : Serves(t, e, w)
    BY <1>6, SignalWaiterPoints
  <2>2. /\ thread[t].pc = "signal" /\ e = thread[t].events[1] /\ w \in ToSet(waiters_[e])
        /\ thread'[t].pc \in {"signal", "signaled"} /\ thread'[t].events = thread[t].events
        /\ thread'[t].during = thread[t].during
    BY <2>1 DEF Serves
  <2>3. thread'[t].during = Nobody
    BY <1>c, <2>2
  <2>4. ASSUME NEW a \in Threads, NEW u \in Threads, a # t, SyncWaiter(a) = w, ~thread[a].fired
        PROVE  FiredBy(a, u)'
    <3>1. SameCall(a) /\ thread'[a].event = e /\ thread'[a].during = t
      BY <2>1, <2>4 DEF Serves
    <3>2. e \in Ahead(a)
      BY <1>0, <2>2, <2>4 DEF Lists, ListsOf, OnList
    <3>3. Ahead(a)' = Ahead(a)
      BY <3>1 DEF SameCall, Ahead
    <3> QED
      BY <2>2, <3>1, <3>2, <3>3 DEF FiredBy
  <2>5. ASSUME NEW a \in Threads, NEW u \in Threads, a # t, ~(SyncWaiter(a) = w /\ ~thread[a].fired)
        PROVE  FiredBy(a, u)'
    <3>1. /\ SameCall(a) /\ thread'[a].event = thread[a].event
          /\ thread'[a].during = thread[a].during
      BY <2>1, <2>5 DEF Serves
    <3>2. CASE u # t
      <4>1. SameCall(u)
        BY <2>1, <3>2 DEF Serves
      <4> QED
        BY <1>f, <3>1, <4>1, FiringKept
    <3>3. CASE u = t
      <4>1. Ahead(a)' = Ahead(a)
        BY <3>1 DEF SameCall, Ahead
      <4> QED
        BY <1>f, <2>2, <3>1, <3>3, <4>1 DEF FiredBy
    <3> QED
      BY <3>2, <3>3
  <2> QED
    BY <1>n, <2>3, <2>4, <2>5 DEF Firing
<1>7. ASSUME NEW t \in Threads, SignalEnd(t) \/ SignalOneEnd(t) PROVE Firing'
  <2>1. PICK e \in Events : Ends(t, e)
    BY <1>7, SignalEndPoints
  <2>2. thread'[t].during = Nobody
    BY <2>1 DEF Ends, Idle
  <2>3. ASSUME NEW a \in Threads, NEW u \in Threads, a # t PROVE FiredBy(a, u)'
    <3>1. /\ SameCall(a) /\ thread'[a].event = thread[a].event
          /\ thread'[a].during = IF thread[a].during = t THEN Nobody ELSE thread[a].during
      BY <2>1, <2>3 DEF Ends
    <3>2. CASE thread[a].during = t
      BY <1>n, <3>1, <3>2
    <3>3. CASE thread[a].during # t /\ u = t
      BY <3>1, <3>3 DEF FiredBy
    <3>4. CASE thread[a].during # t /\ u # t
      <4>1. SameCall(u)
        BY <2>1, <3>4 DEF Ends
      <4> QED
        BY <1>f, <3>1, <3>4, <4>1, FiringKept
    <3> QED
      BY <3>2, <3>3, <3>4
  <2> QED
    BY <1>n, <2>2, <2>3 DEF Firing
<1>8. ASSUME NEW t \in Threads, EnqueueManyLocks(t) PROVE Firing'
  BY <1>8, <1>u DEF EnqueueManyLocks
<1>9. ASSUME NEW t \in Threads, EnqueueMany(t) PROVE Firing'
  <2>1. ASSUME NEW e \in Events, Wins(t, e) PROVE Firing'
    BY <1>m, <2>1 DEF Wins, Idle
  <2>2. CASE Enqueues(t)
    <3>1. thread[t].pc = "enqueue" /\ thread[t] \in ThreadStates /\ thread[t].during = Nobody
      BY <1>0, <1>c, <2>2, ThreadType DEF Enqueues
    <3>2. thread'[t].during = Nobody
      BY <2>2, <3>1 DEF Enqueues, ThreadStates
    <3> QED
      BY <1>m, <2>2, <3>1, <3>2 DEF Enqueues
  <2> QED
    BY <1>9, <2>1, <2>2, EnqueueManyPoints
<1>10. ASSUME NEW t \in Threads, WakeUp(t) PROVE Firing'
  <2>1. thread[t] \in ThreadStates
    BY <1>0, ThreadType
  <2>2. /\ thread[t].pc = "cv" /\ thread'[t].pc = "dequeue" /\ thread'[t].i = 1
        /\ thread'[t].events = thread[t].events /\ thread'[t].event = thread[t].event
        /\ thread'[t].during = thread[t].during
        /\ \A u \in Threads : u # t => thread'[u] = thread[u]
    BY <1>0, <1>10, <2>1 DEF WakeUp, Types, ThreadStates
  <2>3. Ahead(t) \subseteq Ahead(t)'
    BY <2>2 DEF Ahead
  <2>4. ASSUME NEW u \in Threads PROVE FiredBy(t, u)'
    BY <1>f, <2>2, <2>3 DEF FiredBy
  <2>5. ASSUME NEW a \in Threads, NEW u \in Threads, a # t PROVE FiredBy(a, u)'
    <3>1. CASE u = t
      BY <1>f, <2>2, <2>5, <3>1 DEF FiredBy
    <3>2. CASE u # t
      BY <1>k, <2>2, <2>5, <3>2
    <3> QED
      BY <3>1, <3>2
  <2> QED
    BY <2>4, <2>5 DEF Firing
<1>11. ASSUME NEW t \in Threads, LeaveWaitList(t) PROVE Firing'
  <2>1. PICK e \in Events : Leaves(t, e)
    BY <1>11, LeaveWaitListPoints
  <2>2. /\ thread[t].pc = "dequeue" /\ e = thread[t].events[thread[t].i] /\ lock[e] = Nobody
        /\ \A u \in Threads : u # t => thread'[u] = thread[u]
    BY <2>1 DEF Leaves
  <2>3. thread[t] \in ThreadStates /\ thread[t].i \in Nat /\ Len(thread[t].events) \in Nat
    BY <1>0, ThreadType DEF ThreadStates
  <2>4. ASSUME NEW u \in Threads, thread[t].during = u
        PROVE  /\ thread[u].pc \in {"signal", "signaled"} /\ thread[u].events[1] = thread[t].event
               /\ \E j \in 1..Len(thread[t].events) :
                    thread[t].events[j] = thread[t].event /\ thread[t].i < j
    <3>1. thread[u].pc \in {"signal", "signaled"} /\ thread[u].events[1] = thread[t].event /\ thread[t].event \in Ahead(t)
      BY <1>f, <2>4 DEF FiredBy
    <3>2. thread[t].event # e
      BY <1>0, <2>2, <3>1, Constants DEF Locks, LocksOf, SignalHoldsLock
    <3>3. PICK j \in 1..Len(thread[t].events) :
            thread[t].events[j] = thread[t].event /\ thread[t].i <= j
      BY <2>2, <3>1 DEF Ahead
    <3>4. thread[t].i < j
      BY <2>2, <2>3, <3>2, <3>3
    <3> QED
      BY <3>1, <3>3, <3>4
  <2>5. ASSUME NEW a \in Threads, NEW u \in Threads, a # t PROVE FiredBy(a, u)'
    <3>1. CASE u = t
      BY <1>f, <2>2, <2>5, <3>1 DEF FiredBy
    <3>2. CASE u # t
      BY <1>k, <2>2, <2>5, <3>2
    <3> QED
      BY <3>1, <3>2
  <2>6. ASSUME NEW u \in Threads PROVE FiredBy(t, u)'
    <3>1. CASE thread[t].i = Len(thread[t].events)
      <4>1. thread'[t].during = thread[t].during
        BY <2>1, <3>1 DEF Leaves, Idle
      <4>2. thread[t].during # u
        BY <2>3, <2>4, <3>1
      <4> QED
        BY <4>1, <4>2 DEF FiredBy
    <3>2. CASE thread[t].i # Len(thread[t].events)
      <4>1. /\ thread'[t].i = thread[t].i + 1 /\ thread'[t].during = thread[t].during
            /\ thread'[t].events = thread[t].events /\ thread'[t].event = thread[t].event
        BY <2>1, <2>3, <3>2 DEF Leaves, ThreadStates
      <4>2. ASSUME thread[t].during = u
            PROVE  /\ thread'[u].pc \in {"signal", "signaled"} /\ thread'[u].events[1] = thread'[t].event
                   /\ thread'[t].event \in Ahead(t)'
        <5>1. thread[u].pc \in {"signal", "signaled"} /\ thread[u].events[1] = thread[t].event
          BY <2>4, <4>2
        <5>2. thread'[u] = thread[u]
          BY <2>2, <5>1
        <5>3. PICK j \in 1..Len(thread[t].events) :
                thread[t].events[j] = thread[t].event /\ thread[t].i < j
          BY <2>4, <4>2
        <5>4. thread[t].i + 1 <= j
          BY <2>3, <5>3
        <5>5. thread[t].event \in Events
          BY <1>f, <4>2 DEF FiredBy, Ahead
        <5>6. thread'[t].event \in Ahead(t)'
          BY <4>1, <5>3, <5>4, <5>5 DEF Ahead
        <5> QED
          BY <4>1, <5>1, <5>2, <5>6
      <4> QED
        BY <4>1, <4>2 DEF FiredBy
    <3> QED
      BY <3>1, <3>2
  <2> QED
    BY <2>5, <2>6 DEF Firing
<1>12. ASSUME NEW v \in Watchers, NEW e \in Events, StartWatching(v, e) PROVE Firing'
  BY <1>12, <1>u DEF StartWatching
<1>13. ASSUME NEW v \in Watchers, StopWatching(v) PROVE Firing'
  BY <1>13, <1>u DEF StopWatching
<1>14. ASSUME NEW v \in Watchers, AsyncCallbackHelper(v) PROVE Firing'
  BY <1>14, <1>u DEF AsyncCallbackHelper
<1> QED
  BY <1>1, <1>2, <1>3, <1>4, <1>5, <1>6, <1>7, <1>8, <1>9, <1>10, <1>11, <1>12, <1>13, <1>14
     DEF Next, Calls, Steps

-----------------------------------------------------------------------------
(***************************************************************************)
(* Signals of auto-reset events.                                           *)
(***************************************************************************)

\* A waiter is handed a signal.
LEMMA HandedGains ==
  ASSUME NEW e \in Events, NEW u \in Threads, u \notin Handed(e), Handed(e)' = Handed(e) \cup {u}
  PROVE  Cardinality(Handed(e)') = Cardinality(Handed(e)) + 1
<1>1. IsFiniteSet(Handed(e))
  BY Parameters, FS_Subset DEF Handed
<1> QED
  BY <1>1, FS_AddElement

\* A waiter that was handed a signal returns.
LEMMA HandedLoses ==
  ASSUME NEW e \in Events, NEW u \in Handed(e), Handed(e)' = Handed(e) \ {u}
  PROVE  Cardinality(Handed(e)') = Cardinality(Handed(e)) - 1
<1>1. IsFiniteSet(Handed(e))
  BY Parameters, FS_Subset DEF Handed
<1> QED
  BY <1>1, FS_RemoveElement

LEMMA HandedCount == ASSUME NEW e \in Events PROVE Cardinality(Handed(e)) \in Nat
<1>1. IsFiniteSet(Handed(e))
  BY Parameters, FS_Subset DEF Handed
<1> QED
  BY <1>1, FS_CardinalityType

\* Two Signal() calls are never at work on one event.
LEMMA OneSignaler ==
  ASSUME IndInv, NEW t \in Threads, NEW u \in Threads, thread[t].pc \in {"signal", "signaled"},
         thread[u].pc \in {"signal", "signaled"}, thread[t].events[1] = thread[u].events[1]
  PROVE  t = u
BY DEF IndInv, Locks, LocksOf, SignalHoldsLock

\* The owners of an event's signals are the same after a step.
SameOwners(d) == Handed(d)' = Handed(d) /\ (Signaling(d)' <=> Signaling(d))

\* An event that a step leaves alone.
LEMMA BalanceKept ==
  ASSUME NEW d \in Events, Balanced(d), SameOwners(d), owed'[d] = owed[d],
         signaled_'[d] <=> signaled_[d]
  PROVE  Balanced(d)'
BY DEF Balanced, SameOwners, AutoReset

\* A step of a thread that neither begins nor ends a Signal() and is handed no signal.
LEMMA OwnersKept ==
  ASSUME NEW t \in Threads, thread[t].pc # "signal", thread'[t].pc # "signal",
         thread'[t].event = thread[t].event, \A u \in Threads : u # t => thread'[u] = thread[u]
  PROVE  \A d \in Events : SameOwners(d)
<1>1. \A u \in Threads : thread'[u].event = thread[u].event
  OBVIOUS
<1> QED
  BY <1>1 DEF SameOwners, Handed, Signaling

\* No signal is lost and none is consumed twice.
LEMMA NextConserved == IndInv /\ Next => Conserved'
<1> SUFFICES ASSUME IndInv, Next PROVE Conserved'
  OBVIOUS
<1>0. Types /\ Control /\ Locks /\ Lists /\ Conserved
  BY DEF IndInv
<1>b. \A d \in Events : Balanced(d)
  BY <1>0 DEF Conserved
<1>c. \A u \in Threads : thread[u].pc \in {"idle", "signal", "signaled", "enqueue"} => thread[u].event = Nobody
  BY <1>0 DEF Control, Controlled
<1>t. signaled_ \in [Events -> BOOLEAN] /\ owed \in [Events -> Int]
  BY <1>0 DEF Types
<1>i. Idle.pc = "idle" /\ Idle.event = Nobody
  BY DEF Idle
<1>k. ASSUME \A d \in Events : SameOwners(d), UNCHANGED <<signaled_, owed>> PROVE Conserved'
  BY <1>b, <1>k, BalanceKept DEF Conserved
<1>s. ASSUME thread' = thread PROVE \A d \in Events : SameOwners(d)
  BY <1>s DEF SameOwners, Handed, Signaling
<1>e. ASSUME NEW e \in Events, signaled_[e], Consume(e), \A d \in Events : SameOwners(d)
      PROVE  Conserved'
  <2>1. /\ \A d \in Events : d # e => signaled_'[d] = signaled_[d] /\ owed'[d] = owed[d]
        /\ signaled_'[e] <=> e \in Manual
        /\ owed'[e] = IF AutoReset(e) THEN owed[e] - 1 ELSE owed[e]
    BY <1>0, <1>e, ConsumePoints
  <2>2. Balanced(e)'
    <3>1. CASE AutoReset(e)
      <4>1. owed[e] = 1 + (IF Signaling(e) THEN 1 ELSE 0) + Cardinality(Handed(e))
        BY <1>b, <1>e, <3>1 DEF Balanced
      <4>2. owed'[e] = owed[e] - 1 /\ ~signaled_'[e]
        BY <2>1, <3>1 DEF AutoReset
      <4>3. Cardinality(Handed(e)) \in Nat
        BY HandedCount
      <4>4. owed'[e] = (IF Signaling(e) THEN 1 ELSE 0) + Cardinality(Handed(e))
        BY <4>1, <4>2, <4>3
      <4> QED
        BY <1>e, <4>2, <4>3, <4>4 DEF Balanced, SameOwners
    <3>2. CASE ~AutoReset(e)
      BY <3>2 DEF Balanced, AutoReset
    <3> QED
      BY <3>1, <3>2
  <2>3. ASSUME NEW d \in Events, d # e PROVE Balanced(d)'
    BY <1>b, <1>e, <2>1, <2>3, BalanceKept
  <2> QED
    BY <2>2, <2>3 DEF Conserved
<1>1. ASSUME NEW t \in Threads, NEW e \in Events, Reset(t, e) PROVE Conserved'
  <2>1. /\ signaled_' = [signaled_ EXCEPT ![e] = FALSE] /\ thread' = thread
        /\ owed' = [owed EXCEPT ![e] = IF signaled_[e] /\ AutoReset(e) THEN @ - 1 ELSE @]
    BY <1>1 DEF Reset
  <2>2. \A d \in Events : SameOwners(d)
    BY <1>s, <2>1
  <2>3. Balanced(e)'
    <3>1. CASE AutoReset(e)
      <4>1. owed[e] = (IF signaled_[e] THEN 1 ELSE 0) + (IF Signaling(e) THEN 1 ELSE 0)
                      + Cardinality(Handed(e))
        BY <1>b, <3>1 DEF Balanced
      <4>2. owed'[e] = (IF signaled_[e] THEN owed[e] - 1 ELSE owed[e]) /\ ~signaled_'[e]
        BY <1>t, <2>1, <3>1
      <4>3. Cardinality(Handed(e)) \in Nat
        BY HandedCount
      <4>4. owed'[e] = (IF Signaling(e) THEN 1 ELSE 0) + Cardinality(Handed(e))
        BY <4>1, <4>2, <4>3
      <4> QED
        BY <2>2, <4>2, <4>3, <4>4 DEF Balanced, SameOwners
    <3>2. CASE ~AutoReset(e)
      BY <3>2 DEF Balanced, AutoReset
    <3> QED
      BY <3>1, <3>2
  <2>4. ASSUME NEW d \in Events, d # e PROVE Balanced(d)'
    <3>1. signaled_'[d] = signaled_[d] /\ owed'[d] = owed[d]
      BY <1>t, <2>1, <2>4
    <3> QED
      BY <1>b, <2>2, <3>1, BalanceKept
  <2> QED
    BY <2>3, <2>4 DEF Conserved
<1>2. ASSUME NEW t \in Threads, NEW e \in Events, IsSignaled(t, e) PROVE Conserved'
  <2>1. thread' = thread
    BY <1>2 DEF IsSignaled
  <2>2. CASE signaled_[e]
    BY <1>2, <1>e, <1>s, <2>1, <2>2 DEF IsSignaled
  <2>3. CASE ~signaled_[e]
    BY <1>2, <1>k, <1>s, <2>1, <2>3 DEF IsSignaled
  <2> QED
    BY <2>2, <2>3
<1>3. ASSUME NEW t \in Threads, NEW e \in Events, Signal(t, e) PROVE Conserved'
  <2>1. CASE signaled_[e]
    <3>1. UNCHANGED <<signaled_, thread, owed>>
      BY <1>3, <2>1 DEF Signal
    <3> QED
      BY <1>k, <1>s, <3>1
  <2>2. CASE ~signaled_[e]
    <3>1. /\ thread[t].pc = "idle" /\ lock[e] = Nobody /\ signaled_' = signaled_
          /\ thread' = [thread EXCEPT ![t] = [Idle EXCEPT !.pc = "signal", !.events = <<e>>]]
          /\ owed' = [owed EXCEPT ![e] = IF AutoReset(e) THEN @ + 1 ELSE @]
      BY <1>3, <2>2 DEF Signal, Call, Unlocked
    <3>2. thread'[t] = [Idle EXCEPT !.pc = "signal", !.events = <<e>>]
      BY <1>0, <3>1 DEF Types
    <3>3. thread'[t].pc = "signal" /\ thread'[t].events = <<e>> /\ thread'[t].event = Nobody
      BY <3>2 DEF Idle
    <3>4. thread'[t].events[1] = e
      BY <3>3
    <3>5. \A u \in Threads : u # t => thread'[u] = thread[u]
      BY <1>0, <3>1 DEF Types
    <3>6. \A d \in Events : Handed(d)' = Handed(d)
      <4>1. \A u \in Threads : thread'[u].event = thread[u].event
        BY <1>c, <3>1, <3>3, <3>5
      <4> QED
        BY <4>1 DEF Handed
    <3>7. \A d \in Events : d # e => SameOwners(d)
      BY <3>1, <3>3, <3>4, <3>5, <3>6 DEF SameOwners, Signaling
    <3>8. Signaling(e)' /\ ~Signaling(e)
      <4>1. ~Signaling(e)
        BY <1>0, <3>1, Constants DEF Signaling, Locks, LocksOf, SignalHoldsLock
      <4> QED
        BY <3>3, <3>4, <4>1 DEF Signaling
    <3>9. Balanced(e)'
      <4>1. CASE AutoReset(e)
        <5>1. owed[e] = Cardinality(Handed(e))
          BY <1>b, <2>2, <3>8, <4>1, HandedCount DEF Balanced
        <5>2. owed'[e] = owed[e] + 1
          BY <1>t, <3>1, <4>1
        <5> QED
          BY <2>2, <3>1, <3>6, <3>8, <5>1, <5>2, HandedCount DEF Balanced
      <4>2. CASE ~AutoReset(e)
        BY <4>2 DEF Balanced, AutoReset
      <4> QED
        BY <4>1, <4>2
    <3>10. ASSUME NEW d \in Events, d # e PROVE Balanced(d)'
      <4>1. owed'[d] = owed[d]
        BY <1>t, <3>1, <3>10
      <4> QED
        BY <1>b, <3>1, <3>7, <3>10, <4>1, BalanceKept
    <3> QED
      BY <3>9, <3>10 DEF Conserved
  <2> QED
    BY <2>1, <2>2
<1>4. ASSUME NEW t \in Threads, NEW e \in Events, NEW timed \in BOOLEAN, Wait(t, e, timed)
      PROVE  Conserved'
  <2>1. CASE Takes(e)
    BY <1>e, <1>s, <2>1 DEF Takes
  <2>2. CASE Blocks(t, e)
    <3>1. /\ thread[t].pc = "idle" /\ thread'[t].pc = "cv" /\ thread'[t].event = Nobody
          /\ UNCHANGED <<signaled_, owed>> /\ \A u \in Threads : u # t => thread'[u] = thread[u]
      BY <2>2 DEF Blocks
    <3>2. thread[t].pc # "signal" /\ thread'[t].pc # "signal" /\ thread'[t].event = thread[t].event
      BY <1>c, <3>1
    <3> QED
      BY <1>k, <3>1, <3>2, OwnersKept
  <2> QED
    BY <1>4, <2>1, <2>2, WaitPoints
<1>5. ASSUME NEW t \in Threads, NEW events \in Arrays, WaitMany(t, events) PROVE Conserved'
  <2>1. /\ thread[t].pc = "idle" /\ UNCHANGED <<signaled_, owed>>
        /\ thread' = [thread EXCEPT ![t] = [Idle EXCEPT !.pc = "enqueue", !.events = events,
                                                        !.many = TRUE]]
    BY <1>5 DEF WaitMany, Call, kernels
  <2>2. /\ thread'[t].pc = "enqueue" /\ thread'[t].event = Nobody
        /\ \A u \in Threads : u # t => thread'[u] = thread[u]
    BY <1>0, <2>1 DEF Types, Idle
  <2>3. thread[t].pc # "signal" /\ thread'[t].pc # "signal" /\ thread'[t].event = thread[t].event
    BY <1>c, <2>1, <2>2
  <2> QED
    BY <1>k, <2>1, <2>2, <2>3, OwnersKept
<1>6. ASSUME NEW t \in Threads, SignalWaiter(t) PROVE Conserved'
  <2>1. PICK e \in Events, w \in Waiters : Serves(t, e, w)
    BY <1>6, SignalWaiterPoints
  <2>2. /\ thread[t].pc = "signal" /\ e = thread[t].events[1] /\ w \in ToSet(waiters_[e])
        /\ ~signaled_[e] /\ signaled_' = signaled_ /\ w # SyncWaiter(t)
        /\ thread'[t].pc = (IF AutoReset(e) /\ Fire(w) THEN "signaled" ELSE "signal")
        /\ thread'[t].events = thread[t].events /\ thread'[t].event = thread[t].event
        /\ \A d \in Events : owed'[d] = IF d = e /\ AutoReset(e) /\ IsAsync(w)
                                        THEN owed[d] - 1 ELSE owed[d]
    BY <2>1 DEF Serves
  <2>3. \A u \in Threads : u # t => thread'[u].pc = thread[u].pc /\ thread'[u].events = thread[u].events
    BY <2>1 DEF Serves, SameCall
  <2>4. thread'[t].event = Nobody /\ thread[t].event = Nobody
    BY <1>c, <2>2
  <2>5. ASSUME NEW u \in Threads, u # t, ~(SyncWaiter(u) = w /\ ~thread[u].fired)
        PROVE  thread'[u].event = thread[u].event
    BY <2>1, <2>5 DEF Serves
  <2>6. ASSUME NEW u \in Threads, SyncWaiter(u) = w, ~thread[u].fired
        PROVE  u # t /\ Fire(w) /\ thread[u].event = Nobody /\ thread'[u].event = e
    <3>1. u # t
      BY <2>2, <2>6
    <3>2. thread[u].pc \in {"cv", "dequeue"}
      BY <1>0, <2>2, <2>6 DEF Lists, ListsOf, OnList
    <3>3. thread[u].event = Nobody
      BY <1>0, <2>6, <3>2 DEF Control, Controlled
    <3> QED
      BY <2>1, <2>6, <3>1, <3>3 DEF Serves
  <2>7. \A d \in Events : d # e => SameOwners(d)
    <3>1. ASSUME NEW d \in Events, d # e PROVE Signaling(d)' <=> Signaling(d)
      BY <2>2, <2>3, <3>1 DEF Signaling
    <3>2. ASSUME NEW d \in Events, d # e, NEW u \in Threads
          PROVE  thread'[u].event = d <=> thread[u].event = d
      BY <2>4, <2>5, <2>6, <3>2, Constants
    <3> QED
      BY <3>1, <3>2 DEF SameOwners, Handed
  <2>8. Signaling(e)
    BY <2>2 DEF Signaling
  <2>9. ASSUME AutoReset(e), Fire(w) PROVE ~Signaling(e)'
    <3>1. thread'[t].pc = "signaled"
      BY <2>2, <2>9
    <3>2. ASSUME NEW u \in Threads, thread'[u].pc = "signal", thread'[u].events[1] = e PROVE FALSE
      <4>1. u # t /\ thread[u].pc = "signal" /\ thread[u].events[1] = e
        BY <2>3, <3>1, <3>2
      <4> QED
        BY <2>2, <4>1, OneSignaler
    <3> QED
      BY <3>2 DEF Signaling
  <2>10. AutoReset(e) => owed[e] = 1 + Cardinality(Handed(e))
    BY <1>b, <2>2, <2>8, HandedCount DEF Balanced
  <2>11. ASSUME AutoReset(e), IsAsync(w) PROVE Balanced(e)'
    <3>1. Fire(w)
      BY <2>11 DEF Fire
    <3>2. \A u \in Threads : SyncWaiter(u) # w
      BY <2>11, WaitersMade
    <3>3. \A u \in Threads : thread'[u].event = thread[u].event
      BY <2>4, <2>5, <3>2
    <3>4. Handed(e)' = Handed(e)
      BY <3>3 DEF Handed
    <3>5. owed'[e] = Cardinality(Handed(e))
      <4>1. owed'[e] = owed[e] - 1
        BY <2>2, <2>11
      <4> QED
        BY <2>10, <2>11, <4>1, HandedCount
    <3> QED
      BY <2>2, <2>9, <2>11, <3>1, <3>4, <3>5, HandedCount DEF Balanced
  <2>12. ASSUME AutoReset(e), ~IsAsync(w) PROVE Balanced(e)'
    <3>1. PICK u \in Threads : SyncWaiter(u) = w /\ w.ptr = u
      BY <2>12, WaitersMade
    <3>2. owed'[e] = owed[e]
      BY <2>2, <2>12
    <3>3. \A a \in Threads : a # u => SyncWaiter(a) # w
      BY <3>1, WaitersMade
    <3>4. \A a \in Threads : a # u => thread'[a].event = thread[a].event
      BY <2>4, <2>5, <3>3
    <3>5. CASE thread[u].fired
      <4>1. ~Fire(w)
        BY <2>12, <3>1, <3>5 DEF Fire
      <4>2. thread'[t].pc = "signal" /\ thread'[t].events = thread[t].events
        BY <2>2, <4>1
      <4>3. Signaling(e)'
        BY <2>2, <4>2 DEF Signaling
      <4>4. thread'[u].event = thread[u].event
        BY <2>2, <2>5, <3>1, <3>5
      <4>5. Handed(e)' = Handed(e)
        BY <3>4, <4>4 DEF Handed
      <4>6. SameOwners(e)
        BY <2>8, <4>3, <4>5 DEF SameOwners
      <4> QED
        BY <1>b, <2>2, <3>2, <4>6, BalanceKept
    <3>6. CASE ~thread[u].fired
      <4>1. Fire(w) /\ thread[u].event = Nobody /\ thread'[u].event = e
        BY <2>6, <3>1, <3>6
      <4>2. u \notin Handed(e) /\ Handed(e)' = Handed(e) \cup {u}
        BY <3>4, <4>1, Constants DEF Handed
      <4>3. Cardinality(Handed(e)') = Cardinality(Handed(e)) + 1
        BY <4>2, HandedGains
      <4>4. ~Signaling(e)' /\ ~signaled_'[e]
        BY <2>2, <2>9, <2>12, <4>1
      <4>5. owed'[e] = Cardinality(Handed(e)')
        BY <2>10, <2>12, <3>2, <4>3, HandedCount
      <4>6. Cardinality(Handed(e)') \in Nat
        BY <4>3, HandedCount
      <4> QED
        BY <4>4, <4>5, <4>6 DEF Balanced
    <3> QED
      BY <3>5, <3>6
  <2>13. Balanced(e)'
    <3>1. ASSUME ~AutoReset(e) PROVE Balanced(e)'
      BY <3>1 DEF Balanced, AutoReset
    <3> QED
      BY <2>11, <2>12, <3>1
  <2>14. ASSUME NEW d \in Events, d # e PROVE Balanced(d)'
    BY <1>b, <2>2, <2>7, <2>14, BalanceKept
  <2> QED
    BY <2>13, <2>14 DEF Conserved
<1>7. ASSUME NEW t \in Threads, SignalEnd(t) \/ SignalOneEnd(t) PROVE Conserved'
  <2>1. PICK e \in Events : Ends(t, e)
    BY <1>7, SignalEndPoints
  <2>2. /\ thread[t].pc \in {"signal", "signaled"} /\ e = thread[t].events[1] /\ ~signaled_[e]
        /\ thread[t].pc = "signal" => signaled_'[e]
        /\ thread[t].pc = "signaled" => ~signaled_'[e]
        /\ owed' = owed /\ thread'[t].pc = "idle" /\ thread'[t].event = Nobody
        /\ \A d \in Events : d # e => signaled_'[d] = signaled_[d]
        /\ \A u \in Threads : u # t => /\ thread'[u].pc = thread[u].pc
                                       /\ thread'[u].events = thread[u].events
                                       /\ thread'[u].event = thread[u].event
    BY <1>i, <2>1 DEF Ends, SameCall
  <2>3. \A d \in Events : Handed(d)' = Handed(d)
    <3>1. \A u \in Threads : thread'[u].event = thread[u].event
      BY <1>c, <2>2
    <3> QED
      BY <3>1 DEF Handed
  <2>4. ~Signaling(e)' /\ (Signaling(e) <=> thread[t].pc = "signal")
    <3>1. ASSUME NEW u \in Threads, u # t, thread[u].pc = "signal", thread[u].events[1] = e
          PROVE  FALSE
      BY <2>2, <3>1, OneSignaler
    <3> QED
      BY <2>2, <3>1 DEF Signaling
  <2>5. \A d \in Events : d # e => SameOwners(d)
    BY <2>2, <2>3 DEF SameOwners, Signaling
  <2>6. Balanced(e)'
    <3>1. CASE AutoReset(e)
      <4>1. owed[e] = (IF thread[t].pc = "signal" THEN 1 ELSE 0) + Cardinality(Handed(e))
        BY <1>b, <2>2, <2>4, <3>1, HandedCount DEF Balanced
      <4> QED
        BY <2>2, <2>3, <2>4, <4>1, HandedCount DEF Balanced
    <3>2. CASE ~AutoReset(e)
      BY <3>2 DEF Balanced, AutoReset
    <3> QED
      BY <3>1, <3>2
  <2>7. ASSUME NEW d \in Events, d # e PROVE Balanced(d)'
    BY <1>b, <2>2, <2>5, <2>7, BalanceKept
  <2> QED
    BY <2>6, <2>7 DEF Conserved
<1>8. ASSUME NEW t \in Threads, EnqueueManyLocks(t) PROVE Conserved'
  BY <1>8, <1>k, <1>s DEF EnqueueManyLocks
<1>9. ASSUME NEW t \in Threads, EnqueueMany(t) PROVE Conserved'
  <2>1. ASSUME NEW e \in Events, Wins(t, e) PROVE Conserved'
    <3>1. /\ thread[t].pc = "enqueue" /\ thread'[t] = Idle /\ signaled_[e] /\ Consume(e)
          /\ \A u \in Threads : u # t => thread'[u] = thread[u]
      BY <2>1 DEF Wins
    <3>2. thread[t].pc # "signal" /\ thread'[t].pc # "signal" /\ thread'[t].event = thread[t].event
      BY <1>c, <1>i, <3>1
    <3> QED
      BY <1>e, <3>1, <3>2, OwnersKept
  <2>2. CASE Enqueues(t)
    <3>1. /\ thread[t].pc = "enqueue" /\ thread'[t] = [thread[t] EXCEPT !.pc = "cv"]
          /\ UNCHANGED <<signaled_, owed>> /\ \A u \in Threads : u # t => thread'[u] = thread[u]
      BY <2>2 DEF Enqueues
    <3>2. thread[t] \in ThreadStates
      BY <1>0, ThreadType
    <3>3. thread[t].pc # "signal" /\ thread'[t].pc # "signal" /\ thread'[t].event = thread[t].event
      BY <3>1, <3>2 DEF ThreadStates
    <3> QED
      BY <1>k, <3>1, <3>3, OwnersKept
  <2> QED
    BY <1>9, <2>1, <2>2, EnqueueManyPoints
<1>10. ASSUME NEW t \in Threads, WakeUp(t) PROVE Conserved'
  <2>1. thread[t] \in ThreadStates
    BY <1>0, ThreadType
  <2>2. /\ thread[t].pc # "signal" /\ thread'[t].pc # "signal" /\ thread'[t].event = thread[t].event
        /\ UNCHANGED <<signaled_, owed>> /\ \A u \in Threads : u # t => thread'[u] = thread[u]
    BY <1>0, <1>10, <2>1 DEF WakeUp, Types, ThreadStates, kernels
  <2> QED
    BY <1>k, <2>2, OwnersKept
<1>11. ASSUME NEW t \in Threads, LeaveWaitList(t) PROVE Conserved'
  <2>1. PICK e \in Events : Leaves(t, e)
    BY <1>11, LeaveWaitListPoints
  <2>2. /\ thread[t].pc = "dequeue" /\ signaled_' = signaled_
        /\ \A u \in Threads : u # t => thread'[u] = thread[u]
    BY <2>1 DEF Leaves
  <2>3. CASE thread[t].i # Len(thread[t].events)
    <3>1. thread[t] \in ThreadStates
      BY <1>0, ThreadType
    <3>2. /\ thread[t].pc # "signal" /\ thread'[t].pc # "signal" /\ thread'[t].event = thread[t].event
          /\ owed' = owed
      BY <2>1, <2>2, <2>3, <3>1 DEF Leaves, ThreadStates
    <3> QED
      BY <1>k, <2>2, <3>2, OwnersKept
  <2>4. CASE thread[t].i = Len(thread[t].events)
    <3>1. /\ thread'[t].pc = "idle" /\ thread'[t].event = Nobody
          /\ \A d \in Events : owed'[d] = IF thread[t].event = d /\ AutoReset(d)
                                          THEN owed[d] - 1 ELSE owed[d]
      BY <2>1, <2>4 DEF Leaves, Idle
    <3>2. \A d \in Events : Signaling(d)' <=> Signaling(d)
      BY <2>2, <3>1 DEF Signaling
    <3>3. ASSUME NEW d \in Events, thread[t].event = d PROVE Balanced(d)'
      <4>1. t \in Handed(d) /\ Handed(d)' = Handed(d) \ {t}
        BY <2>2, <3>1, <3>3, Constants DEF Handed
      <4>2. Cardinality(Handed(d)') = Cardinality(Handed(d)) - 1
        BY <4>1, HandedLoses
      <4>3. CASE AutoReset(d)
        <5>1. owed'[d] = owed[d] - 1
          BY <3>1, <3>3, <4>3
        <5>2. owed[d] = (IF signaled_[d] THEN 1 ELSE 0) + (IF Signaling(d) THEN 1 ELSE 0)
                        + Cardinality(Handed(d))
          BY <1>b, <4>3 DEF Balanced
        <5>3. owed'[d] = (IF signaled_[d] THEN 1 ELSE 0) + (IF Signaling(d) THEN 1 ELSE 0)
                         + Cardinality(Handed(d)')
          BY <4>2, <5>1, <5>2, HandedCount
        <5> QED
          BY <2>2, <3>2, <5>3 DEF Balanced
      <4>4. CASE ~AutoReset(d)
        BY <4>4 DEF Balanced, AutoReset
      <4> QED
        BY <4>3, <4>4
    <3>4. ASSUME NEW d \in Events, thread[t].event # d PROVE Balanced(d)'
      <4>1. Handed(d)' = Handed(d)
        BY <2>2, <3>1, <3>4, Constants DEF Handed
      <4>2. SameOwners(d) /\ owed'[d] = owed[d]
        BY <3>1, <3>2, <3>4, <4>1 DEF SameOwners
      <4> QED
        BY <1>b, <2>2, <4>2, BalanceKept
    <3> QED
      BY <3>3, <3>4 DEF Conserved
  <2> QED
    BY <2>3, <2>4
<1>12. ASSUME NEW v \in Watchers, NEW e \in Events, StartWatching(v, e) PROVE Conserved'
  <2>1. PICK flag \in Flags : Posts(v, e, flag) \/ \E p \in Pointers : Registers(v, e, flag, p)
    BY <1>12, StartWatchingPoints
  <2>2. CASE Posts(v, e, flag)
    BY <1>e, <1>s, <2>2 DEF Posts
  <2>3. ASSUME NEW p \in Pointers, Registers(v, e, flag, p) PROVE Conserved'
    BY <1>k, <1>s, <2>3 DEF Registers
  <2> QED
    BY <2>1, <2>2, <2>3
<1>13. ASSUME NEW v \in Watchers, StopWatching(v) PROVE Conserved'
  BY <1>13, <1>k, <1>s DEF StopWatching
<1>14. ASSUME NEW v \in Watchers, AsyncCallbackHelper(v) PROVE Conserved'
  BY <1>14, <1>k, <1>s DEF AsyncCallbackHelper, kernels
<1> QED
  BY <1>1, <1>2, <1>3, <1>4, <1>5, <1>6, <1>7, <1>8, <1>9, <1>10, <1>11, <1>12, <1>13, <1>14
     DEF Next, Calls, Steps

-----------------------------------------------------------------------------
(***************************************************************************)
(* Watches.                                                                *)
(***************************************************************************)

\* A Flag that nobody refers to is on no list, in no task and with no watcher.
LEMMA FreshFlag ==
  ASSUME NEW flag, ~Referenced(flag)
  PROVE  /\ \A u \in Watchers : watcher[u].flag # flag /\ flag \notin ToSet(tasks[u])
         /\ \A d \in Events : \A x \in ToSet(waiters_[d]) : x.tag # flag
BY DEF Referenced

\* An AsyncWaiter is told from every other waiter by its Flag.
LEMMA ListedAsync ==
  ASSUME Types, NEW e \in Events, NEW x \in ToSet(waiters_[e])
  PROVE  /\ x \in Waiters
         /\ IsAsync(x) => x.tag \in Flags /\ x.tag # Nobody /\ x = [ptr |-> x.ptr, tag |-> x.tag]
         /\ x.tag \in Flags => IsAsync(x)
<1>1. x \in Waiters
  BY DEF Types, ToSet
<1>2. IsAsync(x) => x.tag \in Flags /\ x.tag # Nobody /\ x = [ptr |-> x.ptr, tag |-> x.tag]
  BY <1>1, WaitersMade, Constants DEF AsyncWaiter
<1>3. ~IsAsync(x) => x.tag \in Threads
  BY <1>1, WaitersMade DEF SyncWaiter
<1> QED
  BY <1>1, <1>2, <1>3, Constants

\* A watcher calls back exactly for its active watch.
LEMMA NextWatches == IndInv /\ Next => Watches'
<1> SUFFICES ASSUME IndInv, Next PROVE Watches'
  OBVIOUS
<1>0. Types /\ Lists /\ Watches
  BY DEF IndInv
<1>w. /\ \A v \in Watchers : TasksKnown(v) /\ WatchKept(v) /\ \A u \in Watchers : OneWatcher(u, v)
      /\ \A e \in Events : \A w \in ToSet(waiters_[e]) : WaiterKnown(e, w)
  BY <1>0 DEF Watches
<1>k. ASSUME UNCHANGED <<watcher, set>>, \A v \in Watchers : ToSet(tasks'[v]) = ToSet(tasks[v]),
             \A e \in Events : \A w :
               IsAsync(w) => (w \in ToSet(waiters_'[e]) <=> w \in ToSet(waiters_[e]))
      PROVE  Watches'
  <2>1. ASSUME NEW v \in Watchers PROVE TasksKnown(v)'
    BY <1>w, <1>k DEF TasksKnown
  <2>2. ASSUME NEW v \in Watchers PROVE WatchKept(v)'
    <3>1. WatchKept(v)
      BY <1>w
    <3>2. watcher[v].waiter \in Pointers => IsAsync(AsyncWaiter(watcher[v].waiter, watcher[v].flag))
      BY DEF IsAsync, AsyncWaiter
    <3> QED
      BY <1>k, <3>1, <3>2 DEF WatchKept, AsyncWaiter
  <2>3. ASSUME NEW e \in Events, NEW w \in ToSet(waiters_'[e]) PROVE WaiterKnown(e, w)'
    <3>1. CASE IsAsync(w)
      <4>1. WaiterKnown(e, w)
        BY <1>w, <1>k, <2>3, <3>1
      <4> QED
        BY <1>k, <4>1 DEF WaiterKnown, IsAsync
    <3>2. CASE ~IsAsync(w)
      BY <3>2 DEF WaiterKnown, IsAsync
    <3> QED
      BY <3>1, <3>2
  <2>4. ASSUME NEW u \in Watchers, NEW v \in Watchers PROVE OneWatcher(u, v)'
    BY <1>w, <1>k DEF OneWatcher
  <2> QED
    BY <2>1, <2>2, <2>3, <2>4 DEF Watches
<1>u. ASSUME UNCHANGED <<waiters_, watching>> PROVE Watches'
  BY <1>k, <1>u DEF watching
<1>1. ASSUME NEW t \in Threads, NEW e \in Events, Reset(t, e) PROVE Watches'
  BY <1>1, <1>u DEF Reset
<1>2. ASSUME NEW t \in Threads, NEW e \in Events, IsSignaled(t, e) PROVE Watches'
  BY <1>2, <1>u DEF IsSignaled
<1>3. ASSUME NEW t \in Threads, NEW e \in Events, Signal(t, e) PROVE Watches'
  BY <1>3, <1>u DEF Signal
<1>s. ASSUME NEW t \in Threads PROVE ~IsAsync(SyncWaiter(t))
  BY WaitersMade
<1>4. ASSUME NEW t \in Threads, NEW e \in Events, NEW timed \in BOOLEAN, Wait(t, e, timed)
      PROVE  Watches'
  <2>1. CASE Takes(e)
    BY <1>u, <2>1 DEF Takes
  <2>2. CASE Blocks(t, e)
    <3>1. /\ ToSet(waiters_'[e]) = ToSet(waiters_[e]) \cup {SyncWaiter(t)}
          /\ \A d \in Events : d # e => waiters_'[d] = waiters_[d]
          /\ UNCHANGED watching
      BY <2>2 DEF Blocks
    <3> QED
      BY <1>k, <1>s, <3>1 DEF watching
  <2> QED
    BY <1>4, <2>1, <2>2, WaitPoints
<1>5. ASSUME NEW t \in Threads, NEW events \in Arrays, WaitMany(t, events) PROVE Watches'
  BY <1>5, <1>u DEF WaitMany, kernels
<1>6. ASSUME NEW t \in Threads, SignalWaiter(t) PROVE Watches'
  <2>1. PICK e \in Events, w \in Waiters : Serves(t, e, w)
    BY <1>6, SignalWaiterPoints
  <2>2. /\ w \in ToSet(waiters_[e]) /\ ToSet(waiters_'[e]) = ToSet(waiters_[e]) \ {w}
        /\ \A d \in Events : d # e => waiters_'[d] = waiters_[d]
        /\ \A v \in Watchers : ToSet(tasks'[v]) =
             IF IsAsync(w) /\ watcher[v].flag = w.tag /\ w.tag \notin set
             THEN ToSet(tasks[v]) \cup {w.tag} ELSE ToSet(tasks[v])
        /\ UNCHANGED <<watcher, set>>
    BY <2>1 DEF Serves
  <2>3. CASE ~IsAsync(w)
    BY <1>k, <2>2, <2>3
  <2>4. CASE IsAsync(w)
    <3>1. w.tag \in Flags /\ w.tag # Nobody /\ w = [ptr |-> w.ptr, tag |-> w.tag]
      BY <1>0, <2>2, <2>4, ListedAsync
    <3>2. WaiterKnown(e, w)
      BY <1>w, <2>2
    <3>3. PICK v \in Watchers : watcher[v] = [flag |-> w.tag, kernel |-> e, waiter |-> w.ptr]
      BY <2>4, <3>2 DEF WaiterKnown
    <3>4. w.tag \notin set /\ watcher[v].flag = w.tag
      BY <2>4, <3>2, <3>3 DEF WaiterKnown
    <3>5. \A u \in Watchers : u # v => watcher[u].flag # w.tag
      BY <1>w, <3>1, <3>4 DEF OneWatcher
    <3>6. /\ ToSet(tasks'[v]) = ToSet(tasks[v]) \cup {w.tag}
          /\ \A u \in Watchers : u # v => ToSet(tasks'[u]) = ToSet(tasks[u])
      BY <2>2, <2>4, <3>4, <3>5
    <3>7. ASSUME NEW u \in Watchers PROVE TasksKnown(u)'
      BY <1>w, <2>2, <3>4, <3>6 DEF TasksKnown
    <3>8. ASSUME NEW u \in Watchers PROVE WatchKept(u)'
      <4>1. WatchKept(u)
        BY <1>w
      <4>2. CASE u = v
        BY <2>2, <3>4, <3>6, <4>2 DEF WatchKept
      <4>3. CASE u # v
        <5>1. AsyncWaiter(watcher[u].waiter, watcher[u].flag) # w
          BY <3>5, <4>3 DEF AsyncWaiter
        <5> QED
          BY <2>2, <3>6, <4>1, <4>3, <5>1 DEF WatchKept, AsyncWaiter
      <4> QED
        BY <4>2, <4>3
    <3>9. ASSUME NEW d \in Events, NEW x \in ToSet(waiters_'[d]), IsAsync(x) PROVE WaiterKnown(d, x)'
      <4>1. x \in ToSet(waiters_[d]) /\ (d = e => x # w)
        BY <2>2, <3>9
      <4>2. WaiterKnown(d, x)
        BY <1>w, <4>1
      <4>3. PICK u \in Watchers : watcher[u] = [flag |-> x.tag, kernel |-> d, waiter |-> x.ptr]
        BY <3>9, <4>2 DEF WaiterKnown
      <4>4. watcher[u].flag = x.tag /\ watcher[u].kernel = d /\ watcher[u].waiter = x.ptr
        BY <4>3
      <4>5. x.tag # w.tag
        <5>1. SUFFICES ASSUME x.tag = w.tag PROVE FALSE
          OBVIOUS
        <5>2. u = v
          BY <3>5, <4>4, <5>1
        <5>3. d = e /\ x.ptr = w.ptr
          BY <3>3, <4>4, <5>2
        <5>4. x = [ptr |-> x.ptr, tag |-> x.tag]
          BY <1>0, <3>9, <4>1, ListedAsync
        <5> QED
          BY <3>1, <4>1, <5>1, <5>3, <5>4
      <4>6. \A a \in Watchers : x.tag \notin ToSet(tasks'[a])
        BY <3>6, <3>9, <4>2, <4>5 DEF WaiterKnown
      <4> QED
        BY <2>2, <3>9, <4>2, <4>6 DEF WaiterKnown, IsAsync
    <3>10. ASSUME NEW d \in Events, NEW x \in ToSet(waiters_'[d]), ~IsAsync(x) PROVE WaiterKnown(d, x)'
      BY <3>10 DEF WaiterKnown, IsAsync
    <3>11. ASSUME NEW u \in Watchers, NEW a \in Watchers PROVE OneWatcher(u, a)'
      BY <1>w, <2>2 DEF OneWatcher
    <3> QED
      BY <3>7, <3>8, <3>9, <3>10, <3>11 DEF Watches
  <2> QED
    BY <2>3, <2>4
<1>7. ASSUME NEW t \in Threads, SignalEnd(t) \/ SignalOneEnd(t) PROVE Watches'
  BY <1>7, <1>u DEF SignalEnd, SignalOneEnd
<1>8. ASSUME NEW t \in Threads, EnqueueManyLocks(t) PROVE Watches'
  BY <1>8, <1>u DEF EnqueueManyLocks
<1>9. ASSUME NEW t \in Threads, EnqueueMany(t) PROVE Watches'
  <2>1. ASSUME NEW e \in Events, Wins(t, e) PROVE Watches'
    BY <1>u, <2>1 DEF Wins
  <2>2. CASE Enqueues(t)
    <3>1. /\ \A e \in Events :
               ToSet(waiters_'[e]) = IF e \in ToSet(thread[t].events)
                                     THEN ToSet(waiters_[e]) \cup {SyncWaiter(t)}
                                     ELSE ToSet(waiters_[e])
          /\ UNCHANGED watching
      BY <2>2 DEF Enqueues
    <3> QED
      BY <1>k, <1>s, <3>1 DEF watching
  <2> QED
    BY <1>9, <2>1, <2>2, EnqueueManyPoints
<1>10. ASSUME NEW t \in Threads, WakeUp(t) PROVE Watches'
  BY <1>10, <1>u DEF WakeUp, kernels
<1>11. ASSUME NEW t \in Threads, LeaveWaitList(t) PROVE Watches'
  <2>1. PICK e \in Events : Leaves(t, e)
    BY <1>11, LeaveWaitListPoints
  <2>2. /\ ToSet(waiters_'[e]) = ToSet(waiters_[e]) \ {SyncWaiter(t)}
        /\ \A d \in Events : d # e => waiters_'[d] = waiters_[d]
        /\ UNCHANGED watching
    BY <2>1 DEF Leaves
  <2> QED
    BY <1>k, <1>s, <2>2 DEF watching
<1>12. ASSUME NEW v \in Watchers, NEW e \in Events, StartWatching(v, e) PROVE Watches'
  <2>1. PICK flag \in Flags : Posts(v, e, flag) \/ \E p \in Pointers : Registers(v, e, flag, p)
    BY <1>12, StartWatchingPoints
  <2> DEFINE Started ==
        /\ watcher[v].flag \in set \cup {Nobody} /\ set' = set \ {flag} /\ watcher'[v].flag = flag
        /\ \A u \in Watchers : u # v => tasks'[u] = tasks[u] /\ watcher'[u] = watcher[u]
        /\ ToSet(tasks'[v]) \subseteq ToSet(tasks[v]) \cup {flag}
        /\ \A d \in Events : ToSet(waiters_[d]) \subseteq ToSet(waiters_'[d])
  <2>2. Started
    <3>1. CASE Posts(v, e, flag)
      BY <3>1 DEF Posts
    <3>2. ASSUME NEW p \in Pointers, Registers(v, e, flag, p) PROVE Started
      <4>1. /\ watcher[v].flag \in set \cup {Nobody} /\ set' = set \ {flag} /\ tasks' = tasks
            /\ watcher'[v] = [flag |-> flag, kernel |-> e, waiter |-> p]
            /\ \A u \in Watchers : u # v => watcher'[u] = watcher[u]
        BY <3>2 DEF Registers
      <4>2. /\ ToSet(waiters_'[e]) = ToSet(waiters_[e]) \cup {AsyncWaiter(p, flag)}
            /\ \A d \in Events : d # e => waiters_'[d] = waiters_[d]
        BY <3>2 DEF Registers
      <4>3. \A d \in Events : ToSet(waiters_[d]) \subseteq ToSet(waiters_'[d])
        BY <4>2
      <4> QED
        BY <4>1, <4>3
    <3> QED
      BY <2>1, <3>1, <3>2
  <2>3. /\ \A u \in Watchers : watcher[u].flag # flag /\ flag \notin ToSet(tasks[u])
        /\ \A d \in Events : \A x \in ToSet(waiters_[d]) : x.tag # flag
    <3>1. ~Referenced(flag)
      BY <2>1 DEF Posts, Registers
    <3> QED
      BY <3>1, FreshFlag
  <2>4. ASSUME NEW u \in Watchers PROVE TasksKnown(u)'
    <3>1. TasksKnown(u) /\ ToSet(tasks[u]) \subseteq Flags
      BY <1>0, <1>w DEF Types, ToSet
    <3>2. CASE u = v
      BY <2>2, <2>3, <3>1, <3>2, Constants DEF TasksKnown
    <3>3. CASE u # v
      BY <2>2, <2>3, <3>1, <3>3 DEF TasksKnown
    <3> QED
      BY <3>2, <3>3
  <2>5. ASSUME NEW u \in Watchers, u # v PROVE WatchKept(u)'
    <3>1. WatchKept(u)
      BY <1>w
    <3> QED
      BY <2>2, <2>3, <2>5, <3>1 DEF WatchKept, AsyncWaiter
  <2>6. ASSUME NEW u \in Watchers, NEW a \in Watchers PROVE OneWatcher(u, a)'
    <3>1. OneWatcher(u, a)
      BY <1>w
    <3> QED
      BY <2>2, <2>3, <3>1 DEF OneWatcher
  <2>7. ASSUME NEW d \in Events, NEW x \in ToSet(waiters_[d]) PROVE WaiterKnown(d, x)'
    <3>1. CASE IsAsync(x)
      <4>1. WaiterKnown(d, x) /\ x.tag # Nobody
        BY <1>0, <1>w, <3>1, ListedAsync
      <4>2. PICK u \in Watchers : watcher[u] = [flag |-> x.tag, kernel |-> d, waiter |-> x.ptr]
        BY <3>1, <4>1 DEF WaiterKnown
      <4>3. x.tag \notin set /\ \A a \in Watchers : x.tag \notin ToSet(tasks[a])
        BY <3>1, <4>1 DEF WaiterKnown
      <4>4. watcher[u].flag = x.tag
        BY <4>2
      <4>5. u # v
        BY <2>2, <4>1, <4>3, <4>4
      <4>6. watcher'[u] = [flag |-> x.tag, kernel |-> d, waiter |-> x.ptr]
        BY <2>2, <4>2, <4>5
      <4>7. x.tag \notin set' /\ \A a \in Watchers : x.tag \notin ToSet(tasks'[a])
        BY <2>2, <2>3, <2>7, <4>3
      <4> QED
        BY <4>6, <4>7 DEF WaiterKnown
    <3>2. CASE ~IsAsync(x)
      BY <3>2 DEF WaiterKnown, IsAsync
    <3> QED
      BY <3>1, <3>2
  <2>8. CASE Posts(v, e, flag)
    <3>1. ToSet(tasks'[v]) = ToSet(tasks[v]) \cup {flag} /\ waiters_' = waiters_
      BY <2>8 DEF Posts
    <3>2. WatchKept(v)'
      BY <2>2, <3>1 DEF WatchKept
    <3> QED
      BY <2>4, <2>5, <2>6, <2>7, <3>1, <3>2 DEF Watches
  <2>9. ASSUME NEW p \in Pointers, Registers(v, e, flag, p) PROVE Watches'
    <3>1. /\ ToSet(waiters_'[e]) = ToSet(waiters_[e]) \cup {AsyncWaiter(p, flag)}
          /\ \A d \in Events : d # e => waiters_'[d] = waiters_[d]
          /\ watcher'[v] = [flag |-> flag, kernel |-> e, waiter |-> p] /\ tasks' = tasks
      BY <2>9 DEF Registers
    <3>2. watcher'[v].kernel = e /\ watcher'[v].waiter = p /\ watcher'[v].flag = flag
      BY <3>1
    <3>3. WatchKept(v)'
      BY <3>1, <3>2 DEF WatchKept, AsyncWaiter
    <3>4. WaiterKnown(e, AsyncWaiter(p, flag))'
      <4>1. AsyncWaiter(p, flag).tag = flag /\ AsyncWaiter(p, flag).ptr = p
        BY DEF AsyncWaiter
      <4>2. flag \notin set' /\ \A u \in Watchers : flag \notin ToSet(tasks'[u])
        BY <2>2, <2>3, <3>1
      <4> QED
        BY <3>1, <4>1, <4>2 DEF WaiterKnown, AsyncWaiter
    <3>5. ASSUME NEW d \in Events, NEW x \in ToSet(waiters_'[d]) PROVE WaiterKnown(d, x)'
      <4>1. CASE x \in ToSet(waiters_[d])
        BY <2>7, <4>1
      <4>2. CASE x \notin ToSet(waiters_[d])
        <5>1. d = e /\ x = AsyncWaiter(p, flag)
          BY <3>1, <3>5, <4>2
        <5> QED
          BY <3>4, <5>1 DEF WaiterKnown, AsyncWaiter, IsAsync
      <4> QED
        BY <4>1, <4>2
    <3> QED
      BY <2>4, <2>5, <2>6, <3>3, <3>5 DEF Watches
  <2> QED
    BY <2>1, <2>8, <2>9
<1>13. ASSUME NEW v \in Watchers, StopWatching(v) PROVE Watches'
  <2>1. Stops(v)
    BY <1>13, StopWatchingPoints
  <2> DEFINE aw == AsyncWaiter(watcher[v].waiter, watcher[v].flag)
  <2>2. /\ watcher[v].flag \in Flags /\ tasks' = tasks
        /\ \A e \in Events :
             ToSet(waiters_'[e]) = IF e = watcher[v].kernel
                                   THEN ToSet(waiters_[e]) \ {aw} ELSE ToSet(waiters_[e])
        /\ watcher'[v].flag = Nobody /\ \A u \in Watchers : u # v => watcher'[u] = watcher[u]
        /\ \/ set' = set \cup {watcher[v].flag}
           \/ /\ set' = set /\ watcher[v].kernel \in Events
              /\ aw \in ToSet(waiters_[watcher[v].kernel])
    BY <2>1 DEF Stops
  <2>3. aw.tag = watcher[v].flag /\ aw.ptr = watcher[v].waiter
    BY DEF AsyncWaiter
  <2>4. set \subseteq set' /\ set' \subseteq set \cup {watcher[v].flag}
    BY <2>2
  <2>5. \A u \in Watchers : u # v => watcher[u].flag # watcher[v].flag
    BY <1>w, <2>2, Constants DEF OneWatcher
  <2> HIDE DEF aw
  <2>6. ASSUME NEW u \in Watchers PROVE TasksKnown(u)'
    <3>1. TasksKnown(u)
      BY <1>w
    <3>2. CASE u # v
      BY <2>2, <2>4, <3>1, <3>2 DEF TasksKnown
    <3>3. CASE u = v /\ set' = set \cup {watcher[v].flag}
      BY <2>2, <3>1, <3>3 DEF TasksKnown
    <3>4. CASE u = v /\ watcher[v].kernel \in Events /\ aw \in ToSet(waiters_[watcher[v].kernel])
      <4>1. IsAsync(aw) /\ WaiterKnown(watcher[v].kernel, aw)
        BY <1>0, <1>w, <2>2, <2>3, <3>4, ListedAsync
      <4>2. watcher[v].flag \notin ToSet(tasks[v])
        BY <2>3, <4>1 DEF WaiterKnown
      <4> QED
        BY <2>2, <2>4, <3>1, <3>4, <4>2 DEF TasksKnown
    <3> QED
      BY <2>2, <3>2, <3>3, <3>4
  <2>7. ASSUME NEW u \in Watchers PROVE WatchKept(u)'
    <3>1. CASE u = v
      BY <2>2, <3>1 DEF WatchKept
    <3>2. CASE u # v
      <4>1. WatchKept(u) /\ watcher'[u] = watcher[u]
        BY <1>w, <2>2, <3>2
      <4>2. AsyncWaiter(watcher[u].waiter, watcher[u].flag) # aw
        <5>1. AsyncWaiter(watcher[u].waiter, watcher[u].flag).tag = watcher[u].flag
          BY DEF AsyncWaiter
        <5> QED
          BY <2>3, <2>5, <3>2, <5>1
      <4> QED
        BY <2>2, <2>4, <4>1, <4>2 DEF WatchKept, AsyncWaiter
    <3> QED
      BY <3>1, <3>2
  <2>8. ASSUME NEW u \in Watchers, NEW a \in Watchers PROVE OneWatcher(u, a)'
    <3>1. OneWatcher(u, a)
      BY <1>w
    <3> QED
      BY <2>2, <3>1 DEF OneWatcher
  <2>9. ASSUME NEW d \in Events, NEW x \in ToSet(waiters_'[d]) PROVE WaiterKnown(d, x)'
    <3>1. CASE ~IsAsync(x)
      BY <3>1 DEF WaiterKnown, IsAsync
    <3>2. CASE IsAsync(x)
      <4>1. x \in ToSet(waiters_[d]) /\ (d = watcher[v].kernel => x # aw)
        BY <2>2, <2>9
      <4>2. WaiterKnown(d, x) /\ x = [ptr |-> x.ptr, tag |-> x.tag]
        BY <1>0, <1>w, <3>2, <4>1, ListedAsync
      <4>3. PICK u \in Watchers : watcher[u] = [flag |-> x.tag, kernel |-> d, waiter |-> x.ptr]
        BY <3>2, <4>2 DEF WaiterKnown
      <4>4. watcher[u].flag = x.tag /\ watcher[u].kernel = d /\ watcher[u].waiter = x.ptr
        BY <4>3
      <4>5. u # v
        <5>1. SUFFICES ASSUME u = v PROVE FALSE
          OBVIOUS
        <5>2. x = aw
          BY <4>2, <4>4, <5>1 DEF aw, AsyncWaiter
        <5> QED
          BY <4>1, <4>4, <5>1, <5>2
      <4>6. x.tag \notin set'
        BY <2>4, <2>5, <3>2, <4>2, <4>4, <4>5 DEF WaiterKnown
      <4>7. \A a \in Watchers : x.tag \notin ToSet(tasks'[a])
        BY <2>2, <3>2, <4>2 DEF WaiterKnown
      <4>8. watcher'[u] = [flag |-> x.tag, kernel |-> d, waiter |-> x.ptr]
        BY <2>2, <4>3, <4>5
      <4> QED
        BY <4>6, <4>7, <4>8 DEF WaiterKnown
    <3> QED
      BY <3>1, <3>2
  <2> QED
    BY <2>6, <2>7, <2>8, <2>9 DEF Watches
<1>14. ASSUME NEW v \in Watchers, AsyncCallbackHelper(v) PROVE Watches'
  <2>1. /\ tasks[v] # <<>> /\ tasks' = [tasks EXCEPT ![v] = Tail(tasks[v])]
        /\ set' = set \cup {Head(tasks[v])} /\ UNCHANGED <<waiters_, watcher>>
    BY <1>14 DEF AsyncCallbackHelper, kernels
  <2>2. tasks[v] \in Seq(Flags)
    BY <1>0 DEF Types
  <2>3. PICK h : h = Head(tasks[v])
    OBVIOUS
  <2>4. ToSet(tasks[v]) = ToSet(Tail(tasks[v])) \cup {h}
    BY <2>1, <2>2, <2>3, TailSet
  <2>5. /\ ToSet(tasks[v]) = ToSet(tasks'[v]) \cup {h} /\ set' = set \cup {h}
        /\ \A u \in Watchers : u # v => tasks'[u] = tasks[u]
    BY <1>0, <2>1, <2>3, <2>4 DEF Types
  <2>6. ASSUME NEW u \in Watchers PROVE TasksKnown(u)'
    BY <1>w, <2>1, <2>5 DEF TasksKnown
  <2>7. ASSUME NEW u \in Watchers PROVE WatchKept(u)'
    <3>1. WatchKept(u)
      BY <1>w
    <3> QED
      BY <2>1, <2>5, <3>1 DEF WatchKept, AsyncWaiter
  <2>8. ASSUME NEW u \in Watchers, NEW a \in Watchers PROVE OneWatcher(u, a)'
    BY <1>w, <2>1 DEF OneWatcher
  <2>9. ASSUME NEW d \in Events, NEW x \in ToSet(waiters_[d]) PROVE WaiterKnown(d, x)'
    <3>1. WaiterKnown(d, x)
      BY <1>w
    <3> QED
      BY <2>1, <2>5, <3>1 DEF WaiterKnown, IsAsync
  <2> QED
    BY <2>1, <2>6, <2>7, <2>8, <2>9 DEF Watches
<1> QED
  BY <1>1, <1>2, <1>3, <1>4, <1>5, <1>6, <1>7, <1>8, <1>9, <1>10, <1>11, <1>12, <1>13, <1>14
     DEF Next, Calls, Steps

-----------------------------------------------------------------------------
(***************************************************************************)
(* The inductive invariant.                                                *)
(***************************************************************************)

\* No event has a waiter and no thread a call at first.
LEMMA InitInd == Init => IndInv
<1> SUFFICES ASSUME Init PROVE IndInv
  OBVIOUS
<1>1. /\ signaled_ \in [Events -> BOOLEAN] /\ waiters_ = [e \in Events |-> <<>>]
      /\ lock = [e \in Events |-> Nobody] /\ thread = [t \in Threads |-> Idle]
      /\ watcher = [v \in Watchers |-> [flag |-> Nobody, kernel |-> Nobody, waiter |-> Nobody]]
      /\ set = {} /\ tasks = [v \in Watchers |-> <<>>]
      /\ owed = [e \in Events |-> IF signaled_[e] /\ AutoReset(e) THEN 1 ELSE 0]
  BY DEF Init
<1>2. /\ Idle.pc = "idle" /\ ~Idle.fired /\ ~Idle.result /\ Idle.event = Nobody
      /\ Idle.during = Nobody
  BY DEF Idle
<1>3. Types
  <2>1. [flag |-> Nobody, kernel |-> Nobody, waiter |-> Nobody] \in WatcherStates
    BY DEF WatcherStates
  <2>2. \A S : <<>> \in Seq(S)
    BY EmptySeq
  <2>3. owed \in [Events -> Int]
    BY <1>1
  <2> QED
    BY <1>1, <2>1, <2>2, <2>3, IdleType DEF Types
<1>4. Control
  BY <1>1, <1>2 DEF Control, Controlled
<1>5. Locks
  BY <1>1, <1>2, Constants DEF Locks, LocksOf, SignalHoldsLock, LocksInOrder, HeldInCall
<1>6. \A e \in Events : ToSet(waiters_[e]) = {} /\ IsInjective(waiters_[e])
  BY <1>1 DEF ToSet, IsInjective
<1>7. Lists
  BY <1>1, <1>2, <1>6 DEF Lists, ListSane, ListsOf, Sleeping, OnList
<1>8. Firing
  BY <1>1, <1>2, Constants DEF Firing, FiredBy
<1>9. Conserved
  <2>1. ASSUME NEW e \in Events PROVE Handed(e) = {} /\ ~Signaling(e)
    BY <1>1, <1>2, Constants DEF Handed, Signaling
  <2>2. Cardinality({}) = 0
    BY FS_EmptySet
  <2>3. ASSUME NEW e \in Events, AutoReset(e) PROVE owed[e] = IF signaled_[e] THEN 1 ELSE 0
    BY <1>1, <2>3
  <2>4. ASSUME NEW e \in Events PROVE Balanced(e)
    <3>1. Cardinality(Handed(e)) = 0 /\ ~Signaling(e)
      BY <2>1, <2>2
    <3> QED
      BY <2>3, <3>1 DEF Balanced
  <2> QED
    BY <2>4 DEF Conserved
<1>10. Watches
  <2>1. \A v \in Watchers : watcher[v].flag = Nobody /\ ToSet(tasks[v]) = {}
    BY <1>1 DEF ToSet
  <2> QED
    BY <1>6, <2>1 DEF Watches, TasksKnown, WatchKept, OneWatcher
<1> QED
  BY <1>3, <1>4, <1>5, <1>7, <1>8, <1>9, <1>10 DEF IndInv

\* A step that changes nothing.
LEMMA StutterInd == IndInv /\ UNCHANGED vars => IndInv'
<1> SUFFICES ASSUME IndInv, UNCHANGED vars PROVE IndInv'
  OBVIOUS
<1>0. Types /\ Control /\ Locks /\ Lists /\ Firing /\ Conserved /\ Watches
  BY DEF IndInv
<1>1. /\ signaled_' = signaled_ /\ waiters_' = waiters_ /\ lock' = lock /\ thread' = thread
      /\ watcher' = watcher /\ set' = set /\ tasks' = tasks /\ owed' = owed
  BY DEF vars, kernels, watching
<1>2. Types'
  BY <1>0, <1>1 DEF Types
<1>3. Control'
  BY <1>0, <1>1 DEF Control, Controlled
<1>4. Locks'
  BY <1>0, <1>1 DEF Locks, LocksOf, SignalHoldsLock, LocksInOrder, HeldInCall, NotLocked, Holds
<1>5. Lists'
  BY <1>0, <1>1 DEF Lists, ListSane, ListsOf, Sleeping, OnList, Ahead
<1>6. Firing'
  BY <1>0, <1>1 DEF Firing, FiredBy, Ahead
<1>7. Conserved'
  BY <1>0, <1>1 DEF Conserved, Balanced, Handed, Signaling
<1>8. Watches'
  BY <1>0, <1>1 DEF Watches, TasksKnown, WatchKept, OneWatcher, WaiterKnown
<1> QED
  BY <1>2, <1>3, <1>4, <1>5, <1>6, <1>7, <1>8 DEF IndInv

\* The whole inductive invariant holds in every reachable state.
THEOREM Invariance == Spec => []IndInv
<1>1. IndInv /\ [Next]_vars => IndInv'
  BY NextTypes, NextControl, NextLocks, NextLists, NextFiring, NextConserved, NextWatches,
     StutterInd DEF IndInv
<1> QED
  BY <1>1, InitInd, PTL DEF Spec

-----------------------------------------------------------------------------
(***************************************************************************)
(* What the checked properties say, for every instance.                    *)
(***************************************************************************)

\* A wait-list holds exactly the waiters that a Signal() must find: nobody is on the list of a
\* signaled event, every thread that sleeps unfired is on the list of each of its events, and no
\* list names the SyncWaiter of a wait that has returned.
THEOREM WaitListsHold == Spec => []WaitListsExact
<1>1. IndInv => WaitListsExact
  <2> SUFFICES ASSUME IndInv PROVE WaitListsExact
    OBVIOUS
  <2>0. Types /\ Lists
    BY DEF IndInv
  <2>1. ASSUME NEW e \in Events PROVE waiters_[e] \in Seq(Waiters) /\ IsInjective(waiters_[e])
    BY <2>0 DEF Types, Lists, ListSane
  <2>2. ASSUME NEW t \in Threads, NEW e \in Events
        PROVE  Listed(waiters_[e], t, t) <=> SyncWaiter(t) \in ToSet(waiters_[e])
    BY <2>1, DequeueSet DEF SyncWaiter
  <2>3. TypeOK
    <3>1. ASSUME NEW e \in Events PROVE ToSet(waiters_[e]) \subseteq Waiters
      BY <2>1 DEF ToSet
    <3>2. ASSUME NEW t \in Threads
          PROVE  thread[t].pc \in Pcs
      BY <2>0, ThreadType DEF ThreadStates
    <3>3. ASSUME NEW v \in Watchers
          PROVE  watcher[v].flag \in Flags \cup {Nobody} /\ ToSet(tasks[v]) \subseteq Flags
      BY <2>0 DEF Types, WatcherStates, ToSet
    <3> QED
      BY <2>0, <2>1, <3>1, <3>2, <3>3 DEF TypeOK, Types
  <2>4. NobodySleepsOnSignaledEvent
    <3>1. ASSUME NEW e \in Events, signaled_[e] PROVE waiters_[e] = <<>>
      BY <2>0, <2>1, <3>1, EmptyList DEF Lists, ListSane
    <3>2. ASSUME NEW t \in Threads, thread[t].pc = "cv", ~thread[t].fired,
                 NEW e \in ToSet(thread[t].events)
          PROVE  Listed(waiters_[e], t, t)
      <4>1. e \in Events
        BY <2>0, ThreadType DEF ThreadStates, ToSet
      <4> QED
        BY <2>0, <2>2, <3>2, <4>1 DEF Lists, ListsOf, Sleeping
    <3> QED
      BY <3>1, <3>2 DEF NobodySleepsOnSignaledEvent
  <2>5. NoWaiterOutlivesItsWait
    BY <2>2, ListedInWait DEF NoWaiterOutlivesItsWait
  <2> QED
    BY <2>3, <2>4, <2>5 DEF WaitListsExact
<1> QED
  BY <1>1, Invariance, PTL

\* Every Signal() of an auto-reset event that found it unsignaled is consumed exactly once: it
\* is in signaled_, or with one waiter that will return true, or was consumed, whatever timeouts
\* and second events race with it.
THEOREM ConservedHolds == Spec => []SignalsConserved
<1>1. IndInv => SignalsConserved
  <2> SUFFICES ASSUME IndInv, NEW e \in Events, AutoReset(e), Unlocked(e)
               PROVE  owed[e] = (IF signaled_[e] THEN 1 ELSE 0)
                        + Cardinality({t \in Threads :
                            /\ \/ thread[t].pc = "cv" /\ thread[t].fired
                               \/ thread[t].pc = "dequeue" /\ thread[t].result
                            /\ thread[t].event = e})
    BY DEF SignalsConserved
  <2>0. Types /\ Control /\ Locks /\ Conserved
    BY DEF IndInv
  <2>1. ASSUME NEW t \in Threads, thread[t].event = e
        PROVE  \/ thread[t].pc = "cv" /\ thread[t].fired
               \/ thread[t].pc = "dequeue" /\ thread[t].result
    <3>1. thread[t].pc \in Pcs
      BY <2>0, ThreadType DEF ThreadStates
    <3>2. Controlled(t)
      BY <2>0 DEF Control
    <3> QED
      BY <2>1, <3>1, <3>2, Constants DEF Controlled, Pcs
  <2>2. Handed(e) = {t \in Threads : /\ \/ thread[t].pc = "cv" /\ thread[t].fired
                                        \/ thread[t].pc = "dequeue" /\ thread[t].result
                                     /\ thread[t].event = e}
    BY <2>1 DEF Handed
  <2>3. ~Signaling(e)
    BY <2>0, Constants DEF Signaling, Unlocked, Locks, LocksOf, SignalHoldsLock
  <2>4. owed[e] = (IF signaled_[e] THEN 1 ELSE 0) + Cardinality(Handed(e))
    BY <2>0, <2>3, HandedCount DEF Conserved, Balanced
  <2> QED
    BY <2>2, <2>4
<1> QED
  BY <1>1, Invariance, PTL

\* A wait returns only after the Signal() that ended it has returned the lock, so that its
\* caller may delete the event.
THEOREM ReturnsHold == Spec => []ReturnsAfterSignal
<1>1. IndInv => ReturnsAfterSignal
  BY DEF IndInv, Control, Controlled, ReturnsAfterSignal
<1> QED
  BY <1>1, Invariance, PTL

\* An active watch is on the list of its own event and nowhere else, or its task is posted; a
\* watch that was stopped is not called back, even when its AsyncWaiter's address is used again.
THEOREM WatchesHold == Spec => []WatchesExact
<1>1. IndInv => WatchesExact
  <2> SUFFICES ASSUME IndInv PROVE WatchesExact
    OBVIOUS
  <2>0. Types /\ Watches
    BY DEF IndInv
  <2>1. /\ \A v \in Watchers : TasksKnown(v) /\ WatchKept(v) /\ \A u \in Watchers : OneWatcher(u, v)
        /\ \A e \in Events : \A w \in ToSet(waiters_[e]) : WaiterKnown(e, w)
    BY <2>0 DEF Watches
  <2>2. ASSUME NEW v \in Watchers, watcher[v].flag \notin set \cup {Nobody},
               NEW e \in Events, NEW w \in ToSet(waiters_[e]), w.tag = watcher[v].flag
        PROVE  e = watcher[v].kernel /\ watcher[v].flag \notin ToSet(tasks[v])
    <3>1. watcher[v].flag \in Flags
      BY <2>0, <2>2 DEF Types, WatcherStates
    <3>2. IsAsync(w) /\ WaiterKnown(e, w)
      BY <2>0, <2>1, <2>2, <3>1, ListedAsync
    <3>3. PICK u \in Watchers : watcher[u] = [flag |-> w.tag, kernel |-> e, waiter |-> w.ptr]
      BY <3>2 DEF WaiterKnown
    <3>4. watcher[u].flag = watcher[v].flag /\ watcher[u].kernel = e
      BY <2>2, <3>3
    <3>5. u = v
      BY <2>1, <2>2, <3>4 DEF OneWatcher
    <3> QED
      BY <2>2, <3>2, <3>4, <3>5 DEF WaiterKnown
  <2>3. ActiveWatchIsKept
    <3>1. SUFFICES ASSUME NEW v \in Watchers, watcher[v].flag \notin set \cup {Nobody}
                   PROVE  LET flag == watcher[v].flag
                              listed == {e \in Events : \E w \in ToSet(waiters_[e]) : w.tag = flag}
                          IN IF flag \in ToSet(tasks[v]) THEN listed = {}
                             ELSE listed = {watcher[v].kernel}
      BY DEF ActiveWatchIsKept
    <3> DEFINE flag == watcher[v].flag
               listed == {e \in Events : \E w \in ToSet(waiters_[e]) : w.tag = flag}
    <3>2. CASE flag \in ToSet(tasks[v])
      BY <2>2, <3>1, <3>2
    <3>3. CASE flag \notin ToSet(tasks[v])
      <4>1. /\ watcher[v].kernel \in Events
            /\ AsyncWaiter(watcher[v].waiter, flag) \in ToSet(waiters_[watcher[v].kernel])
        BY <2>1, <3>1, <3>3 DEF WatchKept
      <4>2. AsyncWaiter(watcher[v].waiter, flag).tag = flag
        BY DEF AsyncWaiter
      <4>3. watcher[v].kernel \in listed
        BY <4>1, <4>2
      <4> QED
        BY <2>2, <3>1, <3>3, <4>3
    <3> QED
      BY <3>2, <3>3
  <2>4. NoCallbackAfterStop
    <3>1. ASSUME NEW e \in Events, NEW w \in ToSet(waiters_[e]), IsAsync(w)
          PROVE  \E v \in Watchers : watcher[v].flag = w.tag /\ w.tag \notin set
      <4>1. WaiterKnown(e, w)
        BY <2>1
      <4>2. PICK v \in Watchers : watcher[v] = [flag |-> w.tag, kernel |-> e, waiter |-> w.ptr]
        BY <3>1, <4>1 DEF WaiterKnown
      <4> QED
        BY <3>1, <4>1, <4>2 DEF WaiterKnown
    <3> QED
      BY <2>1, <3>1 DEF NoCallbackAfterStop, TasksKnown
  <2> QED
    BY <2>3, <2>4 DEF WatchesExact
<1> QED
  BY <1>1, Invariance, PTL

\* Threads in WaitMany() never wait for each other's kernel locks in a circle: among any of them
\* the one that waits for the lock with the highest address waits for none of the others.
THEOREM NoCircle == Spec => []NoCircularWait
<1>1. IndInv => NoCircularWait
  <2> SUFFICES ASSUME IndInv, NEW S \in SUBSET Threads, S # {},
                      \A t \in S : \E u \in S : WaitsFor(t, u)
               PROVE  FALSE
    BY DEF NoCircularWait
  <2>0. Types /\ Locks
    BY DEF IndInv
  <2> DEFINE above(t) == {e \in Events : Address[NextToLock(t)] < Address[e]}
             M == {Cardinality(above(t)) : t \in S}
  <2>1. ASSUME NEW t \in S PROVE IsFiniteSet(above(t)) /\ Cardinality(above(t)) \in Nat
    <3>1. IsFiniteSet(above(t))
      BY Parameters, FS_Subset
    <3> QED
      BY <3>1, FS_CardinalityType
  <2>2. PICK t \in S : \A u \in S : Cardinality(above(t)) <= Cardinality(above(u))
    <3>1. M \subseteq Nat /\ M # {}
      BY <2>1
    <3>2. PICK x \in M : \A y \in M : x <= y
      BY <3>1, LeastNatural
    <3>3. PICK t \in S : x = Cardinality(above(t))
      BY <3>2
    <3>4. \A u \in S : Cardinality(above(u)) \in M
      OBVIOUS
    <3>5. \A u \in S : x <= Cardinality(above(u))
      BY <3>2, <3>4
    <3> QED
      BY <3>3, <3>5
  <2>3. ASSUME NEW u \in S PROVE thread[u].pc = "enqueue" /\ NotLocked(u) # {} /\ LocksInOrder(u)
    <3>1. thread[u].pc = "enqueue"
      BY DEF WaitsFor
    <3> QED
      BY <2>0, <3>1 DEF Locks, LocksOf, LocksInOrder
  <2>4. ASSUME NEW u \in S PROVE NextToLock(u) \in NotLocked(u) /\ NextToLock(u) \in Events
    BY <2>0, <2>3, NextToLockIsMin
  <2>5. PICK u \in S : lock[NextToLock(t)] = u
    BY DEF WaitsFor, Holds
  <2>6. Address[NextToLock(t)] < Address[NextToLock(u)]
    BY <2>3, <2>4, <2>5 DEF LocksInOrder
  <2>7. Address[NextToLock(t)] \in Nat /\ Address[NextToLock(u)] \in Nat /\ \A e \in Events : Address[e] \in Nat
    BY <2>4, Constants
  <2>8. above(u) \subseteq above(t)
    BY <2>6, <2>7
  <2>9. NextToLock(u) \in above(t) /\ NextToLock(u) \notin above(u)
    BY <2>4, <2>6, <2>7
  <2>10. above(u) # above(t)
    BY <2>9
  <2> HIDE DEF above
  <2>11. Cardinality(above(u)) <= Cardinality(above(t)) /\ Cardinality(above(u)) # Cardinality(above(t))
    BY <2>1, <2>8, <2>10, FS_Subset
  <2> QED
    BY <2>1, <2>2, <2>11
<1> QED
  BY <1>1, Invariance, PTL
=============================================================================
