--------------------------- MODULE WaitableEvent ---------------------------
(***************************************************************************)
(* The POSIX WaitableEvent: wait-lists, timed waits, waits on many events  *)
(* and WaitableEventWatcher's asynchronous waits                           *)
(* (src/base/synchronization/waitable_event{,_watcher}_posix.cc).          *)
(*                                                                         *)
(* A step is one critical section of a kernel's lock_ or of a SyncWaiter's *)
(* lock_. Signal() and EnqueueMany() take other locks while they hold a    *)
(* kernel's lock_, so they are several steps and `lock' says who holds it. *)
(*                                                                         *)
(* A definition named D_Suffix is a faulty variant of the definition D     *)
(* that follows it; no specification uses it.                              *)
(***************************************************************************)
EXTENDS Integers, Sequences, FiniteSets, SequencesExt

CONSTANTS
  Events, Manual,   \* Manual: the events with ResetPolicy::MANUAL
  Address,          \* [Events -> Nat], what WaitMany() sorts by
  Threads,          \* threads that signal, reset and wait
  Arrays,           \* the arrays WaitMany() is called with
  Watchers,         \* WaitableEventWatchers, each on a sequence of its own
  Pointers, Flags,  \* where AsyncWaiters and Flags are allocated
  Nobody            \* no thread, no event, no pointer

ASSUME Parameters ==
  /\ Manual \subseteq Events /\ Address \in [Events -> Nat]
  /\ \A d, e \in Events : Address[d] = Address[e] => d = e
  /\ IsFiniteSet(Events) /\ IsFiniteSet(Threads)
  /\ \A events \in Arrays : events \in Seq(Events) /\ events # <<>> /\ IsInjective(events)
  /\ Threads \cap (Pointers \cup Flags) = {}
  /\ Nobody \notin UNION {Threads, Events, Pointers, Flags}

VARIABLES
  signaled_, waiters_,  \* the kernels
  lock,                 \* the thread that holds a kernel's lock_ between steps
  thread,               \* the call each thread is in, and its SyncWaiter
  watcher,              \* WaitableEventWatcher: cancel_flag_, kernel_ and waiter_
  set,                  \* the Flags whose value is true
  tasks,                \* AsyncCallbackHelper tasks posted to a watcher's sequence: their Flags
  owed                  \* history: how many signals of an auto-reset event are not yet consumed

kernels == <<signaled_, waiters_, lock>>
watching == <<watcher, set, tasks>>
vars == <<kernels, thread, watching, owed>>

(***************************************************************************)
(* Wait-lists. A waiter is known by its address and a tag: the address     *)
(* again for a SyncWaiter, the Flag for an AsyncWaiter.                    *)
(***************************************************************************)
SyncWaiter(t) == [ptr |-> t, tag |-> t]
AsyncWaiter(p, flag) == [ptr |-> p, tag |-> flag]
IsAsync(w) == w.ptr \in Pointers
SameWaiter_IgnoresTag(w, ptr, tag) == w.ptr = ptr
SameWaiter(w, ptr, tag) == w.ptr = ptr /\ w.tag = tag
Places(list, ptr, tag) == {i \in 1..Len(list) : SameWaiter(list[i], ptr, tag)}
Listed(list, ptr, tag) == Places(list, ptr, tag) # {}
Dequeue(list, ptr, tag) ==
  IF Listed(list, ptr, tag) THEN RemoveAt(list, Min(Places(list, ptr, tag))) ELSE list

Unlocked(e) == lock[e] = Nobody
AutoReset(e) == e \notin Manual

\* A caller finds the event signaled: an auto-reset event is reset.
Consume(e) ==
  /\ signaled_' = [signaled_ EXCEPT ![e] = e \in Manual]
  /\ owed' = [owed EXCEPT ![e] = IF AutoReset(e) THEN @ - 1 ELSE @]

(***************************************************************************)
(* Calls of the threads.                                                   *)
(***************************************************************************)
\* events: the caller's array; fired, event: the SyncWaiter's fired_ and signaling_event_;
\* result: TimedWait()'s return_value; during: the thread whose Signal() fired the SyncWaiter, as
\* long as that call goes on.
Idle == [pc |-> "idle", events |-> <<>>, many |-> FALSE, timed |-> FALSE, i |-> 0,
         fired |-> FALSE, event |-> Nobody, result |-> FALSE, during |-> Nobody]

Call(t) == thread[t].pc = "idle"

\* The end of t's Signal().
Signaled(t) ==
  [u \in Threads |-> IF u = t THEN Idle
                     ELSE [thread[u] EXCEPT !.during = IF @ = t THEN Nobody ELSE @]]

Reset(t, e) ==
  /\ Call(t) /\ Unlocked(e)
  /\ signaled_' = [signaled_ EXCEPT ![e] = FALSE]
  /\ owed' = [owed EXCEPT ![e] = IF signaled_[e] /\ AutoReset(e) THEN @ - 1 ELSE @]
  /\ UNCHANGED <<waiters_, lock, thread, watching>>

IsSignaled(t, e) ==
  /\ Call(t) /\ Unlocked(e)
  /\ IF signaled_[e] THEN Consume(e) ELSE UNCHANGED <<signaled_, owed>>
  /\ UNCHANGED <<waiters_, lock, thread, watching>>

\* Signal() takes the lock and, unless the event is signaled already, goes on to wake waiters.
Signal(t, e) ==
  /\ Call(t) /\ Unlocked(e)
  /\ IF signaled_[e] THEN UNCHANGED <<lock, thread, owed>>
     ELSE /\ lock' = [lock EXCEPT ![e] = t]
          /\ thread' = [thread EXCEPT ![t] = [Idle EXCEPT !.pc = "signal", !.events = <<e>>]]
          /\ owed' = [owed EXCEPT ![e] = IF AutoReset(e) THEN @ + 1 ELSE @]
  /\ UNCHANGED <<signaled_, waiters_, watching>>

\* Waiter::Fire(): a SyncWaiter rejects a second signal, an AsyncWaiter posts its task and
\* deletes itself.
Fire(w) == IsAsync(w) \/ ~thread[w.ptr].fired

\* One round of SignalOne() or SignalAll(), the waiters served from the front. Only the
\* SyncWaiter's own lock_ is released: it may wake up while the kernel's is still held.
SignalWaiter(t) ==
  LET e == thread[t].events[1]
      w == waiters_[e][1]
      after == IF AutoReset(e) /\ Fire(w) THEN [thread EXCEPT ![t].pc = "signaled"] ELSE thread
  IN
  /\ thread[t].pc = "signal" /\ waiters_[e] # <<>>
  /\ waiters_' = [waiters_ EXCEPT ![e] = Tail(@)]
  /\ thread' = IF IsAsync(w) \/ ~Fire(w) THEN after
               ELSE [after EXCEPT ![w.ptr] = [@ EXCEPT !.fired = TRUE, !.event = e,
                                                       !.during = t]]
  /\ tasks' = [v \in Watchers |->
                 IF IsAsync(w) /\ watcher[v].flag = w.tag /\ w.tag \notin set
                 THEN Append(tasks[v], w.tag) ELSE tasks[v]]
  /\ owed' = [owed EXCEPT ![e] = IF AutoReset(e) /\ IsAsync(w) THEN @ - 1 ELSE @]
  /\ UNCHANGED <<signaled_, lock, watcher, set>>

\* The Signal() that handed an auto-reset event to a waiter releases the kernel's lock_.
SignalOneEnd(t) ==
  /\ thread[t].pc = "signaled"
  /\ lock' = [lock EXCEPT ![thread[t].events[1]] = Nobody]
  /\ thread' = Signaled(t)
  /\ UNCHANGED <<signaled_, waiters_, watching, owed>>

\* No waiter is left: the event stays signaled.
SignalEnd_WakesNobody(t) ==
  LET e == thread[t].events[1] IN
  /\ thread[t].pc = "signal" /\ (waiters_[e] = <<>> \/ e \in Manual)
  /\ signaled_' = [signaled_ EXCEPT ![e] = TRUE]
  /\ lock' = [lock EXCEPT ![e] = Nobody]
  /\ thread' = Signaled(t)
  /\ UNCHANGED <<waiters_, watching, owed>>
SignalEnd(t) ==
  LET e == thread[t].events[1] IN
  /\ thread[t].pc = "signal" /\ waiters_[e] = <<>>
  /\ signaled_' = [signaled_ EXCEPT ![e] = TRUE]
  /\ lock' = [lock EXCEPT ![e] = Nobody]
  /\ thread' = Signaled(t)
  /\ UNCHANGED <<waiters_, watching, owed>>

\* Wait() (timed = FALSE) or TimedWait(): return at once, or enqueue a SyncWaiter.
Wait(t, e, timed) ==
  /\ Call(t) /\ Unlocked(e)
  /\ IF signaled_[e]
     THEN Consume(e) /\ UNCHANGED <<waiters_, thread>>
     ELSE /\ waiters_' = [waiters_ EXCEPT ![e] = Append(@, SyncWaiter(t))]
          /\ thread' = [thread EXCEPT ![t] = [Idle EXCEPT !.pc = "cv", !.events = <<e>>,
                                                          !.timed = timed]]
          /\ UNCHANGED <<signaled_, owed>>
  /\ UNCHANGED <<lock, watching>>

(***************************************************************************)
(* WaitMany().                                                             *)
(***************************************************************************)
WaitMany(t, events) ==
  /\ Call(t)
  /\ thread' = [thread EXCEPT ![t] = [Idle EXCEPT !.pc = "enqueue", !.events = events,
                                                  !.many = TRUE]]
  /\ UNCHANGED <<kernels, watching, owed>>

Holds(t, e) == lock[e] = t
Unlock(t) == lock' = [e \in Events |-> IF Holds(t, e) THEN Nobody ELSE lock[e]]

\* The events whose lock EnqueueMany() has still to take, and the next of them: the array is
\* sorted by address.
NotLocked(t) == {e \in ToSet(thread[t].events) : ~Holds(t, e)}
NextToLock_CallersOrder(t) ==
  LET events == thread[t].events
  IN  events[Min({i \in 1..Len(events) : events[i] \in NotLocked(t)})]
NextToLock(t) == CHOOSE e \in NotLocked(t) : \A d \in NotLocked(t) : Address[e] <= Address[d]

\* EnqueueMany() takes the locks one by one; all but the last.
EnqueueManyLocks(t) ==
  /\ thread[t].pc = "enqueue" /\ NotLocked(t) # {NextToLock(t)} /\ Unlocked(NextToLock(t))
  /\ lock' = [lock EXCEPT ![NextToLock(t)] = t]
  /\ UNCHANGED <<signaled_, waiters_, thread, watching, owed>>

\* With the last lock taken: the signaled event with the lowest index wins, or the SyncWaiter
\* is enqueued on every event; then all locks are released.
EnqueueMany(t) ==
  LET events == thread[t].events
      winners == {i \in 1..Len(events) : signaled_[events[i]]}
  IN
  /\ thread[t].pc = "enqueue" /\ NotLocked(t) = {NextToLock(t)} /\ Unlocked(NextToLock(t))
  /\ Unlock(t)
  /\ IF winners # {}
     THEN /\ Consume(events[Min(winners)])
          /\ thread' = [thread EXCEPT ![t] = Idle]
          /\ UNCHANGED waiters_
     ELSE /\ waiters_' = [e \in Events |-> IF e \in ToSet(events)
                                           THEN Append(waiters_[e], SyncWaiter(t)) ELSE waiters_[e]]
          /\ thread' = [thread EXCEPT ![t].pc = "cv"]
          /\ UNCHANGED <<signaled_, owed>>
  /\ UNCHANGED watching

(***************************************************************************)
(* The end of a wait.                                                      *)
(***************************************************************************)
\* The condition variable wakes up a fired waiter, or the time is over. Disable() makes the
\* waiter reject signals from here on.
WakeUp_NoDisable(t) ==
  /\ thread[t].pc = "cv" /\ (thread[t].fired \/ thread[t].timed)
  /\ thread' = [thread EXCEPT ![t] = [@ EXCEPT !.pc = "dequeue", !.i = 1,
                                               !.result = thread[t].fired]]
  /\ UNCHANGED <<kernels, watching, owed>>
WakeUp(t) ==
  /\ thread[t].pc = "cv" /\ (thread[t].fired \/ thread[t].timed)
  /\ thread' = [thread EXCEPT ![t] = [@ EXCEPT !.pc = "dequeue", !.i = 1, !.fired = TRUE,
                                               !.result = thread[t].fired]]
  /\ UNCHANGED <<kernels, watching, owed>>

\* The wait returns; it consumes the signal of the event that fired it.
Return(t) ==
  LET e == thread[t].event IN
  /\ thread' = [thread EXCEPT ![t] = [Idle EXCEPT !.during = thread[t].during]]
  /\ owed' = IF thread[t].result /\ AutoReset(e) THEN [owed EXCEPT ![e] = @ - 1] ELSE owed

\* Take each kernel's lock in turn and leave its wait-list; the lock of the event that fired
\* is taken as well, so that its Signal() is over.
LeaveWaitList_SkipsFired(t) ==
  LET e == thread[t].events[thread[t].i]
      last == thread[t].i = Len(thread[t].events)
  IN
  /\ thread[t].pc = "dequeue" /\ (Unlocked(e) \/ e = thread[t].event)
  /\ waiters_' = IF e = thread[t].event THEN waiters_
                 ELSE [waiters_ EXCEPT ![e] = Dequeue(@, t, t)]
  /\ IF last THEN Return(t)
     ELSE thread' = [thread EXCEPT ![t].i = @ + 1] /\ UNCHANGED owed
  /\ UNCHANGED <<signaled_, lock, watching>>
LeaveWaitList(t) ==
  LET e == thread[t].events[thread[t].i]
      last == thread[t].i = Len(thread[t].events)
  IN
  /\ thread[t].pc = "dequeue" /\ Unlocked(e)
  /\ waiters_' = IF thread[t].many /\ e = thread[t].event THEN waiters_
                 ELSE [waiters_ EXCEPT ![e] = Dequeue(@, t, t)]
  /\ IF last THEN Return(t)
     ELSE thread' = [thread EXCEPT ![t].i = @ + 1] /\ UNCHANGED owed
  /\ UNCHANGED <<signaled_, lock, watching>>

(***************************************************************************)
(* WaitableEventWatcher, on the sequence of watcher v.                     *)
(***************************************************************************)
PointersInUse == {w.ptr : w \in UNION {ToSet(waiters_[e]) : e \in Events}}

\* A Flag is shared by the watcher, the AsyncWaiter and the task, and lives as long as one.
Referenced(flag) ==
  \/ \E e \in Events : \E w \in ToSet(waiters_[e]) : w.tag = flag
  \/ \E v \in Watchers : watcher[v].flag = flag \/ flag \in ToSet(tasks[v])

\* Called when no watch is active (a DCHECK). A signaled event only posts the task.
StartWatching(v, e) ==
  /\ watcher[v].flag \in set \cup {Nobody} /\ Unlocked(e)
  /\ \E flag \in Flags :
       /\ ~Referenced(flag)
       /\ set' = set \ {flag}
       /\ IF signaled_[e]
          THEN /\ Consume(e)
               /\ tasks' = [tasks EXCEPT ![v] = Append(@, flag)]
               /\ watcher' = [watcher EXCEPT ![v].flag = flag]
               /\ UNCHANGED waiters_
          ELSE /\ \E p \in Pointers \ PointersInUse :
                    /\ waiters_' = [waiters_ EXCEPT ![e] = Append(@, AsyncWaiter(p, flag))]
                    /\ watcher' = [watcher EXCEPT ![v] = [flag |-> flag, kernel |-> e, waiter |-> p]]
               /\ UNCHANGED <<signaled_, owed, tasks>>
  /\ UNCHANGED <<lock, thread>>

\* The four cases of StopWatching(): the callback ran, no waiter was enqueued, the waiter is
\* still on the list, or it was signaled. kernel_ and waiter_ may be of an earlier watch.
StopWatching(v) ==
  LET me == watcher[v]
      listed == me.kernel # Nobody /\ Listed(waiters_[me.kernel], me.waiter, me.flag)
  IN
  /\ me.flag # Nobody
  /\ me.flag \notin set /\ me.kernel # Nobody => Unlocked(me.kernel)
  /\ watcher' = [watcher EXCEPT ![v].flag = Nobody]
  /\ waiters_' = IF me.flag \notin set /\ listed
                 THEN [waiters_ EXCEPT ![me.kernel] = Dequeue(@, me.waiter, me.flag)]
                 ELSE waiters_
  /\ set' = IF listed THEN set ELSE set \cup {me.flag}
  /\ UNCHANGED <<signaled_, lock, thread, tasks, owed>>

\* The callback runs unless the Flag is set, and may start the next watch.
AsyncCallbackHelper(v) ==
  /\ tasks[v] # <<>>
  /\ tasks' = [tasks EXCEPT ![v] = Tail(@)]
  /\ set' = set \cup {Head(tasks[v])}
  /\ UNCHANGED <<kernels, thread, watcher, owed>>

(***************************************************************************)
(* The specification.                                                      *)
(***************************************************************************)
Init ==
  /\ signaled_ \in [Events -> BOOLEAN] /\ waiters_ = [e \in Events |-> <<>>]
  /\ lock = [e \in Events |-> Nobody]
  /\ thread = [t \in Threads |-> Idle]
  /\ watcher = [v \in Watchers |-> [flag |-> Nobody, kernel |-> Nobody, waiter |-> Nobody]]
  /\ set = {} /\ tasks = [v \in Watchers |-> <<>>] 
  /\ owed = [e \in Events |-> IF signaled_[e] /\ AutoReset(e) THEN 1 ELSE 0]

Calls(t) ==
  \/ \E e \in Events : \/ Reset(t, e) \/ IsSignaled(t, e) \/ Signal(t, e)
                       \/ \E timed \in BOOLEAN : Wait(t, e, timed)
  \/ \E events \in Arrays : WaitMany(t, events)

\* What a thread does inside a call.
Steps(t) ==
  \/ SignalWaiter(t) \/ SignalOneEnd(t) \/ SignalEnd(t)
  \/ EnqueueManyLocks(t) \/ EnqueueMany(t) \/ WakeUp(t) \/ LeaveWaitList(t)

Next ==
  \/ \E t \in Threads : Calls(t) \/ Steps(t)
  \/ \E v \in Watchers : \/ \E e \in Events : StartWatching(v, e)
                         \/ StopWatching(v) \/ AsyncCallbackHelper(v)

Spec == Init /\ [][Next]_vars

(***************************************************************************)
(* Properties.                                                             *)
(***************************************************************************)
Pcs == {"idle", "signal", "signaled", "enqueue", "cv", "dequeue"}
Waiters == {SyncWaiter(t) : t \in Threads}
           \cup {AsyncWaiter(p, flag) : p \in Pointers, flag \in Flags}

\* Every piece of the state has its type, and a wait-list names a waiter at most once.
TypeOK ==
  /\ signaled_ \in [Events -> BOOLEAN]
  /\ \A e \in Events : ToSet(waiters_[e]) \subseteq Waiters /\ IsInjective(waiters_[e])
  /\ lock \in [Events -> Threads \cup {Nobody}]
  /\ \A t \in Threads : thread[t].pc \in Pcs
  /\ set \subseteq Flags
  /\ \A v \in Watchers : watcher[v].flag \in Flags \cup {Nobody} /\ ToSet(tasks[v]) \subseteq Flags

\* A signal of an auto-reset event is consumed exactly once: every Signal() that found the
\* event unsignaled is still in signaled_, was handed to one waiter that will return true, or
\* was consumed; a timeout that races with it (TimedWait()) or a second event that fires the
\* same WaitMany() loses none.
SignalsConserved ==
  \A e \in Events : AutoReset(e) /\ Unlocked(e) =>
    owed[e] = (IF signaled_[e] THEN 1 ELSE 0)
              + Cardinality({t \in Threads : /\ \/ thread[t].pc = "cv" /\ thread[t].fired
                                                \/ thread[t].pc = "dequeue" /\ thread[t].result
                                             /\ thread[t].event = e})

\* Nobody waits on a signaled event; and a thread that sleeps unfired is on the list of every
\* event it waits for, so that any of them can wake it up.
NobodySleepsOnSignaledEvent ==
  /\ \A e \in Events : signaled_[e] => waiters_[e] = <<>>
  /\ \A t \in Threads : thread[t].pc = "cv" /\ ~thread[t].fired =>
       \A e \in ToSet(thread[t].events) : Listed(waiters_[e], t, t)

\* A SyncWaiter lives on the stack of its thread: no wait-list names it once the wait returned.
NoWaiterOutlivesItsWait ==
  \A t \in Threads : thread[t].pc \in {"idle", "signal", "signaled"} =>
    \A e \in Events : ~Listed(waiters_[e], t, t)

\* A wait-list holds exactly the waiters that a Signal() must find: none of a signaled event,
\* every sleeping one, none whose wait is over.
WaitListsExact == TypeOK /\ NobodySleepsOnSignaledEvent /\ NoWaiterOutlivesItsWait

\* A wait returns after the Signal() that ended it has completed, so that the waiter may
\* delete the event (waitable_event.h:89-97).
ReturnsAfterSignal == \A t \in Threads : thread[t].pc = "idle" => thread[t].during = Nobody

\* An active watch is on its event's wait-list or has its task posted, never both and never
\* neither: no other watcher's StopWatching() removes a waiter allocated at the same address.
ActiveWatchIsKept ==
  \A v \in Watchers : watcher[v].flag \notin set \cup {Nobody} =>
    LET flag == watcher[v].flag
        listed == {e \in Events : \E w \in ToSet(waiters_[e]) : w.tag = flag}
    IN IF flag \in ToSet(tasks[v]) THEN listed = {} ELSE listed = {watcher[v].kernel}

\* After StopWatching() the callback of that watch is not run: its AsyncWaiter is gone, and
\* the Flag of a task that was posted before is set (waitable_event_watcher_posix.cc:24-28).
NoCallbackAfterStop ==
  /\ \A v \in Watchers : \A flag \in ToSet(tasks[v]) : flag = watcher[v].flag \/ flag \in set
  /\ \A e \in Events : \A w \in ToSet(waiters_[e]) :
       IsAsync(w) => \E v \in Watchers : watcher[v].flag = w.tag /\ w.tag \notin set

\* A watcher calls back exactly for the watch that is active.
WatchesExact == ActiveWatchIsKept /\ NoCallbackAfterStop

\* The lock that t waits for in EnqueueMany().
WaitsFor(t, u) == thread[t].pc = "enqueue" /\ Holds(u, NextToLock(t))

\* Threads that lock several events in WaitMany() never wait for each other in a circle.
NoCircularWait ==
  \A S \in SUBSET Threads : S # {} => \E t \in S : \A u \in S : ~WaitsFor(t, u)
=============================================================================
