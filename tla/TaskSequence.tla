---------------------------- MODULE TaskSequence ----------------------------
(***************************************************************************)
(* base/task/thread_pool/sequence.cc: a Sequence is the TaskSource that    *)
(* holds the tasks of one sequenced task runner (or the single task of a   *)
(* parallel post).  Its state is one record:                               *)
(*   queue         queue_, the tasks in posting order                      *)
(*   has_worker    has_worker_, some thread is between WillRunTask() and   *)
(*                 DidProcessTask()                                        *)
(*   runner_refs   the references the Sequence itself holds on its         *)
(*                 task_runner() (AddRef in PushTask, Release in           *)
(*                 DidProcessTask or Clear)                                *)
(* The operators are the methods of the class as functions from the state  *)
(* before to the state after; the locking around them (TaskSource::lock_)  *)
(* belongs to the modules that use them.                                   *)
(***************************************************************************)
EXTENDS Integers, Sequences

EmptySequence == [queue |-> <<>>, has_worker |-> FALSE, runner_refs |-> 0]

(* Sequence::Transaction::WillPushTask: the caller must (register and)     *)
(* queue the Sequence.                                                     *)
WillPushTask_IgnoreWorker(q) == q.queue = <<>>
WillPushTask(q) == q.queue = <<>> /\ ~q.has_worker

PushTask(q, task) ==
  [q EXCEPT !.queue = Append(@, task),
            !.runner_refs = IF WillPushTask(q) THEN @ + 1 ELSE @]

(* Sequence::WillRunTask always answers kAllowedSaturated, so the caller   *)
(* pops the Sequence from its priority queue.                              *)
WillRunTask(q) == [q EXCEPT !.has_worker = TRUE]

TakeTask(q) == [q EXCEPT !.queue = Tail(@)]

(* Sequence::DidProcessTask; MustReenqueue is its return value.            *)
MustReenqueue(q) == q.queue # <<>>

DidProcessTask(q) ==
  [q EXCEPT !.has_worker = FALSE,
            !.runner_refs = IF MustReenqueue(q) THEN @ ELSE @ - 1]

(* Sequence::Clear moves every task into the closure that destroys them.   *)
Clear(q) ==
  [q EXCEPT !.queue = <<>>,
            !.runner_refs = IF q.queue # <<>> /\ ~q.has_worker THEN @ - 1 ELSE @]
=============================================================================
