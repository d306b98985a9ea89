------------------------ MODULE ThreadPoolImplProofs ------------------------
(***************************************************************************)
(* Machine-checked proofs about ThreadPoolImpl: a task source is in at     *)
(* most one priority queue, in the group and under the key its traits ask  *)
(* for, and each of its RegisteredTaskSources is in a queue or in the      *)
(* hands of one thread, for any number of threads, sources, posts and      *)
(* updates of priorities.                                                  *)
(***************************************************************************)
EXTENDS ThreadPoolImpl, FiniteSetTheorems, TLAPS

Pcs == {"idle", "enqueue", "push", "sort", "remove", "join", "run", "task", "did", "reenqueue",
        "locked"}
LockPcs == {"push", "sort", "remove", "join", "locked"}
HolderPcs == {"enqueue", "push", "run", "task", "did", "reenqueue", "locked"}

\* TypeOK without the sign of what Accounting counts.
Types ==
  /\ queue \in [Groups -> [Sources -> Seq(Priorities)]]
  /\ handle \subseteq Sources
  /\ priority \in [Sources -> Priorities]
  /\ lock \in [Sources -> Threads \cup {None}]
  /\ registered \in [Sources -> Int] /\ pending \in [Sources -> Nat] /\ count \in [Sources -> Int]
  /\ canceled \subseteq JobIds /\ joined \subseteq JobIds
  /\ shutdown \in BOOLEAN
  /\ pc \in [Threads -> Pcs] /\ src \in [Threads -> Sources \cup {None}]
  /\ posts \in 0..MaxPosts /\ updates \in 0..MaxUpdates

\* A Transaction is open exactly while its thread is at a place that holds it.
Control ==
  /\ \A t \in Threads :
       /\ src[t] = None <=> pc[t] = "idle"
       /\ pc[t] \in LockPcs => lock[src[t]] = t
       /\ pc[t] \in {"enqueue", "task", "join"} => src[t] \in JobIds
  /\ \A s \in Sources :
       lock[s] # None => src[lock[s]] = s /\ pc[lock[s]] \in LockPcs

\* A source has one node if its heap handle is valid and none otherwise.
Shape ==
  \A s \in Sources :
    /\ s \notin handle => \A g \in Groups : queue[g][s] = <<>>
    /\ s \in handle => \E g \in Groups, k \in Priorities :
         queue[g][s] = <<k>> /\ \A h \in Groups : h # g => queue[h][s] = <<>>

\* Where the node is, also in the middle of UpdatePriority().
PlaceOf(s) ==
  LET g == GetThreadGroupForTraits(s) IN
  IF Unlocked(s) \/ pc[lock[s]] \notin {"sort", "remove"} THEN queue[g][s] = <<priority[s]>>
  ELSE IF pc[lock[s]] = "sort" THEN queue[g][s] # <<>>
  ELSE queue[g][s] = <<>>

Place == \A s \in handle : PlaceOf(s)

Running(s) == {t \in Threads : src[t] = s /\ pc[t] \in {"run", "task", "did"}}

Accounting ==
  \A s \in Sources :
    /\ registered[s] = (IF s \in handle THEN 1 ELSE 0) + Cardinality(Holders(s))
    /\ count[s] = Cardinality(Running(s))

\* What the owner of a Sequence, or its absence, says of its tasks.
SequenceStates ==
  \A s \in SequenceIds :
    /\ registered[s] = IF pending[s] > 0 \/ count[s] > 0 THEN 1 ELSE 0
    /\ s \in handle => pending[s] > 0
    /\ \A t \in Threads : src[t] = s /\ pc[t] \in {"push", "run", "reenqueue", "locked"} =>
         pending[s] > 0

IndInv == Types /\ Control /\ Shape /\ Place /\ Accounting /\ SequenceStates

-----------------------------------------------------------------------------
(***************************************************************************)
(* Sets of threads and nodes of the queues.                                *)
(***************************************************************************)

\* A set of which one element may come or go.
LEMMA CardStep ==
  ASSUME NEW S, NEW T, NEW t, IsFiniteSet(S), \A u : u # t => (u \in T <=> u \in S)
  PROVE  /\ IsFiniteSet(T) /\ Cardinality(S) \in Nat /\ Cardinality(T) \in Nat
         /\ Cardinality(T) = Cardinality(S) + (IF t \in T THEN 1 ELSE 0)
                                            - (IF t \in S THEN 1 ELSE 0)
<1>1. Cardinality(S) \in Nat
  BY FS_CardinalityType
<1>2. CASE t \in T /\ t \notin S
  <2>1. T = S \cup {t}
    BY <1>2
  <2>2. IsFiniteSet(T) /\ Cardinality(T) = Cardinality(S) + 1
    BY <1>2, <2>1, FS_AddElement
  <2> QED
    BY <1>1, <1>2, <2>2
<1>3. CASE t \notin T /\ t \in S
  <2>1. T = S \ {t}
    BY <1>3
  <2>2. IsFiniteSet(T) /\ Cardinality(T) = Cardinality(S) - 1
    BY <1>3, <2>1, FS_RemoveElement
  <2>3. Cardinality(T) \in Nat
    BY <2>2, FS_CardinalityType
  <2> QED
    BY <1>1, <1>3, <2>2, <2>3
<1>4. CASE t \in T <=> t \in S
  <2>1. T = S
    BY <1>4
  <2> QED
    BY <1>1, <1>4, <2>1
<1> QED
  BY <1>2, <1>3, <1>4

\* The places of the threads other than t do not change.
OnlyMoves(t) == \A u \in Threads : u # t => pc'[u] = pc[u] /\ src'[u] = src[u]

\* Then t alone comes to, or goes from, the holders and the workers of a source.
LEMMA HolderStep ==
  ASSUME NEW t \in Threads, OnlyMoves(t), NEW s
  PROVE  /\ Cardinality(Holders(s)) \in Nat /\ Cardinality(Running(s)) \in Nat
         /\ Cardinality(Holders(s)') \in Nat /\ Cardinality(Running(s)') \in Nat
         /\ Cardinality(Holders(s)') = Cardinality(Holders(s))
              + (IF src'[t] = s /\ pc'[t] \in HolderPcs THEN 1 ELSE 0)
              - (IF src[t] = s /\ pc[t] \in HolderPcs THEN 1 ELSE 0)
         /\ Cardinality(Running(s)') = Cardinality(Running(s))
              + (IF src'[t] = s /\ pc'[t] \in {"run", "task", "did"} THEN 1 ELSE 0)
              - (IF src[t] = s /\ pc[t] \in {"run", "task", "did"} THEN 1 ELSE 0)
<1>1. IsFiniteSet(Holders(s)) /\ IsFiniteSet(Running(s))
  BY ThreadsAssumption, FS_Subset DEF Holders, Running
<1>2. /\ \A u : u # t => (u \in Holders(s)' <=> u \in Holders(s))
      /\ \A u : u # t => (u \in Running(s)' <=> u \in Running(s))
  BY DEF OnlyMoves, Holders, Running
<1>3. /\ t \in Holders(s) <=> src[t] = s /\ pc[t] \in HolderPcs
      /\ t \in Holders(s)' <=> src'[t] = s /\ pc'[t] \in HolderPcs
      /\ t \in Running(s) <=> src[t] = s /\ pc[t] \in {"run", "task", "did"}
      /\ t \in Running(s)' <=> src'[t] = s /\ pc'[t] \in {"run", "task", "did"}
  BY DEF Holders, Running, HolderPcs
<1>4. /\ Cardinality(Holders(s)) \in Nat /\ Cardinality(Holders(s)') \in Nat
      /\ Cardinality(Holders(s)') = Cardinality(Holders(s))
              + (IF t \in Holders(s)' THEN 1 ELSE 0) - (IF t \in Holders(s) THEN 1 ELSE 0)
  BY <1>1, <1>2, CardStep
<1>5. /\ Cardinality(Running(s)) \in Nat /\ Cardinality(Running(s)') \in Nat
      /\ Cardinality(Running(s)') = Cardinality(Running(s))
              + (IF t \in Running(s)' THEN 1 ELSE 0) - (IF t \in Running(s) THEN 1 ELSE 0)
  BY <1>1, <1>2, CardStep
<1> QED
  BY <1>3, <1>4, <1>5

\* A source with no holder and no node has no registration, and so on.
LEMMA HoldersEmpty ==
  ASSUME Types, NEW s
  PROVE  /\ Cardinality(Holders(s)) \in Nat /\ Cardinality(Running(s)) \in Nat
         /\ Cardinality(Holders(s)) = 0 =>
              /\ \A t \in Threads : ~(src[t] = s /\ pc[t] \in HolderPcs)
              /\ Cardinality(Running(s)) = 0
         /\ Cardinality(Holders(s)) = 1 =>
              \A t, u \in Threads :
                src[t] = s /\ pc[t] \in HolderPcs /\ src[u] = s /\ pc[u] \in HolderPcs => t = u
<1>1. IsFiniteSet(Holders(s)) /\ IsFiniteSet(Running(s))
  BY ThreadsAssumption, FS_Subset DEF Holders, Running
<1>2. \A t \in Threads : t \in Holders(s) <=> src[t] = s /\ pc[t] \in HolderPcs
  BY DEF Holders, HolderPcs
<1>3. Running(s) \subseteq Holders(s)
  BY DEF Running, Holders
<1>4. Cardinality(Holders(s)) = 0 => Holders(s) = {} /\ Cardinality(Running(s)) = 0
  BY <1>1, <1>3, FS_EmptySet
<1>5. Cardinality(Holders(s)) = 1 => \E t : Holders(s) = {t}
  BY <1>1, FS_Singleton
<1>6. Cardinality(Holders(s)) \in Nat /\ Cardinality(Running(s)) \in Nat
  BY <1>1, FS_CardinalityType
<1>7. Cardinality(Holders(s)) = 0 => \A t \in Threads : ~(src[t] = s /\ pc[t] \in HolderPcs)
  BY <1>2, <1>4
<1>8. Cardinality(Holders(s)) = 1 =>
        \A t, u \in Threads :
          src[t] = s /\ pc[t] \in HolderPcs /\ src[u] = s /\ pc[u] \in HolderPcs => t = u
  <2> SUFFICES ASSUME Cardinality(Holders(s)) = 1, NEW t \in Threads, NEW u \in Threads,
                      src[t] = s, pc[t] \in HolderPcs, src[u] = s, pc[u] \in HolderPcs
               PROVE  t = u
    OBVIOUS
  <2>1. PICK h : Holders(s) = {h}
    BY <1>5
  <2>2. t \in Holders(s) /\ u \in Holders(s)
    BY <1>2
  <2> QED
    BY <2>1, <2>2
<1> QED
  BY <1>4, <1>6, <1>7, <1>8

\* A thread goes on with its source, or becomes idle.
LEMMA GoPoints ==
  ASSUME Types, NEW t \in Threads, NEW place \in Pcs, Go(t, place)
  PROVE  /\ pc' \in [Threads -> Pcs] /\ src' \in [Threads -> Sources \cup {None}]
         /\ OnlyMoves(t) /\ pc'[t] = place
         /\ src'[t] = IF place = "idle" THEN None ELSE src[t]
BY DEF Go, Types, OnlyMoves

\* A thread begins to deal with a source.
LEMMA BeginPoints ==
  ASSUME Types, NEW t \in Threads, NEW s \in Sources, NEW place \in Pcs, Begin(t, s, place)
  PROVE  /\ pc' \in [Threads -> Pcs] /\ src' \in [Threads -> Sources \cup {None}]
         /\ OnlyMoves(t) /\ pc'[t] = place /\ src'[t] = s
BY DEF Begin, Types, OnlyMoves

\* The group a source belongs to, and the other one.
LEMMA GroupTypes ==
  /\ \A s : GetThreadGroupForTraits(s) \in Groups /\ \A p : GroupFor(s, p) \in Groups
  /\ \A g \in Groups : OtherGroup(g) \in Groups /\ OtherGroup(g) # g
  /\ \A g, h \in Groups : h # g => h = OtherGroup(g)
<1>1. \A s, p : GroupFor(s, p) \in Groups
  BY DEF GroupFor, Groups
<1>2. ASSUME NEW g \in Groups PROVE OtherGroup(g) \in Groups /\ OtherGroup(g) # g
  <2>1. \E h \in Groups : h # g
    BY DEF Groups
  <2> QED
    BY <2>1 DEF OtherGroup
<1>3. \A g, h \in Groups : h # g => h = OtherGroup(g)
  BY <1>2 DEF Groups
<1> QED
  BY <1>1, <1>2, <1>3 DEF GetThreadGroupForTraits

\* A sequence of one sort key.
LEMMA OneNode ==
  ASSUME NEW k \in Priorities
  PROVE  /\ <<k>> \in Seq(Priorities) /\ <<k>> # <<>> /\ Len(<<k>>) = 1
         /\ Tail(<<k>>) = <<>> /\ Append(<<>>, k) = <<k>> /\ <<>> \in Seq(Priorities)
OBVIOUS

\* Sources in a queue have a valid handle.
LEMMA QueuedHandle ==
  ASSUME Shape, NEW g \in Groups
  PROVE  Queued(g) \subseteq handle
BY DEF Shape, Queued

\* PriorityQueue::Push() of a source that is in no queue.
LEMMA InsertPoints ==
  ASSUME Types, Shape, NEW g \in Groups, NEW s \in Sources, s \notin handle, Insert(g, s)
  PROVE  /\ queue' \in [Groups -> [Sources -> Seq(Priorities)]]
         /\ queue'[g][s] = <<priority[s]>>
         /\ \A h \in Groups, r \in Sources : h # g \/ r # s => queue'[h][r] = queue[h][r]
         /\ handle' = handle \cup {s}
<1>1. queue[g][s] = <<>> /\ priority[s] \in Priorities
  BY DEF Shape, Types
<1>2. Append(queue[g][s], priority[s]) = <<priority[s]>>
  BY <1>1, OneNode
<1>3. <<priority[s]>> \in Seq(Priorities)
  BY <1>1, OneNode
<1>4. queue' = [queue EXCEPT ![g][s] = <<priority[s]>>] /\ handle' = handle \cup {s}
  BY <1>2 DEF Insert
<1> QED
  BY <1>3, <1>4 DEF Types

\* PriorityQueue::PopTaskSource() of sources that are in the queue.
LEMMA PopPoints ==
  ASSUME Types, Shape, NEW g \in Groups, NEW D, D \subseteq Queued(g), Pop(g, D)
  PROVE  /\ queue' \in [Groups -> [Sources -> Seq(Priorities)]]
         /\ \A h \in Groups, r \in Sources :
              queue'[h][r] = IF h = g /\ r \in D THEN <<>> ELSE queue[h][r]
         /\ handle' = handle \ D /\ D \subseteq handle
<1>1. D \subseteq handle /\ D \subseteq Sources
  BY QueuedHandle DEF Queued
<1>2. \A r \in D : Tail(queue[g][r]) = <<>>
  <2> SUFFICES ASSUME NEW r \in D PROVE Tail(queue[g][r]) = <<>>
    OBVIOUS
  <2>1. PICK h \in Groups, k \in Priorities :
          queue[h][r] = <<k>> /\ \A i \in Groups : i # h => queue[i][r] = <<>>
    BY <1>1 DEF Shape
  <2>2. h = g
    BY <2>1 DEF Queued
  <2> QED
    BY <2>1, <2>2, OneNode
<1> DEFINE f == [r \in Sources |-> IF r \in D THEN <<>> ELSE queue[g][r]]
<1>3. queue' = [queue EXCEPT ![g] = f] /\ handle' = handle \ D
  BY <1>2 DEF Pop, Types
<1>4. f \in [Sources -> Seq(Priorities)]
  BY DEF Types
<1>5. queue' \in [Groups -> [Sources -> Seq(Priorities)]]
  BY <1>3, <1>4 DEF Types
<1>6. \A r \in Sources : f[r] = IF r \in D THEN <<>> ELSE queue[g][r]
  OBVIOUS
<1> HIDE DEF f
<1>7. \A h \in Groups : queue'[h] = IF h = g THEN f ELSE queue[h]
  BY <1>3 DEF Types
<1> QED
  BY <1>1, <1>3, <1>5, <1>6, <1>7

\* What GetWork() takes from the queue of its group: some sources that may not run, and at
\* most one that runs on t; a Job that is not saturated stays.
Discarded(D, keep) ==
  registered' = [d \in Sources |-> registered[d] - (IF d \in D THEN 1 ELSE 0)
                                                 + (IF d = keep THEN 1 ELSE 0)]

LEMMA GetWorkPoints ==
  ASSUME Types, NEW t \in Workers, GetWork(t)
  PROVE  /\ pc[t] = "idle" /\ UNCHANGED <<priority, pending, canceled, joined, lock, envVars>>
         /\ \E D \in SUBSET Queued(GroupOf[t]) :
              /\ D \subseteq JobIds
              /\ \/ Pop(GroupOf[t], D) /\ Discarded(D, None) /\ UNCHANGED <<count, pc, src>>
                 \/ \E s \in Queued(GroupOf[t]) \ D :
                      /\ count' = [count EXCEPT ![s] = @ + 1] /\ Begin(t, s, "run")
                      /\ \/ Pop(GroupOf[t], D \cup {s}) /\ Discarded(D, None)
                         \/ s \in JobIds /\ Pop(GroupOf[t], D) /\ Discarded(D, s)
<1> DEFINE g == GroupOf[t]
<1>1. None \notin Sources
  BY ThreadsAssumption
<1>2. \A D : registered' = [d \in Sources |-> registered[d] - (IF d \in D THEN 1 ELSE 0)]
             => Discarded(D, None)
  BY <1>1 DEF Discarded, Types
<1>3. PICK D \in SUBSET {s \in Queued(g) : Disallowed(s)} :
        \/ /\ Pop(g, D)
           /\ registered' = [d \in Sources |-> registered[d] - (IF d \in D THEN 1 ELSE 0)]
           /\ UNCHANGED <<count, pc, src>>
        \/ \E s \in Queued(g) \ D :
             /\ TakeRegisteredTaskSource(g, s, D)
             /\ count' = [count EXCEPT ![s] = @ + 1]
             /\ Begin(t, s, "run")
  BY DEF GetWork
<1>4. D \subseteq JobIds /\ D \in SUBSET Queued(g)
  BY DEF Disallowed
<1>5. CASE /\ Pop(g, D)
           /\ registered' = [d \in Sources |-> registered[d] - (IF d \in D THEN 1 ELSE 0)]
           /\ UNCHANGED <<count, pc, src>>
  BY <1>2, <1>4, <1>5 DEF GetWork
<1>6. ASSUME NEW s \in Queued(g) \ D, TakeRegisteredTaskSource(g, s, D),
             count' = [count EXCEPT ![s] = @ + 1], Begin(t, s, "run")
      PROVE  \/ Pop(g, D \cup {s}) /\ Discarded(D, None)
             \/ s \in JobIds /\ Pop(g, D) /\ Discarded(D, s)
  <2>1. s \in Sources
    BY DEF Queued
  <2>2. CASE Saturated(s) \/ shutdown
    BY <1>2, <1>6, <2>2 DEF TakeRegisteredTaskSource
  <2>3. CASE ~(Saturated(s) \/ shutdown)
    BY <1>6, <2>1, <2>3 DEF TakeRegisteredTaskSource, Saturated, Sources, Discarded
  <2> QED
    BY <2>2, <2>3
<1> QED
  BY <1>3, <1>4, <1>5, <1>6 DEF GetWork

\* The threads, and the groups of the workers.
LEMMA ThreadKinds ==
  /\ Workers \subseteq Threads /\ Clients \subseteq Threads
  /\ Posters \subseteq Threads /\ Owners \subseteq Threads
  /\ \A w \in Workers : GroupOf[w] \in Groups
  /\ None \notin Threads /\ None \notin Sources
BY ThreadsAssumption DEF Threads, Clients

\* A thread that is not idle has a source.
LEMMA SourceOf ==
  ASSUME Types, Control, NEW t \in Threads, pc[t] # "idle"
  PROVE  src[t] \in Sources
BY DEF Types, Control

\* What PushTaskSourceAndWakeUpWorkersImpl() does to the queue.
LEMMA PushPoints ==
  ASSUME Types, Shape, NEW g \in Groups, NEW s \in Sources, PushOrRelease(g, s)
  PROVE  /\ queue' \in [Groups -> [Sources -> Seq(Priorities)]]
         /\ registered' \in [Sources -> Int] /\ handle' = handle \cup {s}
         /\ \A r \in Sources : r # s => registered'[r] = registered[r]
         /\ registered'[s] = registered[s] - (IF s \in handle THEN 1 ELSE 0)
         /\ \A h \in Groups, r \in Sources :
              queue'[h][r] = IF s \notin handle /\ h = g /\ r = s THEN <<priority[s]>>
                             ELSE queue[h][r]
<1>1. CASE s \in handle
  BY <1>1 DEF PushOrRelease, Unregister, Types
<1>2. CASE s \notin handle
  <2>1. Insert(g, s) /\ UNCHANGED registered
    BY <1>2 DEF PushOrRelease
  <2>2. /\ queue' \in [Groups -> [Sources -> Seq(Priorities)]] /\ handle' = handle \cup {s}
        /\ queue'[g][s] = <<priority[s]>>
        /\ \A h \in Groups, r \in Sources : h # g \/ r # s => queue'[h][r] = queue[h][r]
    BY <1>2, <2>1, InsertPoints
  <2>3. \A h \in Groups, r \in Sources :
          queue'[h][r] = IF h = g /\ r = s THEN <<priority[s]>> ELSE queue[h][r]
    BY <2>2
  <2>4. /\ registered' \in [Sources -> Int] /\ registered[s] \in Int
        /\ \A r \in Sources : registered'[r] = registered[r]
    BY <2>1 DEF Types
  <2> QED
    BY <1>2, <2>2, <2>3, <2>4
<1> QED
  BY <1>1, <1>2

\* The node of a source whose Transaction is open is where Place says.
LEMMA NodeIsHere ==
  ASSUME Types, Control, Shape, Place, NEW t \in Threads, pc[t] \in {"sort", "join"}, src[t] \in handle
  PROVE  src[t] \in Queued(GetThreadGroupForTraits(src[t]))
<1>1. src[t] \in Sources /\ lock[src[t]] = t /\ t # None
  BY SourceOf, ThreadKinds DEF Control, LockPcs
<1>2. queue[GetThreadGroupForTraits(src[t])][src[t]] # <<>>
  BY <1>1, OneNode DEF Place, PlaceOf, Unlocked, Types
<1> QED
  BY <1>1, <1>2 DEF Queued

LEMMA NodeIsElsewhere ==
  ASSUME Types, Control, Shape, Place, NEW t \in Threads, pc[t] = "remove", src[t] \in handle
  PROVE  src[t] \in Queued(OtherGroup(GetThreadGroupForTraits(src[t])))
<1> DEFINE s == src[t]
<1>1. s \in Sources /\ lock[s] = t /\ t # None
  BY SourceOf, ThreadKinds DEF Control, LockPcs
<1>2. queue[GetThreadGroupForTraits(s)][s] = <<>>
  BY <1>1 DEF Place, PlaceOf, Unlocked
<1>3. PICK g \in Groups, k \in Priorities : queue[g][s] = <<k>>
  BY <1>1 DEF Shape
<1>4. g # GetThreadGroupForTraits(s)
  BY <1>2, <1>3, OneNode
<1>5. g = OtherGroup(GetThreadGroupForTraits(s))
  BY <1>4, GroupTypes
<1> QED
  BY <1>1, <1>3, <1>5, OneNode DEF Queued

\* Every step keeps the types.
LEMMA NextTypes == Types /\ Control /\ Shape /\ Place /\ SequenceStates /\ Next => Types'
<1> SUFFICES ASSUME Types, Control, Shape, Place, SequenceStates, Next PROVE Types'
  OBVIOUS
<1> USE DEF queueVars, sourceVars, envVars
<1>1. ASSUME NEW t \in Clients, EnqueueJobTaskSource(t) PROVE Types'
  <2>1. t \in Threads /\ src[t] \in Sources
    BY <1>1, ThreadKinds, SourceOf DEF EnqueueJobTaskSource
  <2>2. pc' \in [Threads -> Pcs] /\ src' \in [Threads -> Sources \cup {None}]
    BY <1>1, <2>1, GoPoints DEF EnqueueJobTaskSource, Pcs
  <2> QED
    BY <1>1, <2>1, <2>2 DEF EnqueueJobTaskSource, Types, Acquire, Release, Unlocked
<1>2. ASSUME NEW t \in Threads, PushTaskSourceAndWakeUpWorkers(t) PROVE Types'
  <2>1. t \in Threads /\ src[t] \in Sources
    BY <1>2, ThreadKinds, SourceOf DEF PushTaskSourceAndWakeUpWorkers
  <2>2. pc' \in [Threads -> Pcs] /\ src' \in [Threads -> Sources \cup {None}]
    BY <1>2, <2>1, GoPoints DEF PushTaskSourceAndWakeUpWorkers, Pcs
  <2>3. PICK g \in Groups : PushOrRelease(g, src[t])
    BY <1>2, GroupTypes DEF PushTaskSourceAndWakeUpWorkers
  <2>4. /\ queue' \in [Groups -> [Sources -> Seq(Priorities)]]
        /\ registered' \in [Sources -> Int] /\ handle' \subseteq Sources
    <3>1. /\ queue' \in [Groups -> [Sources -> Seq(Priorities)]]
          /\ registered' \in [Sources -> Int] /\ handle' = handle \cup {src[t]}
      BY <2>1, <2>3, PushPoints, Zenon
    <3> QED
      BY <2>1, <3>1 DEF Types
  <2> QED
    BY <1>2, <2>1, <2>2, <2>4 DEF PushTaskSourceAndWakeUpWorkers, Types, Release
<1>3. ASSUME NEW t \in Clients, UpdateSortKey(t) PROVE Types'
  <2>1. t \in Threads /\ src[t] \in Sources
    BY <1>3, ThreadKinds, SourceOf DEF UpdateSortKey
  <2>2. pc' \in [Threads -> Pcs] /\ src' \in [Threads -> Sources \cup {None}]
    BY <1>3, <2>1, GoPoints DEF UpdateSortKey, Pcs
  <2>3. <<priority[src[t]]>> \in Seq(Priorities)
    BY <2>1, OneNode DEF Types
  <2>4. PICK g \in Groups : queue' = queue \/ queue' = [queue EXCEPT ![g][src[t]] = <<priority[src[t]]>>]
    BY <1>3, GroupTypes DEF UpdateSortKey
  <2>5. queue' \in [Groups -> [Sources -> Seq(Priorities)]]
    <3>1. queue[g] \in [Sources -> Seq(Priorities)] /\ queue \in [Groups -> [Sources -> Seq(Priorities)]]
      BY DEF Types
    <3>2. [queue[g] EXCEPT ![src[t]] = <<priority[src[t]]>>] \in [Sources -> Seq(Priorities)]
      BY <2>3, <3>1
    <3> QED
      BY <2>4, <3>1, <3>2
  <2> QED
    BY <1>3, <2>1, <2>2, <2>5 DEF UpdateSortKey, Types, Release
<1>4. ASSUME NEW t \in Clients, RemoveTaskSource(t) PROVE Types'
  <2>1. t \in Threads /\ src[t] \in Sources
    BY <1>4, ThreadKinds, SourceOf DEF RemoveTaskSource
  <2>2. pc' \in [Threads -> Pcs] /\ src' \in [Threads -> Sources \cup {None}]
    BY <1>4, <2>1, GoPoints DEF RemoveTaskSource, Pcs
  <2>3. src[t] \in handle => {src[t]} \subseteq Queued(OtherGroup(GetThreadGroupForTraits(src[t])))
    BY <1>4, <2>1, NodeIsElsewhere DEF RemoveTaskSource
  <2>4. queue' \in [Groups -> [Sources -> Seq(Priorities)]] /\ handle' \subseteq Sources
    BY <1>4, <2>1, <2>3, PopPoints, GroupTypes DEF RemoveTaskSource, Types
  <2> QED
    BY <1>4, <2>1, <2>2, <2>4 DEF RemoveTaskSource, Types, Release, Unregister
<1>5. ASSUME NEW t \in Clients, RemoveJobTaskSource(t) PROVE Types'
  <2>1. t \in Threads /\ src[t] \in Sources
    BY <1>5, ThreadKinds, SourceOf DEF RemoveJobTaskSource
  <2>2. pc' \in [Threads -> Pcs] /\ src' \in [Threads -> Sources \cup {None}]
    BY <1>5, <2>1, GoPoints DEF RemoveJobTaskSource, Pcs
  <2>3. src[t] \in handle => {src[t]} \subseteq Queued(GetThreadGroupForTraits(src[t]))
    BY <1>5, <2>1, NodeIsHere DEF RemoveJobTaskSource
  <2>4. queue' \in [Groups -> [Sources -> Seq(Priorities)]] /\ handle' \subseteq Sources
    BY <1>5, <2>1, <2>3, PopPoints, GroupTypes DEF RemoveJobTaskSource, Types
  <2>5. registered' = registered \/ registered' = [registered EXCEPT ![src[t]] = @ - 1]
    BY <1>5 DEF RemoveJobTaskSource, Unregister
  <2>6. registered' \in [Sources -> Int]
    BY <2>5 DEF Types
  <2> QED
    BY <1>5, <2>1, <2>2, <2>4, <2>6 DEF RemoveJobTaskSource, Types, Release
<1>6. ASSUME NEW t \in Posters, NEW s \in Sources, PostTaskWithSequenceNow(t, s) PROVE Types'
  <2>1. pc' \in [Threads -> Pcs] /\ src' \in [Threads -> Sources \cup {None}]
    BY <1>6, ThreadKinds, BeginPoints DEF PostTaskWithSequenceNow, Pcs, Types
  <2>2. pending' \in [Sources -> Nat] /\ registered' \in [Sources -> Int]
    <3>1. pending' = pending \/ pending' = [pending EXCEPT ![s] = @ + 1]
      BY <1>6 DEF PostTaskWithSequenceNow
    <3>2. registered' = registered \/ registered' = [registered EXCEPT ![s] = @ + 1]
      BY <1>6 DEF PostTaskWithSequenceNow, Register
    <3> QED
      BY <3>1, <3>2 DEF Types
  <2>3. lock' \in [Sources -> Threads \cup {None}]
    BY <1>6, ThreadKinds DEF PostTaskWithSequenceNow, Types, Acquire
  <2>4. posts' \in 0..MaxPosts
    BY <1>6, BoundsAssumption DEF PostTaskWithSequenceNow, Types
  <2> QED
    BY <1>6, <2>1, <2>2, <2>3, <2>4 DEF PostTaskWithSequenceNow, Types
<1>7. ASSUME NEW t \in Posters, NEW s \in Sources, NotifyConcurrencyIncrease(t, s) PROVE Types'
  <2>1. pc' \in [Threads -> Pcs] /\ src' \in [Threads -> Sources \cup {None}]
    BY <1>7, ThreadKinds, BeginPoints DEF NotifyConcurrencyIncrease, Pcs, Types
  <2>2. pending' \in [Sources -> Nat] /\ registered' \in [Sources -> Int]
    BY <1>7 DEF NotifyConcurrencyIncrease, Types, Register
  <2>3. posts' \in 0..MaxPosts
    BY <1>7, BoundsAssumption DEF NotifyConcurrencyIncrease, Types
  <2> QED
    BY <1>7, <2>1, <2>2, <2>3 DEF NotifyConcurrencyIncrease, Types
<1>8. ASSUME NEW t \in Owners, NEW s \in Sources, Cancel(t, s) PROVE Types'
  BY <1>8 DEF Cancel, Types
<1>9. ASSUME NEW t \in Owners, NEW s \in Sources, JoinEnds(t, s) PROVE Types'
  <2>1. pc' \in [Threads -> Pcs] /\ src' \in [Threads -> Sources \cup {None}]
    BY <1>9, ThreadKinds, BeginPoints DEF JoinEnds, Pcs
  <2> QED
    BY <1>9, <2>1, ThreadKinds DEF JoinEnds, Types, Acquire
<1>10. ASSUME NEW t \in Owners, NEW s \in Sources, NEW p \in Priorities, UpdatePriority(t, s, p) PROVE Types'
  <2>1. pc' \in [Threads -> Pcs] /\ src' \in [Threads -> Sources \cup {None}]
    BY <1>10, ThreadKinds, BeginPoints DEF UpdatePriority, Pcs
  <2>2. updates' \in 0..MaxUpdates
    BY <1>10, BoundsAssumption DEF UpdatePriority, Types
  <2> QED
    BY <1>10, <2>1, <2>2, ThreadKinds DEF UpdatePriority, Types, Acquire
<1>11. ASSUME NEW t \in Workers, GetWork(t) PROVE Types'
  <2> DEFINE g == GroupOf[t]
  <2>1. t \in Threads /\ g \in Groups
    BY ThreadKinds
  <2>2. PICK D \in SUBSET Queued(g) :
          \/ Pop(g, D) /\ Discarded(D, None) /\ UNCHANGED <<count, pc, src>>
          \/ \E s \in Queued(g) \ D :
               /\ count' = [count EXCEPT ![s] = @ + 1] /\ Begin(t, s, "run")
               /\ \/ Pop(g, D \cup {s}) /\ Discarded(D, None)
                  \/ Pop(g, D) /\ Discarded(D, s)
    BY <1>11, GetWorkPoints
  <2>3. \A k : Discarded(D, k) => registered' \in [Sources -> Int]
    BY DEF Discarded, Types
  <2>4. \A E \in SUBSET Queued(g) : Pop(g, E) =>
          queue' \in [Groups -> [Sources -> Seq(Priorities)]] /\ handle' \subseteq Sources
    BY <2>1, PopPoints DEF Types
  <2>5. /\ queue' \in [Groups -> [Sources -> Seq(Priorities)]] /\ handle' \subseteq Sources
        /\ registered' \in [Sources -> Int]
    BY <2>2, <2>3, <2>4
  <2>6. Queued(g) \subseteq Sources
    BY DEF Queued
  <2>7. pc' \in [Threads -> Pcs] /\ src' \in [Threads -> Sources \cup {None}]
    BY <2>1, <2>2, <2>6, BeginPoints DEF Types, Pcs
  <2>8. count' \in [Sources -> Int]
    <3>1. count' = count \/ \E s \in Sources : count' = [count EXCEPT ![s] = @ + 1]
      BY <2>2, <2>6
    <3> QED
      BY <3>1 DEF Types
  <2> QED
    BY <1>11, <2>5, <2>7, <2>8, GetWorkPoints DEF Types
<1>12. ASSUME NEW t \in Workers, TakeTask(t) PROVE Types'
  <2>1. t \in Threads /\ src[t] \in Sources
    BY <1>12, ThreadKinds, SourceOf DEF TakeTask
  <2>2. pc' \in [Threads -> Pcs] /\ src' \in [Threads -> Sources \cup {None}]
    BY <1>12, <2>1, GoPoints DEF TakeTask, Pcs
  <2>3. pending[src[t]] \in Nat /\ (src[t] \in SequenceIds => pending[src[t]] > 0)
    BY <1>12, <2>1 DEF TakeTask, Types, SequenceStates
  <2>4. pending' \in [Sources -> Nat] /\ canceled' \subseteq JobIds
    <3>1. \/ pending' = pending
          \/ pending' = [pending EXCEPT ![src[t]] = 0]
          \/ src[t] \in SequenceIds /\ pending' = [pending EXCEPT ![src[t]] = @ - 1]
      BY <1>12, <2>1 DEF TakeTask, Sources
    <3>2. canceled' = canceled \/ (src[t] \in JobIds /\ canceled' = canceled \cup {src[t]})
      BY <1>12 DEF TakeTask
    <3>3. pending' \in [Sources -> Nat]
      <4>1. CASE src[t] \in SequenceIds /\ pending' = [pending EXCEPT ![src[t]] = @ - 1]
        <5>1. pending[src[t]] - 1 \in Nat
          BY <2>3, <4>1
        <5> QED
          BY <4>1, <5>1 DEF Types
      <4> QED
        BY <3>1, <4>1 DEF Types
    <3> QED
      BY <3>2, <3>3 DEF Types
  <2> QED
    BY <1>12, <2>1, <2>2, <2>4 DEF TakeTask, Types
<1>13. ASSUME NEW t \in Workers, ProcessItem(t) PROVE Types'
  <2>1. t \in Threads /\ src[t] \in Sources
    BY <1>13, ThreadKinds, SourceOf DEF ProcessItem
  <2> QED
    BY <1>13, <2>1 DEF ProcessItem, Types
<1>14. ASSUME NEW t \in Workers, TaskReturns(t) PROVE Types'
  <2>1. t \in Threads /\ src[t] \in Sources
    BY <1>14, ThreadKinds, SourceOf DEF TaskReturns
  <2>2. pc' \in [Threads -> Pcs] /\ src' \in [Threads -> Sources \cup {None}]
    BY <1>14, <2>1, GoPoints DEF TaskReturns, Pcs
  <2> QED
    BY <1>14, <2>1, <2>2 DEF TaskReturns, Types, Acquire, Release, Unlocked
<1>15. ASSUME NEW t \in Workers, DidProcessTask(t) PROVE Types'
  <2>1. t \in Threads /\ src[t] \in Sources
    BY <1>15, ThreadKinds, SourceOf DEF DidProcessTask
  <2>2. pc' \in [Threads -> Pcs] /\ src' \in [Threads -> Sources \cup {None}]
    BY <1>15, <2>1, GoPoints DEF DidProcessTask, Pcs
  <2> QED
    BY <1>15, <2>1, <2>2 DEF DidProcessTask, Types, Unregister
<1>16. ASSUME NEW t \in Workers, BeginReenqueue(t) PROVE Types'
  <2>1. t \in Threads /\ src[t] \in Sources
    BY <1>16, ThreadKinds, SourceOf DEF BeginReenqueue
  <2>2. pc' \in [Threads -> Pcs] /\ src' \in [Threads -> Sources \cup {None}]
    BY <1>16, <2>1, GoPoints DEF BeginReenqueue, Pcs
  <2> QED
    BY <1>16, <2>1, <2>2 DEF BeginReenqueue, Types, Acquire, Release, Unlocked
<1>17. ASSUME NEW t \in Workers, ReEnqueueTaskSource(t) PROVE Types'
  <2>1. t \in Threads /\ src[t] \in Sources
    BY <1>17, ThreadKinds, SourceOf DEF ReEnqueueTaskSource
  <2>2. pc' \in [Threads -> Pcs] /\ src' \in [Threads -> Sources \cup {None}]
    BY <1>17, <2>1, GoPoints DEF ReEnqueueTaskSource, Pcs
  <2>3. /\ queue' \in [Groups -> [Sources -> Seq(Priorities)]]
        /\ registered' \in [Sources -> Int] /\ handle' \subseteq Sources
    <3>1. UNCHANGED queueVars \/ \E g \in Groups : PushOrRelease(g, src[t])
      BY <1>17, ThreadKinds DEF ReEnqueueTaskSource
    <3>2. ASSUME NEW g \in Groups, PushOrRelease(g, src[t])
          PROVE  /\ queue' \in [Groups -> [Sources -> Seq(Priorities)]]
                 /\ registered' \in [Sources -> Int] /\ handle' = handle \cup {src[t]}
      BY <2>1, <3>2, PushPoints, Zenon
    <3> QED
      BY <2>1, <3>1, <3>2 DEF Types
  <2> QED
    BY <1>17, <2>1, <2>2, <2>3 DEF ReEnqueueTaskSource, Types, Release
<1>18. CASE StartShutdown
  BY <1>18 DEF StartShutdown, Types
<1> QED
  BY <1>1, <1>2, <1>3, <1>4, <1>5, <1>6, <1>7, <1>8, <1>9,
     <1>10, <1>11, <1>12, <1>13, <1>14, <1>15, <1>16, <1>17, <1>18
     DEF Next, ClientStep, WorkerStep, Threads, Clients

\* A thread moves and neither opens nor ends a Transaction.
LEMMA ControlKeeps ==
  ASSUME Types, Control, NEW t \in Threads, OnlyMoves(t), lock' = lock,
         src'[t] = None <=> pc'[t] = "idle",
         pc'[t] \in {"enqueue", "task", "join"} => src'[t] \in JobIds,
         pc[t] \in LockPcs <=> pc'[t] \in LockPcs, pc[t] \in LockPcs => src'[t] = src[t]
  PROVE  Control'
<1>1. \A u \in Threads : /\ src'[u] = None <=> pc'[u] = "idle"
                         /\ pc'[u] \in LockPcs => lock'[src'[u]] = u
                         /\ pc'[u] \in {"enqueue", "task", "join"} => src'[u] \in JobIds
  BY DEF Control, OnlyMoves
<1>2. ASSUME NEW r \in Sources, lock[r] # None
      PROVE  src'[lock[r]] = r /\ pc'[lock[r]] \in LockPcs
  <2>1. lock[r] \in Threads /\ src[lock[r]] = r /\ pc[lock[r]] \in LockPcs
    BY <1>2 DEF Control, Types
  <2> QED
    BY <2>1 DEF OnlyMoves
<1> QED
  BY <1>1, <1>2 DEF Control

\* A thread moves and opens the Transaction of s.
LEMMA ControlTakes ==
  ASSUME Types, Control, NEW t \in Threads, NEW s \in Sources, OnlyMoves(t), Acquire(t, s),
         pc[t] \notin LockPcs, pc'[t] \in LockPcs, src'[t] = s, pc'[t] = "join" => s \in JobIds
  PROVE  Control'
<1>1. lock[s] = None /\ lock'[s] = t /\ \A r \in Sources : r # s => lock'[r] = lock[r]
  BY DEF Acquire, Types
<1>2. s # None /\ t # None
  BY ThreadKinds
<1>3. \A u \in Threads : pc[u] \in LockPcs => src[u] \in Sources /\ src[u] # s
  BY <1>1, <1>2, SourceOf, ThreadKinds DEF Control, LockPcs
<1>4. \A u \in Threads : /\ src'[u] = None <=> pc'[u] = "idle"
                         /\ pc'[u] \in LockPcs => lock'[src'[u]] = u
                         /\ pc'[u] \in {"enqueue", "task", "join"} => src'[u] \in JobIds
  BY <1>1, <1>2, <1>3 DEF Control, OnlyMoves, LockPcs
<1>5. \A r \in Sources : lock'[r] # None => src'[lock'[r]] = r /\ pc'[lock'[r]] \in LockPcs
  <2> SUFFICES ASSUME NEW r \in Sources, r # s, lock[r] # None
               PROVE  src'[lock[r]] = r /\ pc'[lock[r]] \in LockPcs
    BY <1>1
  <2>1. lock[r] \in Threads /\ lock[r] # t
    BY DEF Control, Types
  <2> QED
    BY <2>1 DEF Control, OnlyMoves
<1> QED
  BY <1>4, <1>5 DEF Control

\* A thread ends its Transaction and becomes idle.
LEMMA ControlGives ==
  ASSUME Types, Control, NEW t \in Threads, OnlyMoves(t), pc[t] \in LockPcs, Release(src[t]),
         pc'[t] = "idle", src'[t] = None
  PROVE  Control'
<1>1. src[t] \in Sources /\ lock[src[t]] = t
  BY SourceOf DEF Control, LockPcs
<1>2. lock'[src[t]] = None /\ \A r \in Sources : r # src[t] => lock'[r] = lock[r]
  BY <1>1 DEF Release, Types
<1>3. \A u \in Threads : u # t /\ pc[u] \in LockPcs => src[u] \in Sources /\ src[u] # src[t]
  BY <1>1, SourceOf DEF Control, LockPcs
<1>4. \A u \in Threads : /\ src'[u] = None <=> pc'[u] = "idle"
                         /\ pc'[u] \in LockPcs => lock'[src'[u]] = u
                         /\ pc'[u] \in {"enqueue", "task", "join"} => src'[u] \in JobIds
  BY <1>2, <1>3 DEF Control, OnlyMoves, LockPcs
<1>5. \A r \in Sources : lock'[r] # None => src'[lock'[r]] = r /\ pc'[lock'[r]] \in LockPcs
  <2> SUFFICES ASSUME NEW r \in Sources, r # src[t], lock[r] # None
               PROVE  src'[lock[r]] = r /\ pc'[lock[r]] \in LockPcs
    BY <1>2
  <2>1. lock[r] \in Threads /\ lock[r] # t
    BY DEF Control, Types
  <2> QED
    BY <2>1 DEF Control, OnlyMoves
<1> QED
  BY <1>4, <1>5 DEF Control

\* Every step keeps Transactions and places in step.
LEMMA NextControl == Types /\ Control /\ Next => Control'
<1> SUFFICES ASSUME Types, Control, Next PROVE Control'
  OBVIOUS
<1> USE DEF queueVars, sourceVars, envVars
<1>1. ASSUME NEW t \in Clients, EnqueueJobTaskSource(t) PROVE Control'
  <2>1. t \in Threads /\ src[t] \in Sources
    BY <1>1, ThreadKinds, SourceOf DEF EnqueueJobTaskSource
  <2>2. OnlyMoves(t) /\ pc'[t] = "push" /\ src'[t] = src[t]
    BY <1>1, <2>1, GoPoints DEF EnqueueJobTaskSource, Pcs
  <2> QED
    BY <1>1, <2>1, <2>2, ControlTakes DEF EnqueueJobTaskSource, LockPcs, Control
<1>2. ASSUME NEW t \in Threads, PushTaskSourceAndWakeUpWorkers(t) PROVE Control'
  <2>1. t \in Threads /\ src[t] \in Sources
    BY <1>2, ThreadKinds, SourceOf DEF PushTaskSourceAndWakeUpWorkers
  <2>2. OnlyMoves(t) /\ pc'[t] = "idle" /\ src'[t] = None
    BY <1>2, <2>1, GoPoints DEF PushTaskSourceAndWakeUpWorkers, Pcs
  <2> QED
    BY <1>2, <2>1, <2>2, ControlGives DEF PushTaskSourceAndWakeUpWorkers, LockPcs, Control
<1>3. ASSUME NEW t \in Clients, UpdateSortKey(t) PROVE Control'
  <2>1. t \in Threads /\ src[t] \in Sources
    BY <1>3, ThreadKinds, SourceOf DEF UpdateSortKey
  <2>2. OnlyMoves(t) /\ pc'[t] = "idle" /\ src'[t] = None
    BY <1>3, <2>1, GoPoints DEF UpdateSortKey, Pcs
  <2> QED
    BY <1>3, <2>1, <2>2, ControlGives DEF UpdateSortKey, LockPcs, Control
<1>4. ASSUME NEW t \in Clients, RemoveTaskSource(t) PROVE Control'
  <2>1. t \in Threads /\ src[t] \in Sources
    BY <1>4, ThreadKinds, SourceOf DEF RemoveTaskSource
  <2>2. CASE Go(t, "push") /\ UNCHANGED lock
    <3>1. OnlyMoves(t) /\ pc'[t] = "push" /\ src'[t] = src[t]
      BY <2>1, <2>2, GoPoints DEF Pcs
    <3> QED
      BY <1>4, <2>1, <2>2, <3>1, ThreadKinds, ControlKeeps DEF RemoveTaskSource, LockPcs
  <2>3. CASE Go(t, "idle") /\ Release(src[t])
    <3>1. OnlyMoves(t) /\ pc'[t] = "idle" /\ src'[t] = None
      BY <2>1, <2>3, GoPoints DEF Pcs
    <3> QED
      BY <1>4, <2>1, <2>3, <3>1, ControlGives DEF RemoveTaskSource, LockPcs
  <2> QED
    BY <1>4, <2>2, <2>3 DEF RemoveTaskSource
<1>5. ASSUME NEW t \in Clients, RemoveJobTaskSource(t) PROVE Control'
  <2>1. t \in Threads /\ src[t] \in Sources
    BY <1>5, ThreadKinds, SourceOf DEF RemoveJobTaskSource
  <2>2. OnlyMoves(t) /\ pc'[t] = "idle" /\ src'[t] = None
    BY <1>5, <2>1, GoPoints DEF RemoveJobTaskSource, Pcs
  <2> QED
    BY <1>5, <2>1, <2>2, ControlGives DEF RemoveJobTaskSource, LockPcs, Control
<1>6. ASSUME NEW t \in Posters, NEW s \in Sources, PostTaskWithSequenceNow(t, s) PROVE Control'
  <2>1. CASE UNCHANGED <<lock, pc, src>>
    BY <2>1 DEF Control
  <2>2. CASE Acquire(t, s) /\ Begin(t, s, "push")
    <3>1. t \in Threads /\ OnlyMoves(t) /\ pc'[t] = "push" /\ src'[t] = s
      BY <2>2, ThreadKinds, BeginPoints DEF Pcs
    <3> QED
      BY <1>6, <2>2, <3>1, ControlTakes DEF PostTaskWithSequenceNow, LockPcs
  <2> QED
    BY <1>6, <2>1, <2>2 DEF PostTaskWithSequenceNow
<1>7. ASSUME NEW t \in Posters, NEW s \in Sources, NotifyConcurrencyIncrease(t, s) PROVE Control'
  <2>1. CASE UNCHANGED <<pc, src>>
    BY <1>7, <2>1 DEF NotifyConcurrencyIncrease, Control
  <2>2. CASE Begin(t, s, "enqueue")
    <3>1. t \in Threads /\ OnlyMoves(t) /\ pc'[t] = "enqueue" /\ src'[t] = s
      BY <2>2, ThreadKinds, BeginPoints DEF Pcs
    <3> QED
      BY <1>7, <2>2, <3>1, ThreadKinds, ControlKeeps DEF NotifyConcurrencyIncrease, LockPcs
  <2> QED
    BY <1>7, <2>1, <2>2 DEF NotifyConcurrencyIncrease
<1>8. ASSUME NEW t \in Owners, NEW s \in Sources, Cancel(t, s) PROVE Control'
  BY <1>8 DEF Cancel, Control
<1>9. ASSUME NEW t \in Owners, NEW s \in Sources, JoinEnds(t, s) PROVE Control'
  <2>1. t \in Threads /\ OnlyMoves(t) /\ pc'[t] = "join" /\ src'[t] = s
    BY <1>9, ThreadKinds, BeginPoints DEF JoinEnds, Pcs
  <2> QED
    BY <1>9, <2>1, ControlTakes DEF JoinEnds, LockPcs
<1>10. ASSUME NEW t \in Owners, NEW s \in Sources, NEW p \in Priorities, UpdatePriority(t, s, p) PROVE Control'
  <2>1. t \in Threads /\ OnlyMoves(t) /\ pc'[t] \in {"sort", "remove"} /\ src'[t] = s
    BY <1>10, ThreadKinds, BeginPoints DEF UpdatePriority, Pcs
  <2> QED
    BY <1>10, <2>1, ControlTakes DEF UpdatePriority, LockPcs
<1>11. ASSUME NEW t \in Workers, GetWork(t) PROVE Control'
  <2>1. CASE UNCHANGED <<pc, src>>
    BY <1>11, <2>1, GetWorkPoints DEF Control
  <2>2. ASSUME NEW s \in Sources, Begin(t, s, "run") PROVE Control'
    <3>1. t \in Threads /\ OnlyMoves(t) /\ pc'[t] = "run" /\ src'[t] = s
      BY <2>2, ThreadKinds, BeginPoints DEF Pcs
    <3> QED
      BY <1>11, <3>1, ThreadKinds, GetWorkPoints, ControlKeeps DEF LockPcs
  <2> QED
    BY <1>11, <2>1, <2>2, GetWorkPoints DEF Queued
<1>12. ASSUME NEW t \in Workers, TakeTask(t) PROVE Control'
  <2>1. t \in Threads /\ src[t] \in Sources
    BY <1>12, ThreadKinds, SourceOf DEF TakeTask
  <2>2. OnlyMoves(t) /\ pc'[t] \in {"did", "task"} /\ src'[t] = src[t]
    BY <1>12, <2>1, GoPoints DEF TakeTask, Pcs
  <2>3. pc'[t] = "task" => src[t] \in JobIds
    <3>1. pc'[t] = IF shutdown \/ src[t] \in SequenceIds THEN "did" ELSE "task"
      BY <1>12, <2>1, GoPoints DEF TakeTask, Pcs
    <3> QED
      BY <2>1, <3>1 DEF Sources
  <2> QED
    BY <1>12, <2>1, <2>2, <2>3, ThreadKinds, ControlKeeps DEF TakeTask, LockPcs
<1>13. ASSUME NEW t \in Workers, ProcessItem(t) PROVE Control'
  BY <1>13 DEF ProcessItem, Control
<1>14. ASSUME NEW t \in Workers, TaskReturns(t) PROVE Control'
  <2>1. t \in Threads /\ src[t] \in Sources
    BY <1>14, ThreadKinds, SourceOf DEF TaskReturns
  <2>2. OnlyMoves(t) /\ pc'[t] = "did" /\ src'[t] = src[t]
    BY <1>14, <2>1, GoPoints DEF TaskReturns, Pcs
  <2> QED
    BY <1>14, <2>1, <2>2, ThreadKinds, ControlKeeps DEF TaskReturns, LockPcs, Control
<1>15. ASSUME NEW t \in Workers, DidProcessTask(t) PROVE Control'
  <2>1. t \in Threads /\ src[t] \in Sources
    BY <1>15, ThreadKinds, SourceOf DEF DidProcessTask
  <2>2. /\ OnlyMoves(t) /\ pc'[t] \in {"reenqueue", "idle"}
        /\ src'[t] = IF pc'[t] = "idle" THEN None ELSE src[t]
    BY <1>15, <2>1, GoPoints DEF DidProcessTask, Pcs
  <2> QED
    BY <1>15, <2>1, <2>2, ThreadKinds, ControlKeeps DEF DidProcessTask, LockPcs
<1>16. ASSUME NEW t \in Workers, BeginReenqueue(t) PROVE Control'
  <2>1. t \in Threads /\ src[t] \in Sources
    BY <1>16, ThreadKinds, SourceOf DEF BeginReenqueue
  <2>2. OnlyMoves(t) /\ pc'[t] = "locked" /\ src'[t] = src[t]
    BY <1>16, <2>1, GoPoints DEF BeginReenqueue, Pcs
  <2> QED
    BY <1>16, <2>1, <2>2, ControlTakes DEF BeginReenqueue, LockPcs, Control
<1>17. ASSUME NEW t \in Workers, ReEnqueueTaskSource(t) PROVE Control'
  <2>1. t \in Threads /\ src[t] \in Sources
    BY <1>17, ThreadKinds, SourceOf DEF ReEnqueueTaskSource
  <2>2. CASE Go(t, "push") /\ UNCHANGED lock
    <3>1. OnlyMoves(t) /\ pc'[t] = "push" /\ src'[t] = src[t]
      BY <2>1, <2>2, GoPoints DEF Pcs
    <3> QED
      BY <1>17, <2>1, <2>2, <3>1, ThreadKinds, ControlKeeps DEF ReEnqueueTaskSource, LockPcs
  <2>3. CASE Go(t, "idle") /\ Release(src[t])
    <3>1. OnlyMoves(t) /\ pc'[t] = "idle" /\ src'[t] = None
      BY <2>1, <2>3, GoPoints DEF Pcs
    <3> QED
      BY <1>17, <2>1, <2>3, <3>1, ControlGives DEF ReEnqueueTaskSource, LockPcs
  <2> QED
    BY <1>17, <2>2, <2>3 DEF ReEnqueueTaskSource
<1>18. CASE StartShutdown
  BY <1>18 DEF StartShutdown, Control
<1> QED
  BY <1>1, <1>2, <1>3, <1>4, <1>5, <1>6, <1>7, <1>8, <1>9,
     <1>10, <1>11, <1>12, <1>13, <1>14, <1>15, <1>16, <1>17, <1>18
     DEF Next, ClientStep, WorkerStep, Threads, Clients

\* A source comes to a queue only if it is in none.
LEMMA ShapePushed ==
  ASSUME Types, Shape, NEW g \in Groups, NEW s \in Sources, PushOrRelease(g, s)
  PROVE  Shape'
<1>1. /\ handle' = handle \cup {s}
      /\ \A h \in Groups, r \in Sources :
           queue'[h][r] = IF s \notin handle /\ h = g /\ r = s THEN <<priority[s]>>
                          ELSE queue[h][r]
  BY PushPoints, Zenon
<1>2. priority[s] \in Priorities
  BY DEF Types
<1>3. ASSUME NEW r \in Sources, r # s \/ s \in handle
      PROVE  (r \in handle' <=> r \in handle) /\ \A h \in Groups : queue'[h][r] = queue[h][r]
  BY <1>1, <1>3
<1>4. s \notin handle => queue'[g][s] = <<priority[s]>> /\ \A h \in Groups : h # g => queue'[h][s] = <<>>
  BY <1>1 DEF Shape
<1>5. ASSUME NEW r \in Sources
      PROVE  /\ r \notin handle' => \A h \in Groups : queue'[h][r] = <<>>
             /\ r \in handle' => \E h \in Groups, k \in Priorities :
                  queue'[h][r] = <<k>> /\ \A i \in Groups : i # h => queue'[i][r] = <<>>
  <2>1. CASE r # s \/ s \in handle
    BY <1>3, <2>1 DEF Shape
  <2>2. CASE r = s /\ s \notin handle
    BY <1>1, <1>2, <1>4, <2>2
  <2> QED
    BY <2>1, <2>2
<1> QED
  BY <1>5 DEF Shape

\* Sources leave the queue they are in.
LEMMA ShapePopped ==
  ASSUME Types, Shape, NEW g \in Groups, NEW D, D \subseteq Queued(g), Pop(g, D)
  PROVE  Shape'
<1>1. /\ \A h \in Groups, r \in Sources :
           queue'[h][r] = IF h = g /\ r \in D THEN <<>> ELSE queue[h][r]
      /\ handle' = handle \ D /\ D \subseteq handle
  BY PopPoints, Zenon
<1>2. ASSUME NEW r \in D, NEW h \in Groups PROVE queue'[h][r] = <<>>
  <2>1. r \in Sources /\ queue[g][r] # <<>>
    BY DEF Queued
  <2>2. h # g => queue[h][r] = <<>>
    BY <1>1, <2>1 DEF Shape
  <2> QED
    BY <1>1, <2>1, <2>2
<1> QED
  BY <1>1, <1>2 DEF Shape

\* Every step leaves at most one node of a source.
LEMMA NextShape == Types /\ Control /\ Shape /\ Place /\ Next => Shape'
<1> SUFFICES ASSUME Types, Control, Shape, Place, Next PROVE Shape'
  OBVIOUS
<1> USE DEF queueVars, sourceVars, envVars
<1>1. ASSUME NEW t \in Clients, EnqueueJobTaskSource(t) PROVE Shape'
  BY <1>1 DEF EnqueueJobTaskSource, Shape
<1>2. ASSUME NEW t \in Threads, PushTaskSourceAndWakeUpWorkers(t) PROVE Shape'
  <2>1. PICK g \in Groups : PushOrRelease(g, src[t])
    BY <1>2, GroupTypes DEF PushTaskSourceAndWakeUpWorkers
  <2>2. t \in Threads /\ src[t] \in Sources
    BY <1>2, SourceOf DEF PushTaskSourceAndWakeUpWorkers
  <2> QED
    BY <2>1, <2>2, ShapePushed
<1>3. ASSUME NEW t \in Clients, UpdateSortKey(t) PROVE Shape'
  <2> DEFINE s == src[t]
             g == GetThreadGroupForTraits(s)
  <2>1. t \in Threads /\ s \in Sources /\ g \in Groups /\ handle' = handle
    BY <1>3, SourceOf, ThreadKinds, GroupTypes DEF UpdateSortKey
  <2>2. CASE UNCHANGED queue
    BY <2>1, <2>2 DEF Shape
  <2>3. CASE s \in handle /\ queue' = [queue EXCEPT ![g][s] = <<priority[s]>>]
    <3>1. /\ queue'[g][s] = <<priority[s]>> /\ priority[s] \in Priorities
          /\ \A h \in Groups, r \in Sources : h # g \/ r # s => queue'[h][r] = queue[h][r]
      BY <2>1, <2>3 DEF Types
    <3>2. queue[g][s] # <<>>
      BY <1>3, <2>1, <2>3, NodeIsHere DEF Queued, UpdateSortKey
    <3>3. \A h \in Groups : h # g => queue'[h][s] = <<>>
      BY <2>1, <2>3, <3>1, <3>2 DEF Shape
    <3>4. ASSUME NEW r \in Sources
          PROVE  /\ r \notin handle' => \A h \in Groups : queue'[h][r] = <<>>
                 /\ r \in handle' => \E h \in Groups, k \in Priorities :
                      queue'[h][r] = <<k>> /\ \A i \in Groups : i # h => queue'[i][r] = <<>>
      <4>1. CASE r = s
        BY <2>1, <2>3, <3>1, <3>3, <4>1
      <4>2. CASE r # s
        <5>1. \A h \in Groups : queue'[h][r] = queue[h][r]
          BY <3>1, <4>2
        <5>2. /\ r \notin handle => \A h \in Groups : queue[h][r] = <<>>
              /\ r \in handle => \E h \in Groups, k \in Priorities :
                   queue[h][r] = <<k>> /\ \A i \in Groups : i # h => queue[i][r] = <<>>
          BY DEF Shape
        <5> QED
          BY <2>1, <5>1, <5>2
      <4> QED
        BY <4>1, <4>2
    <3> QED
      BY <3>4 DEF Shape
  <2> QED
    BY <1>3, <2>2, <2>3 DEF UpdateSortKey
<1>4. ASSUME NEW t \in Clients, RemoveTaskSource(t) PROVE Shape'
  <2>1. t \in Threads /\ src[t] \in Sources
    BY <1>4, ThreadKinds, SourceOf DEF RemoveTaskSource
  <2>2. src[t] \in handle => {src[t]} \subseteq Queued(OtherGroup(GetThreadGroupForTraits(src[t])))
    BY <1>4, <2>1, NodeIsElsewhere DEF RemoveTaskSource
  <2>3. OtherGroup(GetThreadGroupForTraits(src[t])) \in Groups
    BY GroupTypes
  <2>4. CASE UNCHANGED <<queue, handle>>
    BY <2>4 DEF Shape
  <2> QED
    BY <1>4, <2>2, <2>3, <2>4, ShapePopped DEF RemoveTaskSource
<1>5. ASSUME NEW t \in Clients, RemoveJobTaskSource(t) PROVE Shape'
  <2>1. t \in Threads /\ src[t] \in Sources
    BY <1>5, ThreadKinds, SourceOf DEF RemoveJobTaskSource
  <2>2. src[t] \in handle => {src[t]} \subseteq Queued(GetThreadGroupForTraits(src[t]))
    BY <1>5, <2>1, NodeIsHere DEF RemoveJobTaskSource
  <2>3. GetThreadGroupForTraits(src[t]) \in Groups
    BY GroupTypes
  <2>4. CASE UNCHANGED queueVars
    BY <2>4 DEF Shape
  <2> QED
    BY <1>5, <2>2, <2>3, <2>4, ShapePopped DEF RemoveJobTaskSource
<1>6. ASSUME NEW t \in Posters, NEW s \in Sources, PostTaskWithSequenceNow(t, s) PROVE Shape'
  BY <1>6 DEF PostTaskWithSequenceNow, Shape
<1>7. ASSUME NEW t \in Posters, NEW s \in Sources, NotifyConcurrencyIncrease(t, s) PROVE Shape'
  BY <1>7 DEF NotifyConcurrencyIncrease, Shape
<1>8. ASSUME NEW t \in Owners, NEW s \in Sources, Cancel(t, s) PROVE Shape'
  BY <1>8 DEF Cancel, Shape
<1>9. ASSUME NEW t \in Owners, NEW s \in Sources, JoinEnds(t, s) PROVE Shape'
  BY <1>9 DEF JoinEnds, Shape
<1>10. ASSUME NEW t \in Owners, NEW s \in Sources, NEW p \in Priorities, UpdatePriority(t, s, p) PROVE Shape'
  BY <1>10 DEF UpdatePriority, Shape
<1>11. ASSUME NEW t \in Workers, GetWork(t) PROVE Shape'
  <2>1. PICK D \in SUBSET Queued(GroupOf[t]) : Pop(GroupOf[t], D)
    <3>1. PICK D \in SUBSET Queued(GroupOf[t]) :
            \/ Pop(GroupOf[t], D)
            \/ \E s \in Queued(GroupOf[t]) \ D : Pop(GroupOf[t], D \cup {s})
      BY <1>11, GetWorkPoints
    <3> QED
      BY <3>1
  <2> QED
    BY <2>1, ThreadKinds, ShapePopped
<1>12. ASSUME NEW t \in Workers, TakeTask(t) PROVE Shape'
  BY <1>12 DEF TakeTask, Shape
<1>13. ASSUME NEW t \in Workers, ProcessItem(t) PROVE Shape'
  BY <1>13 DEF ProcessItem, Shape
<1>14. ASSUME NEW t \in Workers, TaskReturns(t) PROVE Shape'
  BY <1>14 DEF TaskReturns, Shape
<1>15. ASSUME NEW t \in Workers, DidProcessTask(t) PROVE Shape'
  BY <1>15 DEF DidProcessTask, Shape
<1>16. ASSUME NEW t \in Workers, BeginReenqueue(t) PROVE Shape'
  BY <1>16 DEF BeginReenqueue, Shape
<1>17. ASSUME NEW t \in Workers, ReEnqueueTaskSource(t) PROVE Shape'
  <2>1. UNCHANGED queueVars \/ \E g \in Groups : PushOrRelease(g, src[t])
    BY <1>17, ThreadKinds DEF ReEnqueueTaskSource
  <2>2. src[t] \in Sources
    BY <1>17, SourceOf, ThreadKinds DEF ReEnqueueTaskSource
  <2>3. CASE UNCHANGED queueVars
    BY <2>3 DEF Shape
  <2> QED
    BY <2>1, <2>2, <2>3, ShapePushed
<1>18. CASE StartShutdown
  BY <1>18 DEF StartShutdown, Shape
<1> QED
  BY <1>1, <1>2, <1>3, <1>4, <1>5, <1>6, <1>7, <1>8, <1>9,
     <1>10, <1>11, <1>12, <1>13, <1>14, <1>15, <1>16, <1>17, <1>18
     DEF Next, ClientStep, WorkerStep, Threads, Clients

\* A step of thread t that deals with s leaves the other sources where they are.
LEMMA PlaceFrame ==
  ASSUME Types, Control, Place, NEW t \in Threads, OnlyMoves(t), NEW s \in Sources,
         pc[t] \in LockPcs => src[t] = s, handle' \subseteq Sources,
         \A r \in Sources : r # s => /\ r \in handle' => r \in handle
                                     /\ \A g \in Groups : queue'[g][r] = queue[g][r]
                                     /\ lock'[r] = lock[r] /\ priority'[r] = priority[r],
         s \in handle' => PlaceOf(s)'
  PROVE  Place'
<1> SUFFICES ASSUME NEW r \in handle', r # s PROVE PlaceOf(r)'
  BY DEF Place
<1>1. /\ r \in handle /\ r \in Sources /\ lock'[r] = lock[r] /\ priority'[r] = priority[r]
      /\ \A g \in Groups : queue'[g][r] = queue[g][r]
  OBVIOUS
<1>2. lock[r] # None => lock[r] \in Threads /\ pc'[lock[r]] = pc[lock[r]]
  BY <1>1 DEF Control, OnlyMoves, Types
<1>3. GetThreadGroupForTraits(r)' = GetThreadGroupForTraits(r) /\ GetThreadGroupForTraits(r) \in Groups
  BY <1>1, GroupTypes DEF GetThreadGroupForTraits, GroupFor
<1>4. PlaceOf(r)
  BY <1>1 DEF Place
<1> QED
  BY <1>1, <1>2, <1>3, <1>4 DEF PlaceOf, Unlocked

\* Sources stay, or leave the queues, without a Transaction.
LEMMA PlaceKeeps ==
  ASSUME Types, Control, Place, NEW t \in Threads, OnlyMoves(t), pc[t] \notin LockPcs,
         UNCHANGED <<lock, priority>>,
         \A r \in handle' : r \in handle /\ \A g \in Groups : queue'[g][r] = queue[g][r]
  PROVE  Place'
<1> SUFFICES ASSUME NEW r \in handle' PROVE PlaceOf(r)'
  BY DEF Place
<1>1. r \in handle /\ r \in Sources /\ \A g \in Groups : queue'[g][r] = queue[g][r]
  BY DEF Types
<1>2. lock[r] # None => lock[r] \in Threads /\ pc'[lock[r]] = pc[lock[r]]
  BY <1>1 DEF Control, OnlyMoves, Types
<1>3. GetThreadGroupForTraits(r)' = GetThreadGroupForTraits(r) /\ GetThreadGroupForTraits(r) \in Groups
  BY GroupTypes DEF GetThreadGroupForTraits, GroupFor
<1>4. PlaceOf(r)
  BY <1>1 DEF Place
<1> QED
  BY <1>1, <1>2, <1>3, <1>4 DEF PlaceOf, Unlocked

\* A Transaction is opened that does not change the traits.
LEMMA PlaceTakes ==
  ASSUME Types, Control, Place, NEW t \in Threads, OnlyMoves(t), pc[t] \notin LockPcs,
         NEW s \in Sources, Acquire(t, s), pc'[t] \notin {"sort", "remove"},
         UNCHANGED <<queue, handle, priority>>
  PROVE  Place'
<1>1. lock[s] = None /\ lock'[s] = t /\ \A r \in Sources : r # s => lock'[r] = lock[r]
  BY DEF Acquire, Types
<1>2. s \in handle => PlaceOf(s)
  BY DEF Place
<1>3. s \in handle' => PlaceOf(s)'
  BY <1>1, <1>2 DEF PlaceOf, Unlocked, GetThreadGroupForTraits
<1>4. handle' \subseteq Sources
  BY DEF Types
<1> QED
  BY <1>1, <1>3, <1>4, PlaceFrame

\* A push under the Transaction, which ends.
LEMMA PlacePushed ==
  ASSUME Types, Control, Shape, Place, NEW t \in Threads, OnlyMoves(t), pc[t] \in {"push", "locked"},
         PushOrRelease(GetThreadGroupForTraits(src[t]), src[t]), Release(src[t]),
         UNCHANGED priority
  PROVE  Place'
<1>0. PICK s \in Sources : s = src[t]
  BY SourceOf
<1> DEFINE g == GetThreadGroupForTraits(s)
<1>1. s \in Sources /\ lock[s] = t /\ t # None /\ g \in Groups
  BY <1>0, ThreadKinds, GroupTypes DEF Control, LockPcs
<1>2. lock'[s] = None /\ \A r \in Sources : r # s => lock'[r] = lock[r]
  BY <1>0, <1>1 DEF Release, Types
<1>3. /\ handle' = handle \cup {s}
      /\ \A h \in Groups, r \in Sources :
           queue'[h][r] = IF s \notin handle /\ h = g /\ r = s THEN <<priority[s]>> ELSE queue[h][r]
  BY <1>0, <1>1, PushPoints, Zenon
<1>4. s \in handle => queue[g][s] = <<priority[s]>>
  BY <1>0, <1>1 DEF Place, PlaceOf
<1>5. queue'[g][s] = <<priority[s]>>
  BY <1>1, <1>3, <1>4
<1>6. PlaceOf(s)'
  BY <1>2, <1>5 DEF PlaceOf, Unlocked, GetThreadGroupForTraits
<1>7. handle' \subseteq Sources
  BY <1>1, <1>3 DEF Types
<1>8. \A r \in Sources : r # s => /\ r \in handle' => r \in handle
                                  /\ \A h \in Groups : queue'[h][r] = queue[h][r]
                                  /\ lock'[r] = lock[r] /\ priority'[r] = priority[r]
  BY <1>2, <1>3
<1> QED
  BY <1>0, <1>1, <1>6, <1>7, <1>8, PlaceFrame

\* Every step leaves the nodes where they belong.
LEMMA NextPlace == Types /\ Control /\ Shape /\ Place /\ Next => Place'
<1> SUFFICES ASSUME Types, Control, Shape, Place, Next PROVE Place'
  OBVIOUS
<1> USE DEF queueVars, sourceVars, envVars
<1>1. ASSUME NEW t \in Clients, EnqueueJobTaskSource(t) PROVE Place'
  <2>1. t \in Threads /\ src[t] \in Sources
    BY <1>1, ThreadKinds, SourceOf DEF EnqueueJobTaskSource
  <2>2. OnlyMoves(t) /\ pc'[t] = "push"
    BY <1>1, <2>1, GoPoints DEF EnqueueJobTaskSource, Pcs
  <2> QED
    BY <1>1, <2>1, <2>2, PlaceTakes DEF EnqueueJobTaskSource, LockPcs
<1>2. ASSUME NEW t \in Threads, PushTaskSourceAndWakeUpWorkers(t) PROVE Place'
  <2>1. t \in Threads /\ src[t] \in Sources
    BY <1>2, ThreadKinds, SourceOf DEF PushTaskSourceAndWakeUpWorkers
  <2>2. OnlyMoves(t) /\ pc'[t] = "idle"
    BY <1>2, <2>1, GoPoints DEF PushTaskSourceAndWakeUpWorkers, Pcs
  <2> QED
    BY <1>2, <2>1, <2>2, PlacePushed DEF PushTaskSourceAndWakeUpWorkers
<1>3. ASSUME NEW t \in Clients, UpdateSortKey(t) PROVE Place'
  <2>1. t \in Threads /\ src[t] \in Sources
    BY <1>3, ThreadKinds, SourceOf DEF UpdateSortKey
  <2>2. OnlyMoves(t) /\ pc'[t] = "idle"
    BY <1>3, <2>1, GoPoints DEF UpdateSortKey, Pcs
  <2>3. lock'[src[t]] = None /\ \A r \in Sources : r # src[t] => lock'[r] = lock[r]
    BY <1>3, <2>1 DEF UpdateSortKey, Release, Types
  <2>4. PICK s \in Sources : s = src[t]
    BY <2>1
  <2> DEFINE g == GetThreadGroupForTraits(s)
  <2>5. g \in Groups /\ UNCHANGED <<handle, priority>> /\ handle \subseteq Sources
    BY <1>3, GroupTypes DEF UpdateSortKey, Types
  <2>6. queue' = IF s \in handle THEN [queue EXCEPT ![g][s] = <<priority[s]>>] ELSE queue
    BY <1>3, <2>1, <2>4, NodeIsHere DEF UpdateSortKey
  <2>7. /\ s \in handle => queue'[g][s] = <<priority[s]>>
        /\ \A h \in Groups, r \in Sources : r # s => queue'[h][r] = queue[h][r]
    BY <2>4, <2>5, <2>6 DEF Types
  <2>8. s \in handle' => PlaceOf(s)'
    BY <2>3, <2>4, <2>5, <2>7 DEF PlaceOf, Unlocked, GetThreadGroupForTraits
  <2> QED
    BY <2>1, <2>2, <2>3, <2>4, <2>5, <2>7, <2>8, PlaceFrame
<1>4. ASSUME NEW t \in Clients, RemoveTaskSource(t) PROVE Place'
  <2>1. t \in Threads /\ src[t] \in Sources
    BY <1>4, ThreadKinds, SourceOf DEF RemoveTaskSource
  <2>2. OnlyMoves(t)
    BY <1>4, <2>1, GoPoints DEF RemoveTaskSource, Pcs
  <2>3. \A r \in Sources : r # src[t] => lock'[r] = lock[r]
    BY <1>4, <2>1 DEF RemoveTaskSource, Release, Types
  <2>4. src[t] \in handle => {src[t]} \subseteq Queued(OtherGroup(GetThreadGroupForTraits(src[t])))
    BY <1>4, <2>1, NodeIsElsewhere DEF RemoveTaskSource
  <2>5. /\ \A h \in Groups, r \in Sources : r # src[t] => queue'[h][r] = queue[h][r]
        /\ handle' = handle \ {src[t]}
    BY <1>4, <2>4, PopPoints, GroupTypes DEF RemoveTaskSource
  <2> QED
    BY <1>4, <2>1, <2>2, <2>3, <2>5, PlaceFrame DEF RemoveTaskSource, Types
<1>5. ASSUME NEW t \in Clients, RemoveJobTaskSource(t) PROVE Place'
  <2>1. t \in Threads /\ src[t] \in Sources
    BY <1>5, ThreadKinds, SourceOf DEF RemoveJobTaskSource
  <2>2. OnlyMoves(t) /\ pc'[t] = "idle"
    BY <1>5, <2>1, GoPoints DEF RemoveJobTaskSource, Pcs
  <2>3. lock'[src[t]] = None /\ \A r \in Sources : r # src[t] => lock'[r] = lock[r]
    BY <1>5, <2>1 DEF RemoveJobTaskSource, Release, Types
  <2>4. src[t] \in handle => {src[t]} \subseteq Queued(GetThreadGroupForTraits(src[t]))
    BY <1>5, <2>1, NodeIsHere DEF RemoveJobTaskSource
  <2>5. /\ \A h \in Groups, r \in Sources : r # src[t] => queue'[h][r] = queue[h][r]
        /\ handle' = handle \ {src[t]}
    BY <1>5, <2>4, PopPoints, GroupTypes DEF RemoveJobTaskSource
  <2> QED
    BY <1>5, <2>1, <2>2, <2>3, <2>5, PlaceFrame DEF RemoveJobTaskSource, Types
<1>6. ASSUME NEW t \in Posters, NEW s \in Sources, PostTaskWithSequenceNow(t, s) PROVE Place'
  <2>1. t \in Threads
    BY ThreadKinds
  <2>2. CASE UNCHANGED <<lock, pc, src>>
    BY <1>6, <2>2 DEF PostTaskWithSequenceNow, Place, PlaceOf, Unlocked, GetThreadGroupForTraits
  <2>3. CASE Acquire(t, s) /\ Begin(t, s, "push")
    <3>1. OnlyMoves(t) /\ pc'[t] = "push"
      BY <2>1, <2>3, BeginPoints DEF Pcs
    <3> QED
      BY <1>6, <2>1, <2>3, <3>1, PlaceTakes DEF PostTaskWithSequenceNow, LockPcs
  <2> QED
    BY <1>6, <2>2, <2>3 DEF PostTaskWithSequenceNow
<1>7. ASSUME NEW t \in Posters, NEW s \in Sources, NotifyConcurrencyIncrease(t, s) PROVE Place'
  <2>1. t \in Threads
    BY ThreadKinds
  <2>2. OnlyMoves(t)
    BY <1>7, <2>1, BeginPoints DEF NotifyConcurrencyIncrease, Pcs, OnlyMoves
  <2> QED
    BY <1>7, <2>1, <2>2, PlaceKeeps DEF NotifyConcurrencyIncrease, LockPcs
<1>8. ASSUME NEW t \in Owners, NEW s \in Sources, Cancel(t, s) PROVE Place'
  <2>1. t \in Threads /\ OnlyMoves(t)
    BY <1>8, ThreadKinds DEF Cancel, OnlyMoves
  <2> QED
    BY <1>8, <2>1, PlaceKeeps DEF Cancel, LockPcs
<1>9. ASSUME NEW t \in Owners, NEW s \in Sources, JoinEnds(t, s) PROVE Place'
  <2>1. t \in Threads
    BY ThreadKinds
  <2>2. OnlyMoves(t) /\ pc'[t] = "join"
    BY <1>9, <2>1, BeginPoints DEF JoinEnds, Pcs
  <2> QED
    BY <1>9, <2>1, <2>2, PlaceTakes DEF JoinEnds, LockPcs
<1>10. ASSUME NEW t \in Owners, NEW s \in Sources, NEW p \in Priorities, UpdatePriority(t, s, p) PROVE Place'
  <2>1. t \in Threads
    BY ThreadKinds
  <2>2. /\ OnlyMoves(t)
        /\ pc'[t] = IF GroupFor(s, p) = GetThreadGroupForTraits(s) THEN "sort" ELSE "remove"
    BY <1>10, <2>1, BeginPoints DEF UpdatePriority, Pcs
  <2>3. /\ lock[s] = None /\ lock'[s] = t /\ \A r \in Sources : r # s => lock'[r] = lock[r]
        /\ priority'[s] = p /\ \A r \in Sources : r # s => priority'[r] = priority[r]
    BY <1>10 DEF UpdatePriority, Acquire, Types
  <2>4. GetThreadGroupForTraits(s)' = GroupFor(s, p)
    BY <2>3 DEF GetThreadGroupForTraits, GroupFor
  <2>5. s \in handle => queue[GetThreadGroupForTraits(s)][s] = <<priority[s]>> /\ priority[s] \in Priorities
    BY <2>3 DEF Place, PlaceOf, Unlocked, Types
  <2>6. s \in handle => \A g \in Groups : g # GetThreadGroupForTraits(s) => queue[g][s] = <<>>
    <3> SUFFICES ASSUME s \in handle, NEW g \in Groups, g # GetThreadGroupForTraits(s)
                 PROVE  queue[g][s] = <<>>
      OBVIOUS
    <3>1. queue[GetThreadGroupForTraits(s)][s] # <<>>
      BY <2>5, OneNode
    <3> QED
      BY <3>1, GroupTypes DEF Shape
  <2>7. s \in handle => PlaceOf(s)'
    <3>1. UNCHANGED queue /\ t # None
      BY <1>10, <2>1, ThreadKinds DEF UpdatePriority
    <3> QED
      BY <2>2, <2>3, <2>4, <2>5, <2>6, <3>1, GroupTypes, OneNode DEF PlaceOf, Unlocked
  <2>8. UNCHANGED <<queue, handle>> /\ handle' \subseteq Sources /\ pc[t] \notin LockPcs
    BY <1>10 DEF UpdatePriority, Types, LockPcs
  <2> QED
    BY <2>1, <2>2, <2>3, <2>7, <2>8, PlaceFrame
<1>11. ASSUME NEW t \in Workers, GetWork(t) PROVE Place'
  <2>1. t \in Threads /\ GroupOf[t] \in Groups
    BY ThreadKinds
  <2>2. PICK D \in SUBSET Queued(GroupOf[t]) :
          \/ Pop(GroupOf[t], D) /\ UNCHANGED <<pc, src>>
          \/ \E s \in Queued(GroupOf[t]) \ D :
               Begin(t, s, "run") /\ (Pop(GroupOf[t], D \cup {s}) \/ Pop(GroupOf[t], D))
    BY <1>11, GetWorkPoints
  <2>3. PICK E \in SUBSET Queued(GroupOf[t]) : Pop(GroupOf[t], E)
    BY <2>2
  <2>4. \A r \in handle' : r \in handle /\ \A h \in Groups : queue'[h][r] = queue[h][r]
    <3>1. /\ \A h \in Groups, r \in Sources :
               queue'[h][r] = IF h = GroupOf[t] /\ r \in E THEN <<>> ELSE queue[h][r]
          /\ handle' = handle \ E
      BY <2>1, <2>3, PopPoints, Zenon
    <3> QED
      BY <3>1 DEF Types
  <2>5. OnlyMoves(t)
    <3>1. \A s \in Queued(GroupOf[t]) : s \in Sources
      BY DEF Queued
    <3>2. \A s \in Sources : Begin(t, s, "run") => OnlyMoves(t)
      BY <2>1, BeginPoints DEF Pcs
    <3> QED
      BY <2>2, <3>1, <3>2 DEF OnlyMoves
  <2> QED
    BY <1>11, <2>1, <2>4, <2>5, GetWorkPoints, PlaceKeeps DEF LockPcs
<1>12. ASSUME NEW t \in Workers, TakeTask(t) PROVE Place'
  <2>1. t \in Threads /\ src[t] \in Sources
    BY <1>12, ThreadKinds, SourceOf DEF TakeTask
  <2>2. OnlyMoves(t) /\ pc'[t] \in {"did", "task"}
    BY <1>12, <2>1, GoPoints DEF TakeTask, Pcs
  <2> QED
    BY <1>12, <2>1, <2>2, PlaceKeeps DEF TakeTask, LockPcs
<1>13. ASSUME NEW t \in Workers, ProcessItem(t) PROVE Place'
  <2>1. t \in Threads /\ OnlyMoves(t)
    BY <1>13, ThreadKinds DEF ProcessItem, OnlyMoves
  <2> QED
    BY <1>13, <2>1, PlaceKeeps DEF ProcessItem, LockPcs
<1>14. ASSUME NEW t \in Workers, TaskReturns(t) PROVE Place'
  <2>1. t \in Threads /\ src[t] \in Sources
    BY <1>14, ThreadKinds, SourceOf DEF TaskReturns
  <2>2. OnlyMoves(t) /\ pc'[t] = "did"
    BY <1>14, <2>1, GoPoints DEF TaskReturns, Pcs
  <2> QED
    BY <1>14, <2>1, <2>2, PlaceKeeps DEF TaskReturns, LockPcs
<1>15. ASSUME NEW t \in Workers, DidProcessTask(t) PROVE Place'
  <2>1. t \in Threads /\ src[t] \in Sources
    BY <1>15, ThreadKinds, SourceOf DEF DidProcessTask
  <2>2. OnlyMoves(t) /\ pc'[t] \in {"reenqueue", "idle"}
    BY <1>15, <2>1, GoPoints DEF DidProcessTask, Pcs
  <2> QED
    BY <1>15, <2>1, <2>2, PlaceKeeps DEF DidProcessTask, LockPcs
<1>16. ASSUME NEW t \in Workers, BeginReenqueue(t) PROVE Place'
  <2>1. t \in Threads /\ src[t] \in Sources
    BY <1>16, ThreadKinds, SourceOf DEF BeginReenqueue
  <2>2. OnlyMoves(t) /\ pc'[t] = "locked"
    BY <1>16, <2>1, GoPoints DEF BeginReenqueue, Pcs
  <2> QED
    BY <1>16, <2>1, <2>2, PlaceTakes DEF BeginReenqueue, LockPcs
<1>17. ASSUME NEW t \in Workers, ReEnqueueTaskSource(t) PROVE Place'
  <2>1. t \in Threads /\ src[t] \in Sources
    BY <1>17, ThreadKinds, SourceOf DEF ReEnqueueTaskSource
  <2>2. OnlyMoves(t) /\ pc'[t] \in {"push", "idle"}
    BY <1>17, <2>1, GoPoints DEF ReEnqueueTaskSource, Pcs
  <2>3. CASE PushOrRelease(GetThreadGroupForTraits(src[t]), src[t]) /\ Release(src[t])
    BY <1>17, <2>1, <2>2, <2>3, PlacePushed DEF ReEnqueueTaskSource
  <2>4. CASE Go(t, "push") /\ UNCHANGED <<queueVars, lock>>
    <3>1. pc'[t] = "push" /\ lock[src[t]] = t /\ t # None
      BY <1>17, <2>1, <2>4, GoPoints, ThreadKinds DEF ReEnqueueTaskSource, Pcs, Control, LockPcs
    <3>2. src[t] \in handle => PlaceOf(src[t])
      BY DEF Place
    <3>3. UNCHANGED <<queue, handle, lock, priority>> /\ pc[t] = "locked"
      BY <1>17, <2>4 DEF ReEnqueueTaskSource
    <3>4. src[t] \in handle => queue[GetThreadGroupForTraits(src[t])][src[t]] = <<priority[src[t]]>>
      BY <3>1, <3>2, <3>3 DEF PlaceOf
    <3>5. ASSUME NEW s, s = src[t], s \in handle PROVE PlaceOf(s)'
      BY <3>1, <3>3, <3>4, <3>5 DEF PlaceOf, GetThreadGroupForTraits
    <3>6. PICK s \in Sources : s = src[t]
      BY <2>1
    <3> QED
      BY <2>1, <2>2, <3>3, <3>5, <3>6, PlaceFrame DEF Types
  <2> QED
    BY <1>17, <2>3, <2>4 DEF ReEnqueueTaskSource
<1>18. CASE StartShutdown
  BY <1>18 DEF StartShutdown, Place, PlaceOf, Unlocked, GetThreadGroupForTraits
<1> QED
  BY <1>1, <1>2, <1>3, <1>4, <1>5, <1>6, <1>7, <1>8, <1>9,
     <1>10, <1>11, <1>12, <1>13, <1>14, <1>15, <1>16, <1>17, <1>18
     DEF Next, ClientStep, WorkerStep, Threads, Clients

\* How a step of t changes what Accounting counts of s.
Balanced(t, s) ==
  /\ registered'[s] = registered[s] + (IF s \in handle' THEN 1 ELSE 0)
                                    - (IF s \in handle THEN 1 ELSE 0)
                                    + (IF src'[t] = s /\ pc'[t] \in HolderPcs THEN 1 ELSE 0)
                                    - (IF src[t] = s /\ pc[t] \in HolderPcs THEN 1 ELSE 0)
  /\ count'[s] = count[s]
       + (IF src'[t] = s /\ pc'[t] \in {"run", "task", "did"} THEN 1 ELSE 0)
       - (IF src[t] = s /\ pc[t] \in {"run", "task", "did"} THEN 1 ELSE 0)

LEMMA AccountingStep ==
  ASSUME Types, Accounting, NEW t \in Threads, OnlyMoves(t), \A s \in Sources : Balanced(t, s)
  PROVE  Accounting'
<1> SUFFICES ASSUME NEW s \in Sources
             PROVE  /\ registered'[s] = (IF s \in handle' THEN 1 ELSE 0) + Cardinality(Holders(s)')
                    /\ count'[s] = Cardinality(Running(s)')
  BY DEF Accounting
<1>1. Balanced(t, s)
  OBVIOUS
<1>2. /\ registered[s] = (IF s \in handle THEN 1 ELSE 0) + Cardinality(Holders(s))
      /\ count[s] = Cardinality(Running(s))
  BY DEF Accounting
<1>3. /\ Cardinality(Holders(s)) \in Nat /\ Cardinality(Running(s)) \in Nat
      /\ Cardinality(Holders(s)') \in Nat /\ Cardinality(Running(s)') \in Nat
      /\ Cardinality(Holders(s)') = Cardinality(Holders(s))
           + (IF src'[t] = s /\ pc'[t] \in HolderPcs THEN 1 ELSE 0)
           - (IF src[t] = s /\ pc[t] \in HolderPcs THEN 1 ELSE 0)
      /\ Cardinality(Running(s)') = Cardinality(Running(s))
           + (IF src'[t] = s /\ pc'[t] \in {"run", "task", "did"} THEN 1 ELSE 0)
           - (IF src[t] = s /\ pc[t] \in {"run", "task", "did"} THEN 1 ELSE 0)
  BY HolderStep
<1> QED
  BY <1>1, <1>2, <1>3 DEF Balanced

\* The step concerns s alone.
LEMMA BalanceFrame ==
  ASSUME Types, NEW t \in Threads, NEW s, src[t] \in {s, None}, src'[t] \in {s, None},
         \A r \in Sources : r # s => /\ registered'[r] = registered[r] /\ count'[r] = count[r]
                                     /\ r \in handle' <=> r \in handle,
         s \in Sources => Balanced(t, s)
  PROVE  \A r \in Sources : Balanced(t, r)
<1> SUFFICES ASSUME NEW r \in Sources, r # s PROVE Balanced(t, r)
  OBVIOUS
<1>1. src[t] # r /\ src'[t] # r
  BY ThreadKinds
<1>2. registered[r] \in Int /\ count[r] \in Int
  BY DEF Types
<1> QED
  BY <1>1, <1>2 DEF Balanced

\* Every step balances what it does to the registrations and the workers.
LEMMA NextAccounting == Types /\ Control /\ Shape /\ Place /\ Accounting /\ Next => Accounting'
<1> SUFFICES ASSUME Types, Control, Shape, Place, Accounting, Next PROVE Accounting'
  OBVIOUS
<1> USE DEF queueVars, sourceVars, envVars
<1>1. ASSUME NEW t \in Clients, EnqueueJobTaskSource(t) PROVE Accounting'
  <2>1. t \in Threads /\ src[t] \in Sources
    BY <1>1, ThreadKinds, SourceOf DEF EnqueueJobTaskSource
  <2>2. OnlyMoves(t) /\ pc'[t] = "push" /\ src'[t] = src[t]
    BY <1>1, <2>1, GoPoints DEF EnqueueJobTaskSource, Pcs
  <2>3. PICK s \in Sources : s = src[t]
    BY <2>1
  <2>4. s # None /\ registered[s] \in Int /\ count[s] \in Int
    BY ThreadKinds DEF Types
  <2>5. UNCHANGED <<handle, registered, count>>
    BY <1>1 DEF EnqueueJobTaskSource
  <2>6. Balanced(t, s)
    BY <1>1, <2>2, <2>3, <2>4, <2>5 DEF EnqueueJobTaskSource, Balanced, HolderPcs
  <2>7. \A r \in Sources : Balanced(t, r)
    BY <2>1, <2>2, <2>3, <2>5, <2>6, BalanceFrame
  <2> QED
    BY <2>1, <2>2, <2>7, AccountingStep
<1>2. ASSUME NEW t \in Threads, PushTaskSourceAndWakeUpWorkers(t) PROVE Accounting'
  <2>1. t \in Threads /\ src[t] \in Sources
    BY <1>2, ThreadKinds, SourceOf DEF PushTaskSourceAndWakeUpWorkers
  <2>2. OnlyMoves(t) /\ pc'[t] = "idle" /\ src'[t] = None
    BY <1>2, <2>1, GoPoints DEF PushTaskSourceAndWakeUpWorkers, Pcs
  <2>3. PICK s \in Sources : s = src[t]
    BY <2>1
  <2>4. s # None /\ registered[s] \in Int /\ count[s] \in Int
    BY ThreadKinds DEF Types
  <2>5. /\ handle' = handle \cup {s} /\ UNCHANGED count
        /\ \A r \in Sources : r # s => registered'[r] = registered[r]
        /\ registered'[s] = registered[s] - (IF s \in handle THEN 1 ELSE 0)
    <3>1. PICK g \in Groups : PushOrRelease(g, s)
      BY <1>2, <2>3, GroupTypes DEF PushTaskSourceAndWakeUpWorkers
    <3> QED
      BY <1>2, <3>1, PushPoints DEF PushTaskSourceAndWakeUpWorkers
  <2>6. Balanced(t, s)
    BY <1>2, <2>2, <2>3, <2>4, <2>5 DEF PushTaskSourceAndWakeUpWorkers, Balanced, HolderPcs
  <2>7. \A r \in Sources : Balanced(t, r)
    BY <2>1, <2>2, <2>3, <2>5, <2>6, BalanceFrame
  <2> QED
    BY <2>1, <2>2, <2>7, AccountingStep
<1>3. ASSUME NEW t \in Clients, UpdateSortKey(t) PROVE Accounting'
  <2>1. t \in Threads /\ src[t] \in Sources
    BY <1>3, ThreadKinds, SourceOf DEF UpdateSortKey
  <2>2. OnlyMoves(t) /\ pc'[t] = "idle" /\ src'[t] = None
    BY <1>3, <2>1, GoPoints DEF UpdateSortKey, Pcs
  <2>3. PICK s \in Sources : s = src[t]
    BY <2>1
  <2>4. s # None /\ registered[s] \in Int /\ count[s] \in Int
    BY ThreadKinds DEF Types
  <2>5. UNCHANGED <<handle, registered, count>>
    BY <1>3 DEF UpdateSortKey
  <2>6. Balanced(t, s)
    BY <1>3, <2>2, <2>3, <2>4, <2>5 DEF UpdateSortKey, Balanced, HolderPcs
  <2>7. \A r \in Sources : Balanced(t, r)
    BY <2>1, <2>2, <2>3, <2>5, <2>6, BalanceFrame
  <2> QED
    BY <2>1, <2>2, <2>7, AccountingStep
<1>4. ASSUME NEW t \in Clients, RemoveTaskSource(t) PROVE Accounting'
  <2>1. t \in Threads /\ src[t] \in Sources
    BY <1>4, ThreadKinds, SourceOf DEF RemoveTaskSource
  <2>3. PICK s \in Sources : s = src[t]
    BY <2>1
  <2>4. s # None /\ registered[s] \in Int /\ count[s] \in Int
    BY ThreadKinds DEF Types
  <2>5. /\ handle' = handle \ {s} /\ UNCHANGED <<registered, count>>
        /\ Go(t, IF s \in handle THEN "push" ELSE "idle")
    <3>1. s \in handle => Pop(OtherGroup(GetThreadGroupForTraits(s)), {s}) /\ Go(t, "push")
      BY <1>4, <2>1, <2>3, NodeIsElsewhere DEF RemoveTaskSource
    <3>2. s \notin handle => UNCHANGED handle /\ Go(t, "idle")
      BY <1>4, <2>3 DEF RemoveTaskSource
    <3> QED
      BY <1>4, <3>1, <3>2 DEF RemoveTaskSource, Pop
  <2>2. /\ OnlyMoves(t) /\ pc'[t] = IF s \in handle THEN "push" ELSE "idle"
        /\ src'[t] = IF s \in handle THEN s ELSE None
    BY <2>1, <2>3, <2>5, GoPoints DEF Pcs
  <2>6. Balanced(t, s)
    BY <1>4, <2>2, <2>3, <2>4, <2>5 DEF RemoveTaskSource, Balanced, HolderPcs
  <2>7. \A r \in Sources : Balanced(t, r)
    BY <2>1, <2>2, <2>3, <2>5, <2>6, BalanceFrame
  <2> QED
    BY <2>1, <2>2, <2>7, AccountingStep
<1>5. ASSUME NEW t \in Clients, RemoveJobTaskSource(t) PROVE Accounting'
  <2>1. t \in Threads /\ src[t] \in Sources
    BY <1>5, ThreadKinds, SourceOf DEF RemoveJobTaskSource
  <2>2. OnlyMoves(t) /\ pc'[t] = "idle" /\ src'[t] = None
    BY <1>5, <2>1, GoPoints DEF RemoveJobTaskSource, Pcs
  <2>3. PICK s \in Sources : s = src[t]
    BY <2>1
  <2>4. s # None /\ registered[s] \in Int /\ count[s] \in Int
    BY ThreadKinds DEF Types
  <2>5. /\ handle' = handle \ {s} /\ UNCHANGED count
        /\ \A r \in Sources : r # s => registered'[r] = registered[r]
        /\ registered'[s] = registered[s] - (IF s \in handle THEN 1 ELSE 0)
    <3>1. s \in handle => Pop(GetThreadGroupForTraits(s), {s}) /\ Unregister(s)
      BY <1>5, <2>1, <2>3, NodeIsHere DEF RemoveJobTaskSource
    <3>2. s \notin handle => UNCHANGED queueVars
      BY <1>5, <2>3 DEF RemoveJobTaskSource
    <3> QED
      BY <1>5, <2>4, <3>1, <3>2 DEF RemoveJobTaskSource, Pop, Unregister, Types
  <2>6. Balanced(t, s)
    BY <1>5, <2>2, <2>3, <2>4, <2>5 DEF RemoveJobTaskSource, Balanced, HolderPcs
  <2>7. \A r \in Sources : Balanced(t, r)
    BY <2>1, <2>2, <2>3, <2>5, <2>6, BalanceFrame
  <2> QED
    BY <2>1, <2>2, <2>7, AccountingStep
<1>6. ASSUME NEW t \in Posters, NEW s \in Sources, PostTaskWithSequenceNow(t, s) PROVE Accounting'
  <2>1. CASE UNCHANGED <<registered, pc, src>>
    BY <1>6, <2>1 DEF PostTaskWithSequenceNow, Accounting, Holders, Running
  <2>2. CASE Register(s) /\ Begin(t, s, "push")
    <3>1. t \in Threads /\ src[t] = None
      BY <1>6, <2>2, ThreadKinds DEF PostTaskWithSequenceNow, Control
    <3>2. OnlyMoves(t) /\ pc'[t] = "push" /\ src'[t] = s
      BY <1>6, <2>2, <3>1, BeginPoints DEF PostTaskWithSequenceNow, Pcs
    <3>3. s # None /\ registered[s] \in Int /\ count[s] \in Int
      BY ThreadKinds DEF Types
    <3>4. /\ UNCHANGED <<handle, count>> /\ registered'[s] = registered[s] + 1
          /\ \A r \in Sources : r # s => registered'[r] = registered[r]
      BY <1>6, <2>2 DEF PostTaskWithSequenceNow, Register, Types
    <3>5. Balanced(t, s)
      BY <1>6, <2>2, <3>1, <3>2, <3>3, <3>4 DEF PostTaskWithSequenceNow, Balanced, HolderPcs
    <3>6. \A r \in Sources : Balanced(t, r)
      BY <3>1, <3>2, <3>4, <3>5, BalanceFrame
    <3> QED
      BY <3>1, <3>2, <3>6, AccountingStep
  <2> QED
    BY <1>6, <2>1, <2>2 DEF PostTaskWithSequenceNow
<1>7. ASSUME NEW t \in Posters, NEW s \in Sources, NotifyConcurrencyIncrease(t, s) PROVE Accounting'
  <2>1. CASE UNCHANGED <<registered, pc, src>>
    BY <1>7, <2>1 DEF NotifyConcurrencyIncrease, Accounting, Holders, Running
  <2>2. CASE Register(s) /\ Begin(t, s, "enqueue")
    <3>1. t \in Threads /\ src[t] = None
      BY <1>7, <2>2, ThreadKinds DEF NotifyConcurrencyIncrease, Control
    <3>2. OnlyMoves(t) /\ pc'[t] = "enqueue" /\ src'[t] = s
      BY <1>7, <2>2, <3>1, BeginPoints DEF NotifyConcurrencyIncrease, Pcs
    <3>3. s # None /\ registered[s] \in Int /\ count[s] \in Int
      BY ThreadKinds DEF Types
    <3>4. /\ UNCHANGED <<handle, count>> /\ registered'[s] = registered[s] + 1
          /\ \A r \in Sources : r # s => registered'[r] = registered[r]
      BY <1>7, <2>2 DEF NotifyConcurrencyIncrease, Register, Types
    <3>5. Balanced(t, s)
      BY <1>7, <2>2, <3>1, <3>2, <3>3, <3>4 DEF NotifyConcurrencyIncrease, Balanced, HolderPcs
    <3>6. \A r \in Sources : Balanced(t, r)
      BY <3>1, <3>2, <3>4, <3>5, BalanceFrame
    <3> QED
      BY <3>1, <3>2, <3>6, AccountingStep
  <2> QED
    BY <1>7, <2>1, <2>2 DEF NotifyConcurrencyIncrease
<1>8. ASSUME NEW t \in Owners, NEW s \in Sources, Cancel(t, s) PROVE Accounting'
  BY <1>8 DEF Cancel, Accounting, Holders, Running
<1>9. ASSUME NEW t \in Owners, NEW s \in Sources, JoinEnds(t, s) PROVE Accounting'
  <2>1. t \in Threads /\ src[t] = None
    BY <1>9, ThreadKinds DEF JoinEnds, Control
  <2>2. OnlyMoves(t) /\ pc'[t] \in {"join"} /\ src'[t] = s
    BY <1>9, <2>1, BeginPoints DEF JoinEnds, Pcs
  <2>3. s # None /\ registered[s] \in Int /\ count[s] \in Int
    BY ThreadKinds DEF Types
  <2>4. UNCHANGED <<handle, registered, count>>
    BY <1>9 DEF JoinEnds
  <2>5. Balanced(t, s)
    BY <1>9, <2>1, <2>2, <2>3, <2>4 DEF JoinEnds, Balanced, HolderPcs
  <2>6. \A r \in Sources : Balanced(t, r)
    BY <2>1, <2>2, <2>4, <2>5, BalanceFrame
  <2> QED
    BY <2>1, <2>2, <2>6, AccountingStep
<1>10. ASSUME NEW t \in Owners, NEW s \in Sources, NEW p \in Priorities, UpdatePriority(t, s, p) PROVE Accounting'
  <2>1. t \in Threads /\ src[t] = None
    BY <1>10, ThreadKinds DEF UpdatePriority, Control
  <2>2. OnlyMoves(t) /\ pc'[t] \in {"sort", "remove"} /\ src'[t] = s
    BY <1>10, <2>1, BeginPoints DEF UpdatePriority, Pcs
  <2>3. s # None /\ registered[s] \in Int /\ count[s] \in Int
    BY ThreadKinds DEF Types
  <2>4. UNCHANGED <<handle, registered, count>>
    BY <1>10 DEF UpdatePriority
  <2>5. Balanced(t, s)
    BY <1>10, <2>1, <2>2, <2>3, <2>4 DEF UpdatePriority, Balanced, HolderPcs
  <2>6. \A r \in Sources : Balanced(t, r)
    BY <2>1, <2>2, <2>4, <2>5, BalanceFrame
  <2> QED
    BY <2>1, <2>2, <2>6, AccountingStep
<1>11. ASSUME NEW t \in Workers, GetWork(t) PROVE Accounting'
  <2>1. t \in Threads /\ GroupOf[t] \in Groups /\ src[t] = None /\ pc[t] = "idle"
    BY <1>11, GetWorkPoints, ThreadKinds DEF Control
  <2>2. PICK D \in SUBSET Queued(GroupOf[t]) :
          \/ Pop(GroupOf[t], D) /\ Discarded(D, None) /\ UNCHANGED <<count, pc, src>>
          \/ \E s \in Queued(GroupOf[t]) \ D :
               /\ count' = [count EXCEPT ![s] = @ + 1] /\ Begin(t, s, "run")
               /\ \/ Pop(GroupOf[t], D \cup {s}) /\ Discarded(D, None)
                  \/ Pop(GroupOf[t], D) /\ Discarded(D, s)
    BY <1>11, GetWorkPoints
  <2>3. \A d \in Sources : d # None /\ registered[d] \in Int /\ count[d] \in Int
    BY ThreadKinds DEF Types
  <2>4. Queued(GroupOf[t]) \subseteq handle /\ handle \subseteq Sources
    BY <2>1, QueuedHandle DEF Types
  <2>5. \A k : Discarded(D, k) =>
          \A d \in Sources : registered'[d] = registered[d] - (IF d \in D THEN 1 ELSE 0)
                                                            + (IF d = k THEN 1 ELSE 0)
    BY DEF Discarded
  <2>6. CASE Pop(GroupOf[t], D) /\ Discarded(D, None) /\ UNCHANGED <<count, pc, src>>
    <3>1. handle' = handle \ D
      BY <2>6 DEF Pop
    <3>2. \A d \in Sources : registered'[d] = registered[d] - (IF d \in D THEN 1 ELSE 0)
      BY <2>3, <2>5, <2>6
    <3>3. \A d \in Sources : Balanced(t, d)
      BY <2>1, <2>3, <2>4, <2>6, <3>1, <3>2 DEF Balanced
    <3> QED
      BY <2>1, <2>6, <3>3, AccountingStep DEF OnlyMoves
  <2>7. ASSUME NEW s \in Queued(GroupOf[t]) \ D, NEW E, NEW k,
               count' = [count EXCEPT ![s] = @ + 1], Begin(t, s, "run"), Pop(GroupOf[t], E),
               Discarded(D, k), (E = D \cup {s} /\ k = None) \/ (E = D /\ k = s)
        PROVE  Accounting'
    <3>1. handle' = handle \ E /\ s \in Sources /\ s \in handle
      BY <2>4, <2>7 DEF Pop
    <3>2. OnlyMoves(t) /\ pc'[t] = "run" /\ src'[t] = s
      BY <2>1, <2>7, <3>1, BeginPoints DEF Pcs
    <3>3. count'[s] = count[s] + 1 /\ \A d \in Sources : d # s => count'[d] = count[d]
      BY <2>7, <3>1 DEF Types
    <3>4. \A d \in Sources : registered'[d] = registered[d] - (IF d \in D THEN 1 ELSE 0)
                                                            + (IF d = k THEN 1 ELSE 0)
      BY <2>5, <2>7
    <3>5. ASSUME NEW d \in Sources PROVE Balanced(t, d)
      <4>1. d \in D => d \in handle /\ d # s
        BY <2>4
      <4>2. /\ registered[d] \in Int /\ count[d] \in Int /\ d # None
            /\ registered'[d] = registered[d] - (IF d \in D THEN 1 ELSE 0) + (IF d = k THEN 1 ELSE 0)
        BY <2>3, <3>4
      <4>3. d \in handle' <=> d \in handle /\ d \notin E
        BY <3>1
      <4>4. CASE d = s
        BY <2>1, <2>7, <3>1, <3>2, <3>3, <4>1, <4>2, <4>3, <4>4 DEF Balanced, HolderPcs
      <4>5. CASE d # s
        BY <2>1, <2>7, <3>1, <3>2, <3>3, <4>1, <4>2, <4>3, <4>5 DEF Balanced, HolderPcs
      <4> QED
        BY <4>4, <4>5
    <3> QED
      BY <2>1, <3>2, <3>5, AccountingStep
  <2> QED
    BY <2>2, <2>6, <2>7
<1>12. ASSUME NEW t \in Workers, TakeTask(t) PROVE Accounting'
  <2>1. t \in Threads /\ src[t] \in Sources
    BY <1>12, ThreadKinds, SourceOf DEF TakeTask
  <2>2. OnlyMoves(t) /\ pc'[t] \in {"did", "task"} /\ src'[t] = src[t]
    BY <1>12, <2>1, GoPoints DEF TakeTask, Pcs
  <2>3. PICK s \in Sources : s = src[t]
    BY <2>1
  <2>4. s # None /\ registered[s] \in Int /\ count[s] \in Int
    BY ThreadKinds DEF Types
  <2>5. UNCHANGED <<handle, registered, count>>
    BY <1>12 DEF TakeTask
  <2>6. Balanced(t, s)
    BY <1>12, <2>2, <2>3, <2>4, <2>5 DEF TakeTask, Balanced, HolderPcs
  <2>7. \A r \in Sources : Balanced(t, r)
    BY <2>1, <2>2, <2>3, <2>5, <2>6, BalanceFrame
  <2> QED
    BY <2>1, <2>2, <2>7, AccountingStep
<1>13. ASSUME NEW t \in Workers, ProcessItem(t) PROVE Accounting'
  BY <1>13 DEF ProcessItem, Accounting, Holders, Running
<1>14. ASSUME NEW t \in Workers, TaskReturns(t) PROVE Accounting'
  <2>1. t \in Threads /\ src[t] \in Sources
    BY <1>14, ThreadKinds, SourceOf DEF TaskReturns
  <2>2. OnlyMoves(t) /\ pc'[t] = "did" /\ src'[t] = src[t]
    BY <1>14, <2>1, GoPoints DEF TaskReturns, Pcs
  <2>3. PICK s \in Sources : s = src[t]
    BY <2>1
  <2>4. s # None /\ registered[s] \in Int /\ count[s] \in Int
    BY ThreadKinds DEF Types
  <2>5. UNCHANGED <<handle, registered, count>>
    BY <1>14 DEF TaskReturns
  <2>6. Balanced(t, s)
    BY <1>14, <2>2, <2>3, <2>4, <2>5 DEF TaskReturns, Balanced, HolderPcs
  <2>7. \A r \in Sources : Balanced(t, r)
    BY <2>1, <2>2, <2>3, <2>5, <2>6, BalanceFrame
  <2> QED
    BY <2>1, <2>2, <2>7, AccountingStep
<1>15. ASSUME NEW t \in Workers, DidProcessTask(t) PROVE Accounting'
  <2>1. t \in Threads /\ src[t] \in Sources
    BY <1>15, ThreadKinds, SourceOf DEF DidProcessTask
  <2>3. PICK s \in Sources : s = src[t]
    BY <2>1
  <2>4. s # None /\ registered[s] \in Int /\ count[s] \in Int
    BY ThreadKinds DEF Types
  <2>2. /\ OnlyMoves(t) /\ pc'[t] = IF MustBeQueued(s) THEN "reenqueue" ELSE "idle"
        /\ src'[t] = IF MustBeQueued(s) THEN s ELSE None
    BY <1>15, <2>1, <2>3, GoPoints DEF DidProcessTask, Pcs
  <2>5. /\ UNCHANGED handle
        /\ \A r \in Sources : r # s => registered'[r] = registered[r] /\ count'[r] = count[r]
        /\ registered'[s] = registered[s] - (IF MustBeQueued(s) THEN 0 ELSE 1)
        /\ count'[s] = count[s] - 1
    BY <1>15, <2>3, <2>4 DEF DidProcessTask, Unregister, Types
  <2>6. Balanced(t, s)
    BY <1>15, <2>2, <2>3, <2>4, <2>5 DEF DidProcessTask, Balanced, HolderPcs
  <2>7. \A r \in Sources : Balanced(t, r)
    BY <2>1, <2>2, <2>3, <2>5, <2>6, BalanceFrame
  <2> QED
    BY <2>1, <2>2, <2>7, AccountingStep
<1>16. ASSUME NEW t \in Workers, BeginReenqueue(t) PROVE Accounting'
  <2>1. t \in Threads /\ src[t] \in Sources
    BY <1>16, ThreadKinds, SourceOf DEF BeginReenqueue
  <2>2. OnlyMoves(t) /\ pc'[t] = "locked" /\ src'[t] = src[t]
    BY <1>16, <2>1, GoPoints DEF BeginReenqueue, Pcs
  <2>3. PICK s \in Sources : s = src[t]
    BY <2>1
  <2>4. s # None /\ registered[s] \in Int /\ count[s] \in Int
    BY ThreadKinds DEF Types
  <2>5. UNCHANGED <<handle, registered, count>>
    BY <1>16 DEF BeginReenqueue
  <2>6. Balanced(t, s)
    BY <1>16, <2>2, <2>3, <2>4, <2>5 DEF BeginReenqueue, Balanced, HolderPcs
  <2>7. \A r \in Sources : Balanced(t, r)
    BY <2>1, <2>2, <2>3, <2>5, <2>6, BalanceFrame
  <2> QED
    BY <2>1, <2>2, <2>7, AccountingStep
<1>17. ASSUME NEW t \in Workers, ReEnqueueTaskSource(t) PROVE Accounting'
  <2>1. CASE PushOrRelease(GroupOf[t], src[t]) /\ Go(t, "idle")
    <3>1. t \in Threads /\ src[t] \in Sources
      BY <1>17, <2>1, ThreadKinds, SourceOf DEF ReEnqueueTaskSource
    <3>2. OnlyMoves(t) /\ pc'[t] = "idle" /\ src'[t] = None
      BY <1>17, <2>1, <3>1, GoPoints DEF ReEnqueueTaskSource, Pcs
    <3>3. PICK s \in Sources : s = src[t]
      BY <3>1
    <3>4. s # None /\ registered[s] \in Int /\ count[s] \in Int
      BY ThreadKinds DEF Types
    <3>5. /\ handle' = handle \cup {s} /\ UNCHANGED count
          /\ \A r \in Sources : r # s => registered'[r] = registered[r]
          /\ registered'[s] = registered[s] - (IF s \in handle THEN 1 ELSE 0)
      <4>1. PICK g \in Groups : PushOrRelease(g, s)
        BY <1>17, <2>1, <3>3, ThreadKinds DEF ReEnqueueTaskSource
      <4> QED
        BY <1>17, <2>1, <4>1, PushPoints DEF ReEnqueueTaskSource
    <3>6. Balanced(t, s)
      BY <1>17, <2>1, <3>2, <3>3, <3>4, <3>5 DEF ReEnqueueTaskSource, Balanced, HolderPcs
    <3>7. \A r \in Sources : Balanced(t, r)
      BY <3>1, <3>2, <3>3, <3>5, <3>6, BalanceFrame
    <3> QED
      BY <3>1, <3>2, <3>7, AccountingStep
  <2>2. CASE Go(t, "push") /\ UNCHANGED <<queueVars, lock>>
    <3>1. t \in Threads /\ src[t] \in Sources
      BY <1>17, <2>2, ThreadKinds, SourceOf DEF ReEnqueueTaskSource
    <3>2. OnlyMoves(t) /\ pc'[t] = "push" /\ src'[t] = src[t]
      BY <1>17, <2>2, <3>1, GoPoints DEF ReEnqueueTaskSource, Pcs
    <3>3. PICK s \in Sources : s = src[t]
      BY <3>1
    <3>4. s # None /\ registered[s] \in Int /\ count[s] \in Int
      BY ThreadKinds DEF Types
    <3>5. UNCHANGED <<handle, registered, count>>
      BY <1>17, <2>2 DEF ReEnqueueTaskSource
    <3>6. Balanced(t, s)
      BY <1>17, <2>2, <3>2, <3>3, <3>4, <3>5 DEF ReEnqueueTaskSource, Balanced, HolderPcs
    <3>7. \A r \in Sources : Balanced(t, r)
      BY <3>1, <3>2, <3>3, <3>5, <3>6, BalanceFrame
    <3> QED
      BY <3>1, <3>2, <3>7, AccountingStep
  <2> QED
    BY <1>17, <2>1, <2>2 DEF ReEnqueueTaskSource
<1>18. CASE StartShutdown
  BY <1>18 DEF StartShutdown, Accounting, Holders, Running
<1> QED
  BY <1>1, <1>2, <1>3, <1>4, <1>5, <1>6, <1>7, <1>8, <1>9,
     <1>10, <1>11, <1>12, <1>13, <1>14, <1>15, <1>16, <1>17, <1>18
     DEF Next, ClientStep, WorkerStep, Threads, Clients

\* What the thread that holds a Sequence knows: it alone has it.
LEMMA SequenceHeld ==
  ASSUME Types, Accounting, SequenceStates, NEW t \in Threads, NEW s \in SequenceIds,
         src[t] = s, pc[t] \in HolderPcs
  PROVE  /\ registered[s] = 1 /\ s \notin handle
         /\ \A u \in Threads : src[u] = s /\ pc[u] \in HolderPcs => u = t
         /\ count[s] = IF pc[t] \in {"run", "task", "did"} THEN 1 ELSE 0
<1>1. s \in Sources /\ Cardinality(Holders(s)) \in Nat
  BY HoldersEmpty DEF Sources
<1>2. Cardinality(Holders(s)) # 0
  BY HoldersEmpty
<1>3. registered[s] = (IF s \in handle THEN 1 ELSE 0) + Cardinality(Holders(s))
  BY <1>1 DEF Accounting
<1>4. registered[s] \in {0, 1}
  BY DEF SequenceStates
<1>5. Cardinality(Holders(s)) = 1 /\ registered[s] = 1 /\ s \notin handle
  BY <1>1, <1>2, <1>3, <1>4
<1>6. \A u \in Threads : src[u] = s /\ pc[u] \in HolderPcs => u = t
  BY <1>5, HoldersEmpty
<1>7. Running(s) = IF pc[t] \in {"run", "task", "did"} THEN {t} ELSE {}
  BY <1>6 DEF Running, HolderPcs
<1>8. Cardinality(Running(s)) = IF pc[t] \in {"run", "task", "did"} THEN 1 ELSE 0
  BY <1>7, FS_EmptySet, FS_Singleton
<1> QED
  BY <1>1, <1>5, <1>6, <1>8 DEF Accounting

\* A queued Sequence is in nobody's hands.
LEMMA SequenceQueued ==
  ASSUME Types, Accounting, SequenceStates, NEW s \in SequenceIds, s \in handle
  PROVE  /\ registered[s] = 1 /\ pending[s] > 0 /\ count[s] = 0
         /\ \A u \in Threads : ~(src[u] = s /\ pc[u] \in HolderPcs)
<1>1. s \in Sources /\ Cardinality(Holders(s)) \in Nat
  BY HoldersEmpty DEF Sources
<1>2. registered[s] = 1 + Cardinality(Holders(s))
  BY <1>1 DEF Accounting
<1>3. pending[s] > 0 /\ registered[s] = 1
  BY DEF SequenceStates
<1>4. Cardinality(Holders(s)) = 0
  BY <1>1, <1>2, <1>3
<1>5. Cardinality(Running(s)) = 0 /\ \A u \in Threads : ~(src[u] = s /\ pc[u] \in HolderPcs)
  BY <1>4, HoldersEmpty
<1> QED
  BY <1>1, <1>3, <1>5 DEF Accounting

\* What SequenceStates says of one Sequence.
SequenceState(s) ==
  /\ registered[s] = IF pending[s] > 0 \/ count[s] > 0 THEN 1 ELSE 0
  /\ s \in handle => pending[s] > 0
  /\ \A t \in Threads : src[t] = s /\ pc[t] \in {"push", "run", "reenqueue", "locked"} =>
       pending[s] > 0

\* A step of t leaves a Sequence alone that it does not deal with.
LEMMA SequenceFrame ==
  ASSUME SequenceStates, NEW t \in Threads, OnlyMoves(t), NEW s,
         \A r \in SequenceIds : r # s =>
           /\ src'[t] # r /\ registered'[r] = registered[r] /\ pending'[r] = pending[r]
           /\ count'[r] = count[r] /\ (r \in handle' => r \in handle),
         s \in SequenceIds => SequenceState(s)'
  PROVE  SequenceStates'
<1>1. ASSUME NEW r \in SequenceIds, r # s PROVE SequenceState(r)'
  <2>1. /\ src'[t] # r /\ registered'[r] = registered[r] /\ pending'[r] = pending[r]
        /\ count'[r] = count[r] /\ (r \in handle' => r \in handle)
    BY <1>1
  <2>2. SequenceState(r)
    BY DEF SequenceStates, SequenceState
  <2> QED
    BY <2>1, <2>2 DEF SequenceState, OnlyMoves
<1>2. \A r \in SequenceIds : SequenceState(r)'
  BY <1>1
<1> QED
  BY <1>2 DEF SequenceStates, SequenceState

\* Every step keeps what the owner of a Sequence says of its tasks.
LEMMA NextSequenceStates == Types /\ Control /\ Shape /\ Place /\ Accounting /\ SequenceStates /\ Next => SequenceStates'
<1> SUFFICES ASSUME Types, Control, Shape, Place, Accounting, SequenceStates, Next PROVE SequenceStates'
  OBVIOUS
<1> USE DEF queueVars, sourceVars, envVars
<1>1. ASSUME NEW t \in Clients, EnqueueJobTaskSource(t) PROVE SequenceStates'
  <2>1. t \in Threads /\ src[t] \in Sources
    BY <1>1, ThreadKinds, SourceOf DEF EnqueueJobTaskSource
  <2>2. PICK s \in Sources : s = src[t]
    BY <2>1
  <2>3. OnlyMoves(t) /\ pc'[t] = "push" /\ src'[t] = s
    BY <1>1, <2>1, <2>2, GoPoints DEF EnqueueJobTaskSource, Pcs
  <2>4. \A r \in SequenceIds : r \in Sources /\ r # None /\ r \notin JobIds
    BY ThreadKinds, ThreadsAssumption DEF Sources
  <2>5. s \in SequenceIds => SequenceState(s)
    BY DEF SequenceStates, SequenceState
  <2>6. UNCHANGED <<handle, registered, pending, count>>
    BY <1>1 DEF EnqueueJobTaskSource
  <2>7. s \in SequenceIds => SequenceState(s)'
    BY <1>1, <2>1, <2>2, <2>4 DEF EnqueueJobTaskSource, Control
  <2> QED
    BY <2>1, <2>3, <2>4, <2>6, <2>7, SequenceFrame
<1>2. ASSUME NEW t \in Threads, PushTaskSourceAndWakeUpWorkers(t) PROVE SequenceStates'
  <2>1. t \in Threads /\ src[t] \in Sources
    BY <1>2, ThreadKinds, SourceOf DEF PushTaskSourceAndWakeUpWorkers
  <2>2. PICK s \in Sources : s = src[t]
    BY <2>1
  <2>3. OnlyMoves(t) /\ pc'[t] = "idle" /\ src'[t] = None
    BY <1>2, <2>1, <2>2, GoPoints DEF PushTaskSourceAndWakeUpWorkers, Pcs
  <2>4. \A r \in SequenceIds : r \in Sources /\ r # None /\ r \notin JobIds
    BY ThreadKinds, ThreadsAssumption DEF Sources
  <2>5. s \in SequenceIds => SequenceState(s)
    BY DEF SequenceStates, SequenceState
  <2>6. /\ handle' = handle \cup {s} /\ UNCHANGED <<pending, count>>
        /\ \A r \in Sources : r # s => registered'[r] = registered[r]
        /\ registered'[s] = registered[s] - (IF s \in handle THEN 1 ELSE 0)
    <3>1. PICK g \in Groups : PushOrRelease(g, s)
      BY <1>2, <2>2, GroupTypes DEF PushTaskSourceAndWakeUpWorkers
    <3> QED
      BY <1>2, <3>1, PushPoints DEF PushTaskSourceAndWakeUpWorkers
  <2>7. s \in SequenceIds => SequenceState(s)'
    <3>1. s \in SequenceIds => s \notin handle /\ registered[s] = 1
      BY <1>2, <2>1, <2>2, SequenceHeld DEF PushTaskSourceAndWakeUpWorkers, HolderPcs
    <3> QED
      BY <1>2, <2>1, <2>2, <2>3, <2>4, <2>5, <2>6, <3>1 DEF PushTaskSourceAndWakeUpWorkers,
             SequenceState, OnlyMoves
  <2> QED
    BY <2>1, <2>3, <2>4, <2>6, <2>7, SequenceFrame
<1>3. ASSUME NEW t \in Clients, UpdateSortKey(t) PROVE SequenceStates'
  <2>1. t \in Threads /\ src[t] \in Sources
    BY <1>3, ThreadKinds, SourceOf DEF UpdateSortKey
  <2>2. PICK s \in Sources : s = src[t]
    BY <2>1
  <2>3. OnlyMoves(t) /\ pc'[t] = "idle" /\ src'[t] = None
    BY <1>3, <2>1, <2>2, GoPoints DEF UpdateSortKey, Pcs
  <2>4. \A r \in SequenceIds : r \in Sources /\ r # None /\ r \notin JobIds
    BY ThreadKinds, ThreadsAssumption DEF Sources
  <2>5. s \in SequenceIds => SequenceState(s)
    BY DEF SequenceStates, SequenceState
  <2>6. UNCHANGED <<handle, registered, pending, count>>
    BY <1>3 DEF UpdateSortKey
  <2>7. s \in SequenceIds => SequenceState(s)'
    BY <1>3, <2>1, <2>2, <2>3, <2>4, <2>5, <2>6 DEF UpdateSortKey, SequenceState, OnlyMoves
  <2> QED
    BY <2>1, <2>3, <2>4, <2>6, <2>7, SequenceFrame
<1>4. ASSUME NEW t \in Clients, RemoveTaskSource(t) PROVE SequenceStates'
  <2>1. t \in Threads /\ src[t] \in Sources
    BY <1>4, ThreadKinds, SourceOf DEF RemoveTaskSource
  <2>2. PICK s \in Sources : s = src[t]
    BY <2>1
  <2>3. OnlyMoves(t) /\ pc'[t] \in {"push", "idle"} /\ src'[t] = IF pc'[t] = "push" THEN s ELSE None
    BY <1>4, <2>1, <2>2, GoPoints DEF RemoveTaskSource, Pcs
  <2>4. \A r \in SequenceIds : r \in Sources /\ r # None /\ r \notin JobIds
    BY ThreadKinds, ThreadsAssumption DEF Sources
  <2>5. s \in SequenceIds => SequenceState(s)
    BY DEF SequenceStates, SequenceState
  <2>6. /\ UNCHANGED <<registered, pending, count>> /\ handle' \subseteq handle
        /\ pc'[t] = "push" => s \in handle
    <3>1. (s \in handle /\ Pop(OtherGroup(GetThreadGroupForTraits(s)), {s})) \/ (UNCHANGED handle /\ Go(t, "idle"))
      BY <1>4, <2>2 DEF RemoveTaskSource
    <3>2. Go(t, "idle") => pc'[t] = "idle"
      BY <2>1, GoPoints DEF Pcs
    <3> QED
      BY <1>4, <3>1, <3>2 DEF RemoveTaskSource, Pop
  <2>7. s \in SequenceIds => SequenceState(s)'
    BY <1>4, <2>1, <2>2, <2>3, <2>4, <2>5, <2>6 DEF RemoveTaskSource, SequenceState, OnlyMoves
  <2> QED
    BY <2>1, <2>3, <2>4, <2>6, <2>7, SequenceFrame
<1>5. ASSUME NEW t \in Clients, RemoveJobTaskSource(t) PROVE SequenceStates'
  <2>1. t \in Threads /\ src[t] \in Sources
    BY <1>5, ThreadKinds, SourceOf DEF RemoveJobTaskSource
  <2>2. PICK s \in Sources : s = src[t]
    BY <2>1
  <2>3. OnlyMoves(t) /\ pc'[t] = "idle" /\ src'[t] = None
    BY <1>5, <2>1, <2>2, GoPoints DEF RemoveJobTaskSource, Pcs
  <2>4. \A r \in SequenceIds : r \in Sources /\ r # None /\ r \notin JobIds
    BY ThreadKinds, ThreadsAssumption DEF Sources
  <2>5. s \in SequenceIds => SequenceState(s)
    BY DEF SequenceStates, SequenceState
  <2>6. /\ s \notin SequenceIds /\ UNCHANGED <<pending, count>> /\ handle' \subseteq handle
        /\ \A r \in Sources : r # s => registered'[r] = registered[r]
    BY <1>5, <2>1, <2>2, <2>4 DEF RemoveJobTaskSource, Control, Pop, Unregister, Types
  <2>7. s \in SequenceIds => SequenceState(s)'
    BY <2>6
  <2> QED
    BY <2>1, <2>3, <2>4, <2>6, <2>7, SequenceFrame
<1>6. ASSUME NEW t \in Posters, NEW s \in Sources, PostTaskWithSequenceNow(t, s) PROVE SequenceStates'
  <2>1. t \in Threads /\ s \in SequenceIds /\ src[t] = None /\ \A r \in SequenceIds : r \in Sources /\ r # None
    BY <1>6, ThreadKinds DEF PostTaskWithSequenceNow, Control, Sources
  <2>2. OnlyMoves(t) /\ src'[t] \in {s, src[t]}
    BY <1>6, <2>1, BeginPoints DEF PostTaskWithSequenceNow, Pcs, OnlyMoves
  <2>3. SequenceState(s) /\ pending[s] \in Nat /\ count[s] \in Int /\ registered[s] \in Int
    BY <2>1 DEF SequenceStates, SequenceState, Types
  <2>4. /\ UNCHANGED <<handle, count>>
        /\ \A r \in Sources : r # s => registered'[r] = registered[r] /\ pending'[r] = pending[r]
    BY <1>6 DEF PostTaskWithSequenceNow, Register, Types
  <2>5. \/ /\ pending'[s] = pending[s] + 1
           /\ registered'[s] = registered[s] + (IF WillPushTask(s) THEN 1 ELSE 0)
        \/ UNCHANGED <<pending, registered, pc, src>>
    BY <1>6, <2>3 DEF PostTaskWithSequenceNow, Register, Types
  <2>6. count[s] >= 0
    BY <2>1, HoldersEmpty DEF Accounting
  <2>7. SequenceState(s)'
    <3>1. CASE UNCHANGED <<pending, registered, pc, src>>
      BY <2>3, <2>4, <3>1 DEF SequenceState
    <3>2. CASE /\ pending'[s] = pending[s] + 1
               /\ registered'[s] = registered[s] + (IF WillPushTask(s) THEN 1 ELSE 0)
      BY <2>3, <2>4, <2>6, <3>2 DEF SequenceState, WillPushTask
    <3> QED
      BY <2>5, <3>1, <3>2
  <2> QED
    BY <2>1, <2>2, <2>4, <2>7, SequenceFrame
<1>7. ASSUME NEW t \in Posters, NEW s \in Sources, NotifyConcurrencyIncrease(t, s) PROVE SequenceStates'
  <2>1. t \in Threads /\ \A r \in SequenceIds : r \in Sources /\ r # s
    BY <1>7, ThreadKinds, ThreadsAssumption DEF NotifyConcurrencyIncrease, Sources
  <2>2. OnlyMoves(t) /\ src'[t] \in {s, src[t]}
    BY <1>7, <2>1, BeginPoints DEF NotifyConcurrencyIncrease, Pcs, OnlyMoves
  <2>3. src[t] = None /\ \A r \in SequenceIds : r # None
    BY <1>7, <2>1, ThreadKinds DEF NotifyConcurrencyIncrease, Control
  <2>4. /\ \A r \in SequenceIds : registered'[r] = registered[r] /\ pending'[r] = pending[r]
        /\ UNCHANGED <<handle, count>>
    BY <1>7, <2>1 DEF NotifyConcurrencyIncrease, Register, Types
  <2> QED
    BY <2>1, <2>2, <2>3, <2>4, SequenceFrame
<1>8. ASSUME NEW t \in Owners, NEW s \in Sources, Cancel(t, s) PROVE SequenceStates'
  BY <1>8 DEF Cancel, SequenceStates
<1>9. ASSUME NEW t \in Owners, NEW s \in Sources, JoinEnds(t, s) PROVE SequenceStates'
  <2>1. t \in Threads /\ OnlyMoves(t) /\ pc'[t] = "join" /\ src'[t] = s
    BY <1>9, ThreadKinds, BeginPoints DEF JoinEnds, Pcs
  <2>2. s \in SequenceIds => SequenceState(s)
    BY DEF SequenceStates, SequenceState
  <2>3. UNCHANGED <<handle, registered, pending, count>>
    BY <1>9 DEF JoinEnds
  <2>4. s \in SequenceIds => SequenceState(s)'
    BY <2>1, <2>2, <2>3 DEF SequenceState, OnlyMoves
  <2> QED
    BY <2>1, <2>3, <2>4, SequenceFrame
<1>10. ASSUME NEW t \in Owners, NEW s \in Sources, NEW p \in Priorities, UpdatePriority(t, s, p) PROVE SequenceStates'
  <2>1. t \in Threads /\ OnlyMoves(t) /\ pc'[t] \in {"sort", "remove"} /\ src'[t] = s
    BY <1>10, ThreadKinds, BeginPoints DEF UpdatePriority, Pcs
  <2>2. s \in SequenceIds => SequenceState(s)
    BY DEF SequenceStates, SequenceState
  <2>3. UNCHANGED <<handle, registered, pending, count>>
    BY <1>10 DEF UpdatePriority
  <2>4. s \in SequenceIds => SequenceState(s)'
    BY <2>1, <2>2, <2>3 DEF SequenceState, OnlyMoves
  <2> QED
    BY <2>1, <2>3, <2>4, SequenceFrame
<1>11. ASSUME NEW t \in Workers, GetWork(t) PROVE SequenceStates'
  <2>1. t \in Threads /\ GroupOf[t] \in Groups /\ src[t] = None /\ UNCHANGED pending
    BY <1>11, GetWorkPoints, ThreadKinds DEF Control
  <2>2. PICK D \in SUBSET Queued(GroupOf[t]) :
          /\ D \subseteq JobIds
          /\ \/ Pop(GroupOf[t], D) /\ Discarded(D, None) /\ UNCHANGED <<count, pc, src>>
             \/ \E s \in Queued(GroupOf[t]) \ D :
                  /\ count' = [count EXCEPT ![s] = @ + 1] /\ Begin(t, s, "run")
                  /\ \/ Pop(GroupOf[t], D \cup {s}) /\ Discarded(D, None)
                     \/ s \in JobIds /\ Pop(GroupOf[t], D) /\ Discarded(D, s)
    BY <1>11, GetWorkPoints
  <2>3. \A r \in SequenceIds : r \in Sources /\ r # None /\ r \notin JobIds /\ r \notin D
    BY <2>2, ThreadKinds, ThreadsAssumption DEF Sources
  <2>4. Queued(GroupOf[t]) \subseteq handle /\ handle \subseteq Sources
    BY <2>1, QueuedHandle DEF Types
  <2>5. \A k : Discarded(D, k) => \A r \in SequenceIds : r # k => registered'[r] = registered[r]
    BY <2>3 DEF Discarded, Types
  <2>6. CASE Pop(GroupOf[t], D) /\ Discarded(D, None) /\ UNCHANGED <<count, pc, src>>
    <3>1. handle' \subseteq handle /\ \A r \in SequenceIds : registered'[r] = registered[r]
      BY <2>3, <2>5, <2>6 DEF Pop
    <3> QED
      BY <2>1, <2>6, <3>1 DEF SequenceStates
  <2>7. ASSUME NEW s \in Queued(GroupOf[t]) \ D, NEW E, NEW k,
               count' = [count EXCEPT ![s] = @ + 1], Begin(t, s, "run"), Pop(GroupOf[t], E),
               Discarded(D, k), (E = D \cup {s} /\ k = None) \/ (E = D /\ k = s /\ s \in JobIds)
        PROVE  SequenceStates'
    <3>1. handle' = handle \ E /\ s \in Sources /\ s \in handle
      BY <2>4, <2>7 DEF Pop
    <3>2. OnlyMoves(t) /\ pc'[t] = "run" /\ src'[t] = s
      BY <2>1, <2>7, <3>1, BeginPoints DEF Pcs
    <3>3. count'[s] = count[s] + 1 /\ \A d \in Sources : d # s => count'[d] = count[d]
      BY <2>7, <3>1 DEF Types
    <3>4. \A r \in SequenceIds : registered'[r] = registered[r]
      BY <2>3, <2>5, <2>7
    <3>5. ASSUME s \in SequenceIds PROVE SequenceState(s)'
      <4>1. /\ registered[s] = 1 /\ pending[s] > 0 /\ count[s] = 0
        BY <3>1, <3>5, SequenceQueued
      <4> QED
        BY <2>1, <3>3, <3>4, <3>5, <4>1 DEF SequenceState
    <3> QED
      BY <2>1, <2>3, <3>1, <3>2, <3>3, <3>4, <3>5, SequenceFrame
  <2> QED
    BY <2>2, <2>6, <2>7
<1>12. ASSUME NEW t \in Workers, TakeTask(t) PROVE SequenceStates'
  <2>1. t \in Threads /\ src[t] \in Sources
    BY <1>12, ThreadKinds, SourceOf DEF TakeTask
  <2>2. PICK s \in Sources : s = src[t]
    BY <2>1
  <2>3. OnlyMoves(t) /\ pc'[t] \in {"did", "task"} /\ src'[t] = s
    BY <1>12, <2>1, <2>2, GoPoints DEF TakeTask, Pcs
  <2>4. \A r \in SequenceIds : r \in Sources /\ r # None /\ r \notin JobIds
    BY ThreadKinds, ThreadsAssumption DEF Sources
  <2>5. s \in SequenceIds => SequenceState(s)
    BY DEF SequenceStates, SequenceState
  <2>6. /\ UNCHANGED <<handle, registered, count>>
        /\ \A r \in Sources : r # s => pending'[r] = pending[r]
    BY <1>12, <2>2 DEF TakeTask, Types
  <2>7. s \in SequenceIds => SequenceState(s)'
    <3>1. s \in SequenceIds =>
            /\ registered[s] = 1 /\ s \notin handle /\ count[s] = 1
            /\ \A u \in Threads : src[u] = s /\ pc[u] \in HolderPcs => u = t
      BY <1>12, <2>1, <2>2, SequenceHeld DEF TakeTask, HolderPcs
    <3> QED
      BY <2>1, <2>3, <2>6, <3>1 DEF SequenceState, OnlyMoves, HolderPcs
  <2> QED
    BY <2>1, <2>3, <2>4, <2>6, <2>7, SequenceFrame
<1>13. ASSUME NEW t \in Workers, ProcessItem(t) PROVE SequenceStates'
  <2>1. t \in Threads /\ src[t] \in JobIds /\ OnlyMoves(t)
    BY <1>13, ThreadKinds DEF ProcessItem, Control, OnlyMoves
  <2>2. \A r \in SequenceIds : r \in Sources /\ r # src[t]
    BY <2>1, ThreadsAssumption DEF Sources
  <2>3. \A r \in SequenceIds : pending'[r] = pending[r]
    BY <1>13, <2>2 DEF ProcessItem, Types
  <2> QED
    BY <1>13, <2>3 DEF ProcessItem, SequenceStates
<1>14. ASSUME NEW t \in Workers, TaskReturns(t) PROVE SequenceStates'
  <2>1. t \in Threads /\ src[t] \in Sources
    BY <1>14, ThreadKinds, SourceOf DEF TaskReturns
  <2>2. PICK s \in Sources : s = src[t]
    BY <2>1
  <2>3. OnlyMoves(t) /\ pc'[t] = "did" /\ src'[t] = s
    BY <1>14, <2>1, <2>2, GoPoints DEF TaskReturns, Pcs
  <2>4. \A r \in SequenceIds : r \in Sources /\ r # None /\ r \notin JobIds
    BY ThreadKinds, ThreadsAssumption DEF Sources
  <2>5. s \in SequenceIds => SequenceState(s)
    BY DEF SequenceStates, SequenceState
  <2>6. UNCHANGED <<handle, registered, pending, count>>
    BY <1>14 DEF TaskReturns
  <2>7. s \in SequenceIds => SequenceState(s)'
    BY <1>14, <2>1, <2>2, <2>4 DEF TaskReturns, Control
  <2> QED
    BY <2>1, <2>3, <2>4, <2>6, <2>7, SequenceFrame
<1>15. ASSUME NEW t \in Workers, DidProcessTask(t) PROVE SequenceStates'
  <2>1. t \in Threads /\ src[t] \in Sources
    BY <1>15, ThreadKinds, SourceOf DEF DidProcessTask
  <2>2. PICK s \in Sources : s = src[t]
    BY <2>1
  <2>3. OnlyMoves(t) /\ pc'[t] = (IF MustBeQueued(s) THEN "reenqueue" ELSE "idle") /\ src'[t] = IF MustBeQueued(s) THEN s ELSE None
    BY <1>15, <2>1, <2>2, GoPoints DEF DidProcessTask, Pcs
  <2>4. \A r \in SequenceIds : r \in Sources /\ r # None /\ r \notin JobIds
    BY ThreadKinds, ThreadsAssumption DEF Sources
  <2>5. s \in SequenceIds => SequenceState(s)
    BY DEF SequenceStates, SequenceState
  <2>6. /\ UNCHANGED <<handle, pending>>
        /\ \A r \in Sources : r # s => registered'[r] = registered[r] /\ count'[r] = count[r]
        /\ registered'[s] = registered[s] - (IF MustBeQueued(s) THEN 0 ELSE 1)
        /\ count'[s] = count[s] - 1
    BY <1>15, <2>2 DEF DidProcessTask, Unregister, Types
  <2>7. s \in SequenceIds => SequenceState(s)'
    <3>1. s \in SequenceIds =>
            /\ registered[s] = 1 /\ s \notin handle /\ count[s] = 1
            /\ \A u \in Threads : src[u] = s /\ pc[u] \in HolderPcs => u = t
      BY <1>15, <2>1, <2>2, SequenceHeld DEF DidProcessTask, HolderPcs
    <3>2. s \in SequenceIds => (MustBeQueued(s) <=> pending[s] > 0)
      BY <2>4 DEF MustBeQueued
    <3> QED
      BY <2>1, <2>3, <2>4, <2>6, <3>1, <3>2 DEF SequenceState, OnlyMoves, HolderPcs
  <2> QED
    BY <2>1, <2>3, <2>4, <2>6, <2>7, SequenceFrame
<1>16. ASSUME NEW t \in Workers, BeginReenqueue(t) PROVE SequenceStates'
  <2>1. t \in Threads /\ src[t] \in Sources
    BY <1>16, ThreadKinds, SourceOf DEF BeginReenqueue
  <2>2. PICK s \in Sources : s = src[t]
    BY <2>1
  <2>3. OnlyMoves(t) /\ pc'[t] = "locked" /\ src'[t] = s
    BY <1>16, <2>1, <2>2, GoPoints DEF BeginReenqueue, Pcs
  <2>4. \A r \in SequenceIds : r \in Sources /\ r # None /\ r \notin JobIds
    BY ThreadKinds, ThreadsAssumption DEF Sources
  <2>5. s \in SequenceIds => SequenceState(s)
    BY DEF SequenceStates, SequenceState
  <2>6. UNCHANGED <<handle, registered, pending, count>>
    BY <1>16 DEF BeginReenqueue
  <2>7. s \in SequenceIds => SequenceState(s)'
    BY <1>16, <2>1, <2>2, <2>3, <2>4, <2>5, <2>6 DEF BeginReenqueue, SequenceState, OnlyMoves
  <2> QED
    BY <2>1, <2>3, <2>4, <2>6, <2>7, SequenceFrame
<1>17. ASSUME NEW t \in Workers, ReEnqueueTaskSource(t) PROVE SequenceStates'
  <2>1. CASE PushOrRelease(GroupOf[t], src[t]) /\ Go(t, "idle")
    <3>1. t \in Threads /\ src[t] \in Sources
      BY <1>17, <2>1, ThreadKinds, SourceOf DEF ReEnqueueTaskSource
    <3>2. PICK s \in Sources : s = src[t]
      BY <3>1
    <3>3. OnlyMoves(t) /\ pc'[t] = "idle" /\ src'[t] = None
      BY <1>17, <2>1, <3>1, <3>2, GoPoints DEF ReEnqueueTaskSource, Pcs
    <3>4. \A r \in SequenceIds : r \in Sources /\ r # None /\ r \notin JobIds
      BY ThreadKinds, ThreadsAssumption DEF Sources
    <3>5. s \in SequenceIds => SequenceState(s)
      BY DEF SequenceStates, SequenceState
    <3>6. /\ handle' = handle \cup {s} /\ UNCHANGED <<pending, count>>
          /\ \A r \in Sources : r # s => registered'[r] = registered[r]
          /\ registered'[s] = registered[s] - (IF s \in handle THEN 1 ELSE 0)
      <4>1. PICK g \in Groups : PushOrRelease(g, s)
        BY <1>17, <2>1, <3>2, ThreadKinds DEF ReEnqueueTaskSource
      <4> QED
        BY <1>17, <2>1, <4>1, PushPoints DEF ReEnqueueTaskSource
    <3>7. s \in SequenceIds => SequenceState(s)'
      <4>1. s \in SequenceIds => s \notin handle /\ registered[s] = 1
        BY <1>17, <2>1, <3>1, <3>2, SequenceHeld DEF ReEnqueueTaskSource, HolderPcs
      <4> QED
        BY <1>17, <2>1, <3>1, <3>2, <3>3, <3>4, <3>5, <3>6, <4>1 DEF ReEnqueueTaskSource,
               SequenceState, OnlyMoves
    <3> QED
      BY <3>1, <3>3, <3>4, <3>6, <3>7, SequenceFrame
  <2>2. CASE Go(t, "push") /\ UNCHANGED <<queueVars, lock>>
    <3>1. t \in Threads /\ src[t] \in Sources
      BY <1>17, <2>2, ThreadKinds, SourceOf DEF ReEnqueueTaskSource
    <3>2. PICK s \in Sources : s = src[t]
      BY <3>1
    <3>3. OnlyMoves(t) /\ pc'[t] = "push" /\ src'[t] = s
      BY <1>17, <2>2, <3>1, <3>2, GoPoints DEF ReEnqueueTaskSource, Pcs
    <3>4. \A r \in SequenceIds : r \in Sources /\ r # None /\ r \notin JobIds
      BY ThreadKinds, ThreadsAssumption DEF Sources
    <3>5. s \in SequenceIds => SequenceState(s)
      BY DEF SequenceStates, SequenceState
    <3>6. UNCHANGED <<handle, registered, pending, count>>
      BY <1>17, <2>2 DEF ReEnqueueTaskSource
    <3>7. s \in SequenceIds => SequenceState(s)'
      BY <1>17, <2>2, <3>1, <3>2, <3>3, <3>4, <3>5, <3>6 DEF ReEnqueueTaskSource,
             SequenceState, OnlyMoves
    <3> QED
      BY <3>1, <3>3, <3>4, <3>6, <3>7, SequenceFrame
  <2> QED
    BY <1>17, <2>1, <2>2 DEF ReEnqueueTaskSource
<1>18. CASE StartShutdown
  BY <1>18 DEF StartShutdown, SequenceStates
<1> QED
  BY <1>1, <1>2, <1>3, <1>4, <1>5, <1>6, <1>7, <1>8, <1>9,
     <1>10, <1>11, <1>12, <1>13, <1>14, <1>15, <1>16, <1>17, <1>18
     DEF Next, ClientStep, WorkerStep, Threads, Clients

-----------------------------------------------------------------------------
(***************************************************************************)
(* The theorems.                                                           *)
(***************************************************************************)

\* Nothing is queued, held or running at first.
LEMMA InitInd == Init => IndInv
<1> SUFFICES ASSUME Init PROVE IndInv
  OBVIOUS
<1>1. Types
  <2>1. queue \in [Groups -> [Sources -> Seq(Priorities)]] /\ handle \subseteq Sources
    BY DEF Init
  <2>2. priority \in [Sources -> Priorities] /\ lock \in [Sources -> Threads \cup {None}]
    BY ThreadsAssumption DEF Init
  <2>3. registered \in [Sources -> Int] /\ pending \in [Sources -> Nat] /\ count \in [Sources -> Int]
    BY DEF Init
  <2>4. pc \in [Threads -> Pcs] /\ src \in [Threads -> Sources \cup {None}]
    BY DEF Init, Pcs
  <2>5. posts \in 0..MaxPosts /\ updates \in 0..MaxUpdates
    BY BoundsAssumption DEF Init
  <2>6. canceled \subseteq JobIds /\ joined \subseteq JobIds /\ shutdown \in BOOLEAN
    BY DEF Init
  <2> QED
    BY <2>1, <2>2, <2>3, <2>4, <2>5, <2>6 DEF Types
<1>2. Control /\ Shape /\ Place
  BY DEF Init, Control, LockPcs, Shape, Place
<1>3. \A s : Holders(s) = {} /\ Running(s) = {}
  BY DEF Init, Holders, Running
<1>4. \A s : Cardinality(Holders(s)) = 0 /\ Cardinality(Running(s)) = 0
  BY <1>3, FS_EmptySet
<1>5. Accounting
  BY <1>4 DEF Init, Accounting
<1>6. SequenceStates
  BY DEF Init, SequenceStates, Sources
<1> QED
  BY <1>1, <1>2, <1>5, <1>6 DEF IndInv

\* IndInv is inductive.
LEMMA NextInd == IndInv /\ [Next]_vars => IndInv'
<1>1. ASSUME IndInv, Next PROVE IndInv'
  BY <1>1, NextTypes, NextControl, NextShape, NextPlace, NextAccounting, NextSequenceStates
     DEF IndInv
<1>2. ASSUME IndInv, UNCHANGED vars PROVE IndInv'
  <2> USE <1>2 DEF IndInv, vars, queueVars, sourceVars, envVars
  <2>1. Types'
    BY DEF Types
  <2>2. Control'
    BY DEF Control
  <2>3. Shape'
    BY DEF Shape
  <2>4. Place'
    BY DEF Place, PlaceOf, Unlocked, GetThreadGroupForTraits
  <2>5. Accounting'
    BY DEF Accounting, Holders, Running
  <2>6. SequenceStates'
    BY DEF SequenceStates
  <2> QED
    BY <2>1, <2>2, <2>3, <2>4, <2>5, <2>6
<1> QED
  BY <1>1, <1>2

\* In every behaviour, Transactions, heap handles, sort keys, registrations and worker counts
\* agree with the places of the threads.
THEOREM Invariance == Spec => []IndInv
<1>1. Init => IndInv
  BY InitInd
<1>2. IndInv /\ [Next]_vars => IndInv'
  BY NextInd
<1> QED
  BY <1>1, <1>2, PTL DEF Spec

\* The nodes of a source are counted by its heap handle.
LEMMA NodesCounted ==
  ASSUME Types, Shape, NEW s \in Sources
  PROVE  Nodes(s) = IF s \in handle THEN 1 ELSE 0
<1>1. ASSUME s \notin handle PROVE Nodes(s) = 0
  <2>1. queue["background"][s] = <<>> /\ queue["foreground"][s] = <<>>
    BY <1>1 DEF Shape, Groups
  <2> QED
    BY <2>1 DEF Nodes
<1>2. ASSUME s \in handle PROVE Nodes(s) = 1
  <2>1. PICK g \in Groups, k \in Priorities :
          queue[g][s] = <<k>> /\ \A h \in Groups : h # g => queue[h][s] = <<>>
    BY <1>2 DEF Shape
  <2>2. Len(queue[g][s]) = 1 /\ Len(<<>>) = 0
    BY <2>1, OneNode
  <2>3. \A h \in Groups : h # g => Len(queue[h][s]) = 0
    BY <2>1, <2>2
  <2>4. g = "background" \/ g = "foreground"
    BY DEF Groups
  <2>5. "background" \in Groups /\ "foreground" \in Groups /\ "background" # "foreground"
    BY DEF Groups
  <2>6. CASE g = "background"
    <3>1. Len(queue["background"][s]) = 1 /\ Len(queue["foreground"][s]) = 0
      BY <2>2, <2>3, <2>5, <2>6
    <3> QED
      BY <3>1 DEF Nodes
  <2>7. CASE g = "foreground"
    <3>1. Len(queue["background"][s]) = 0 /\ Len(queue["foreground"][s]) = 1
      BY <2>2, <2>3, <2>5, <2>7
    <3> QED
      BY <3>1 DEF Nodes
  <2> QED
    BY <2>4, <2>6, <2>7
<1> QED
  BY <1>1, <1>2

\* A task source is in at most one priority queue, its heap handle is valid exactly then, and
\* outside of a Transaction it is in the queue of the group, and under the sort key, of its
\* traits, whatever UpdatePriority(), RemoveTaskSource() and ReEnqueueTaskSource() do to it.
THEOREM QueuedHolds == Spec => []QueuedWhereItBelongs
<1>1. IndInv => QueuedWhereItBelongs
  <2> SUFFICES ASSUME IndInv PROVE QueuedWhereItBelongs
    OBVIOUS
  <2> USE DEF IndInv
  <2>1. ASSUME NEW s \in Sources
        PROVE  registered[s] \in Nat /\ count[s] \in Nat
    <3>1. Cardinality(Holders(s)) \in Nat /\ Cardinality(Running(s)) \in Nat
      BY HoldersEmpty
    <3> QED
      BY <3>1 DEF Accounting
  <2>2. ASSUME NEW s \in SequenceIds PROVE count[s] <= 1
    <3>1. s \in Sources /\ Cardinality(Holders(s)) \in Nat
      BY HoldersEmpty DEF Sources
    <3>2. CASE Cardinality(Holders(s)) = 0
      <4>1. Cardinality(Running(s)) = 0
        BY <3>2, HoldersEmpty
      <4> QED
        BY <3>1, <4>1 DEF Accounting
    <3>3. ASSUME NEW t \in Threads, src[t] = s, pc[t] \in HolderPcs PROVE count[s] <= 1
      BY <3>3, SequenceHeld
    <3>4. (\A t \in Threads : ~(src[t] = s /\ pc[t] \in HolderPcs)) => Holders(s) = {}
      BY DEF Holders, HolderPcs
    <3>5. Holders(s) = {} => Cardinality(Holders(s)) = 0
      BY FS_EmptySet
    <3> QED
      BY <3>2, <3>3, <3>4, <3>5
  <2>3. TypeOK
    BY <2>1, <2>2 DEF Types, TypeOK, Pcs, Sources
  <2>4. ASSUME NEW s \in Sources, Unlocked(s), Nodes(s) = 1
        PROVE  queue[GetThreadGroupForTraits(s)][s] = <<priority[s]>>
    <3>1. s \in handle
      BY <2>4, NodesCounted
    <3> QED
      BY <2>4, <3>1 DEF Place, PlaceOf
  <2> QED
    BY <2>3, <2>4, NodesCounted DEF QueuedWhereItBelongs
<1> QED
  BY <1>1, Invariance, PTL

\* Every RegisteredTaskSource is in a queue or in the hands of one thread, and a Sequence has one
\* exactly while it has tasks or a worker: no two workers ever run its tasks.
THEOREM OwnedHolds == Spec => []OwnedExactly
<1>1. IndInv => OwnedExactly
  <2> SUFFICES ASSUME IndInv PROVE OwnedExactly
    OBVIOUS
  <2> USE DEF IndInv
  <2>1. ASSUME NEW s \in Sources PROVE registered[s] = Nodes(s) + Cardinality(Holders(s))
    BY NodesCounted DEF Accounting
  <2>2. ASSUME NEW s \in SequenceIds, Nodes(s) > 0 PROVE pending[s] > 0 /\ count[s] = 0
    <3>1. s \in Sources
      BY DEF Sources
    <3>2. s \in handle
      BY <2>2, <3>1, NodesCounted
    <3> QED
      BY <3>2, SequenceQueued
  <2> QED
    BY <2>1, <2>2 DEF OwnedExactly, SequenceStates
<1> QED
  BY <1>1, Invariance, PTL

=============================================================================
