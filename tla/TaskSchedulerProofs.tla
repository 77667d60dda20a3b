------------------------ MODULE TaskSchedulerProofs ------------------------
(***************************************************************************)
(* Proofs about TaskScheduler.tla, for any finite set of tasks, any number *)
(* of permits and any capacity.                                            *)
(***************************************************************************)
EXTENDS TaskScheduler, FiniteSetTheorems, SequenceTheorems, TLAPS

(* The inductive invariant: the four invariants support each other.  That  *)
(* a permit given back fits the semaphore follows from PermitsConserved;   *)
(* that a task taken from the queue was waiting, from QueueIsWaiting.      *)
PoolInv == TypeOK /\ PermitsConserved /\ WithinCapacity /\ QueueIsWaiting

-----------------------------------------------------------------------------
(* Sequences.                                                              *)

(* What Append does to a queue.                                            *)
LEMMA AppendFacts ==
  ASSUME NEW S, NEW q \in Seq(S), NEW x \in S
  PROVE  /\ Append(q, x) \in Seq(S)
         /\ Len(Append(q, x)) = Len(q) + 1
         /\ Append(q, x)[Len(q) + 1] = x
         /\ \A i \in 1 .. Len(q) : Append(q, x)[i] = q[i]
  OBVIOUS

(* What Tail does to a queue that is not empty.                            *)
LEMMA TailFacts ==
  ASSUME NEW S, NEW q \in Seq(S), q # <<>>
  PROVE  /\ Head(q) = q[1] /\ 1 \in 1 .. Len(q)
         /\ Tail(q) \in Seq(S)
         /\ Len(Tail(q)) = Len(q) - 1
         /\ \A i \in 1 .. Len(q) - 1 : Tail(q)[i] = q[i + 1]
  OBVIOUS

(* What RemoveAt does to a queue.                                          *)
LEMMA RemoveAtFacts ==
  ASSUME NEW S, NEW q \in Seq(S), NEW n \in 1 .. Len(q)
  PROVE  /\ RemoveAt(q, n) \in Seq(S)
         /\ Len(RemoveAt(q, n)) = Len(q) - 1
         /\ \A i \in 1 .. Len(q) - 1 :
              RemoveAt(q, n)[i] = IF i < n THEN q[i] ELSE q[i + 1]
<1> DEFINE a == SubSeq(q, 1, n - 1)
           b == SubSeq(q, n + 1, Len(q))
<1>1. /\ a \in Seq(S) /\ Len(a) = n - 1
      /\ \A i \in 1 .. n - 1 : a[i] = q[i]
  OBVIOUS
<1>2. /\ b \in Seq(S) /\ Len(b) = Len(q) - n
      /\ \A i \in 1 .. Len(q) - n : b[i] = q[n + i]
  <2>1. /\ n + 1 \in Int /\ Len(q) \in Int
        /\ \A i \in (n + 1) .. Len(q) : q[i] \in S
    OBVIOUS
  <2>2. /\ b \in Seq(S)
        /\ Len(b) = IF n + 1 <= Len(q) THEN Len(q) - (n + 1) + 1 ELSE 0
        /\ \A i \in 1 .. Len(q) - (n + 1) + 1 : b[i] = q[(n + 1) + i - 1]
    BY <2>1, SubSeqProperties
  <2>3. QED
    BY <2>2
<1>3. RemoveAt(q, n) = a \o b
  BY DEF RemoveAt
<1> HIDE DEF a, b
<1>4. a \o b \in Seq(S) /\ Len(a \o b) = Len(q) - 1
  <2>1. a \o b \in Seq(S) /\ Len(a \o b) = Len(a) + Len(b)
    BY <1>1, <1>2, ConcatProperties
  <2>2. Len(q) \in Nat /\ n \in Nat
    OBVIOUS
  <2>3. QED
    BY <1>1, <1>2, <2>1, <2>2
<1>5. ASSUME NEW i \in 1 .. Len(q) - 1
      PROVE  (a \o b)[i] = IF i < n THEN q[i] ELSE q[i + 1]
  <2>1. CASE i < n
    BY <1>1, <1>2, <2>1
  <2>2. CASE ~(i < n)
    <3>1. i - (n - 1) \in 1 .. Len(q) - n /\ n + (i - (n - 1)) = i + 1
      BY <2>2
    <3>2. (a \o b)[i] = b[i - (n - 1)]
      BY <1>1, <1>2, <2>2
    <3>3. QED
      BY <1>2, <2>2, <3>1, <3>2
  <2>3. QED
    BY <2>1, <2>2
<1>6. QED
  BY <1>3, <1>4, <1>5

(* The queue's invariant, element by element.                              *)
LEMMA QueueElements ==
  ASSUME waiting \in Seq(Tasks)
  PROVE  QueueIsWaiting <=>
           /\ \A i \in 1 .. Len(waiting) : state[waiting[i]] = "waiting"
           /\ \A t \in Tasks : state[t] = "waiting" =>
                \E i \in 1 .. Len(waiting) : waiting[i] = t
           /\ \A i, j \in 1 .. Len(waiting) : waiting[i] = waiting[j] => i = j
  BY DEF QueueIsWaiting

(* A queue is what is left of another without its n-th element.            *)
LEMMA Dequeued ==
  ASSUME TypeOK, QueueIsWaiting, NEW t \in Tasks, NEW n \in 1 .. Len(waiting),
         waiting[n] = t,
         waiting' \in Seq(Tasks),
         Len(waiting') = Len(waiting) - 1,
         \A i \in 1 .. Len(waiting) - 1 :
           waiting'[i] = IF i < n THEN waiting[i] ELSE waiting[i + 1],
         NEW s \in {"running", "finished"}, state' = [state EXCEPT ![t] = s]
  PROVE  QueueIsWaiting'
<1>1. /\ \A i \in 1 .. Len(waiting) : state[waiting[i]] = "waiting"
      /\ \A u \in Tasks : state[u] = "waiting" =>
           \E i \in 1 .. Len(waiting) : waiting[i] = u
      /\ \A i, j \in 1 .. Len(waiting) : waiting[i] = waiting[j] => i = j
  BY QueueElements DEF TypeOK
<1>2. \A i \in 1 .. Len(waiting') : state'[waiting'[i]] = "waiting"
  <2> TAKE i \in 1 .. Len(waiting')
  <2>1. PICK k \in 1 .. Len(waiting) : k # n /\ waiting'[i] = waiting[k]
    BY DEF TypeOK
  <2>2. waiting[k] # t /\ waiting[k] \in Tasks
    BY <1>1, <2>1 DEF TypeOK
  <2>3. QED
    BY <1>1, <2>1, <2>2 DEF TypeOK
<1>3. \A u \in Tasks : state'[u] = "waiting" =>
        \E i \in 1 .. Len(waiting') : waiting'[i] = u
  <2> SUFFICES ASSUME NEW u \in Tasks, state'[u] = "waiting"
               PROVE  \E i \in 1 .. Len(waiting') : waiting'[i] = u
    OBVIOUS
  <2>1. u # t /\ state[u] = "waiting"
    BY DEF TypeOK
  <2>2. PICK k \in 1 .. Len(waiting) : waiting[k] = u
    BY <1>1, <2>1
  <2>3. k # n
    BY <2>1, <2>2
  <2>4. CASE k < n
    BY <2>2, <2>4 DEF TypeOK
  <2>5. CASE k > n
    <3>1. k - 1 \in 1 .. Len(waiting) - 1 /\ ~(k - 1 < n) /\ (k - 1) + 1 = k
      BY <2>5 DEF TypeOK
    <3>2. waiting'[k - 1] = u
      BY <3>1, <2>2
    <3>3. QED
      BY <3>1, <3>2
  <2>6. QED
    BY <2>3, <2>4, <2>5
<1>4. \A i, j \in 1 .. Len(waiting') : waiting'[i] = waiting'[j] => i = j
  <2> DEFINE k(i) == IF i < n THEN i ELSE i + 1
  <2>1. \A i \in 1 .. Len(waiting') : k(i) \in 1 .. Len(waiting)
                                    /\ waiting'[i] = waiting[k(i)]
    BY DEF TypeOK
  <2>2. \A i, j \in 1 .. Len(waiting') : k(i) = k(j) => i = j
    OBVIOUS
  <2> HIDE DEF k
  <2>3. QED
    BY <1>1, <2>1, <2>2
<1>5. QED
  BY <1>2, <1>3, <1>4 DEF QueueIsWaiting

-----------------------------------------------------------------------------
(* Counting.                                                               *)

(* Running and Live are finite, and their sizes are natural numbers.       *)
LEMMA Sizes ==
  /\ IsFiniteSet(Running) /\ Cardinality(Running) \in Nat
  /\ IsFiniteSet(Live) /\ Cardinality(Live) \in Nat
<1>1. Running \in SUBSET Tasks /\ Live \in SUBSET Tasks
  BY DEF Running, Live
<1>2. QED
  BY <1>1, PoolAssumption, FS_Subset, FS_CardinalityType

(* How the counts change with the state of one task.                       *)
LEMMA Counts ==
  ASSUME TypeOK, NEW t \in Tasks, NEW s \in {"waiting", "running", "finished"},
         state' = [state EXCEPT ![t] = s]
  PROVE  /\ state[t] = "none" /\ s = "waiting" =>
              /\ Cardinality(Running') = Cardinality(Running)
              /\ Cardinality(Live') = Cardinality(Live) + 1
         /\ state[t] = "waiting" /\ s = "running" =>
              /\ Cardinality(Running') = Cardinality(Running) + 1
              /\ Cardinality(Live') = Cardinality(Live)
         /\ state[t] = "waiting" /\ s = "finished" =>
              /\ Cardinality(Running') = Cardinality(Running)
              /\ Cardinality(Live') = Cardinality(Live) - 1
         /\ state[t] = "running" /\ s = "finished" =>
              /\ Cardinality(Running') = Cardinality(Running) - 1
              /\ Cardinality(Live') = Cardinality(Live) - 1
<1>1. /\ Cardinality(Running \cup {t}) =
           IF t \in Running THEN Cardinality(Running) ELSE Cardinality(Running) + 1
      /\ Cardinality(Running \ {t}) =
           IF t \in Running THEN Cardinality(Running) - 1 ELSE Cardinality(Running)
      /\ Cardinality(Live \cup {t}) =
           IF t \in Live THEN Cardinality(Live) ELSE Cardinality(Live) + 1
      /\ Cardinality(Live \ {t}) =
           IF t \in Live THEN Cardinality(Live) - 1 ELSE Cardinality(Live)
  BY Sizes, FS_AddElement, FS_RemoveElement
<1>2. ASSUME state[t] = "none", s = "waiting"
      PROVE  Running' = Running /\ Live' = Live \cup {t} /\ t \notin Live
  BY <1>2 DEF TypeOK, Running, Live
<1>3. ASSUME state[t] = "waiting", s = "running"
      PROVE  Running' = Running \cup {t} /\ Live' = Live /\ t \notin Running
  BY <1>3 DEF TypeOK, Running, Live
<1>4. ASSUME state[t] = "waiting", s = "finished"
      PROVE  Running' = Running /\ Live' = Live \ {t} /\ t \in Live
  BY <1>4 DEF TypeOK, Running, Live
<1>5. ASSUME state[t] = "running", s = "finished"
      PROVE  Running' = Running \ {t} /\ Live' = Live \ {t} /\ t \in Running /\ t \in Live
  BY <1>5 DEF TypeOK, Running, Live
<1>6. QED
  BY <1>1, <1>2, <1>3, <1>4, <1>5

-----------------------------------------------------------------------------
(* The actions, one by one.                                                *)

(* A pool just made satisfies the invariant.                               *)
LEMMA InitPool == Init => PoolInv
<1> SUFFICES ASSUME Init PROVE PoolInv
  OBVIOUS
<1>1. Running = {} /\ Live = {}
  BY DEF Init, Running, Live
<1>2. Cardinality(Running) = 0 /\ Cardinality(Live) = 0
  BY <1>1, FS_EmptySet
<1>3. TypeOK
  BY PoolAssumption DEF Init, TypeOK
<1>4. QueueIsWaiting
  BY DEF Init, QueueIsWaiting
<1>5. QED
  BY <1>2, <1>3, <1>4, PoolAssumption
     DEF Init, PoolInv, PermitsConserved, WithinCapacity, InFlight

(* Steps that change neither the tasks nor the queue.                      *)
LEMMA SameTasks ==
  ASSUME PoolInv, UNCHANGED <<state, permits, waiting>>
  PROVE  /\ Running' = Running /\ Live' = Live
         /\ PermitsConserved' /\ QueueIsWaiting'
  BY DEF PoolInv, PermitsConserved, QueueIsWaiting, Running, Live

(* reserve() keeps the pool within its capacity.                           *)
LEMMA ReserveStep ==
  ASSUME PoolInv, Reserve
  PROVE  PoolInv'
<1>1. TypeOK'
  BY DEF PoolInv, TypeOK, Reserve
<1>2. WithinCapacity'
  BY SameTasks, Sizes, PoolAssumption
     DEF PoolInv, TypeOK, Reserve, WithinCapacity, InFlight
<1>3. QED
  BY <1>1, <1>2, SameTasks DEF PoolInv, Reserve

(* Leaving the `with` block gives the slot back.                           *)
LEMMA ReleaseStep ==
  ASSUME PoolInv, ReleaseReservation
  PROVE  PoolInv'
<1>1. TypeOK'
  BY DEF PoolInv, TypeOK, ReleaseReservation
<1>2. WithinCapacity'
  BY SameTasks, Sizes, PoolAssumption
     DEF PoolInv, TypeOK, ReleaseReservation, WithinCapacity, InFlight
<1>3. QED
  BY <1>1, <1>2, SameTasks DEF PoolInv, ReleaseReservation

(* submit() takes the slot over.                                           *)
LEMMA SubmitStep ==
  ASSUME PoolInv, NEW t \in Tasks, Submit(t)
  PROVE  PoolInv'
<1>1. TypeOK'
  BY AppendFacts DEF PoolInv, TypeOK, Submit
<1>2. /\ Cardinality(Running') = Cardinality(Running)
      /\ Cardinality(Live') = Cardinality(Live) + 1
  BY Counts DEF PoolInv, Submit
<1>3. PermitsConserved' /\ WithinCapacity'
  BY <1>2, Sizes, PoolAssumption
     DEF PoolInv, TypeOK, Submit, PermitsConserved, WithinCapacity, InFlight
<1>4. QueueIsWaiting'
  <2>1. /\ \A i \in 1 .. Len(waiting) : state[waiting[i]] = "waiting"
        /\ \A u \in Tasks : state[u] = "waiting" =>
             \E i \in 1 .. Len(waiting) : waiting[i] = u
        /\ \A i, j \in 1 .. Len(waiting) : waiting[i] = waiting[j] => i = j
    BY QueueElements DEF PoolInv, TypeOK
  <2>2. /\ waiting \in Seq(Tasks) /\ Len(waiting) \in Nat
        /\ Len(waiting') = Len(waiting) + 1
        /\ waiting'[Len(waiting) + 1] = t
        /\ \A i \in 1 .. Len(waiting) : waiting'[i] = waiting[i]
        /\ state[t] = "none" /\ state' = [state EXCEPT ![t] = "waiting"]
        /\ state \in [Tasks -> {"none", "waiting", "running", "finished"}]
    BY AppendFacts DEF PoolInv, TypeOK, Submit
  <2>3. \A i \in 1 .. Len(waiting) : waiting[i] \in Tasks /\ waiting[i] # t
    BY <2>1, <2>2
  <2>4. \A i \in 1 .. Len(waiting') : i \in 1 .. Len(waiting) \/ i = Len(waiting) + 1
    BY <2>2
  <2>5. \A i \in 1 .. Len(waiting') : state'[waiting'[i]] = "waiting"
    BY <2>1, <2>2, <2>3, <2>4
  <2>6. \A u \in Tasks : state'[u] = "waiting" =>
          \E i \in 1 .. Len(waiting') : waiting'[i] = u
    BY <2>1, <2>2
  <2>7. \A i, j \in 1 .. Len(waiting') : waiting'[i] = waiting'[j] => i = j
    BY <2>1, <2>2, <2>3, <2>4
  <2>8. QED
    BY <1>1, <2>5, <2>6, <2>7 DEF QueueIsWaiting, TypeOK
<1>5. QED
  BY <1>1, <1>3, <1>4 DEF PoolInv

(* A task gets its permit.                                                 *)
LEMMA StartStep ==
  ASSUME PoolInv, NEW t \in Tasks, Start(t)
  PROVE  PoolInv'
<1>1. /\ waiting \in Seq(Tasks) /\ waiting # <<>> /\ t = waiting[1]
      /\ 1 \in 1 .. Len(waiting)
      /\ waiting' \in Seq(Tasks) /\ Len(waiting') = Len(waiting) - 1
      /\ \A i \in 1 .. Len(waiting) - 1 : waiting'[i] = waiting[i + 1]
      /\ state' = [state EXCEPT ![t] = "running"]
  BY TailFacts DEF PoolInv, TypeOK, Start
<1>2. state[t] = "waiting"
  BY <1>1, QueueElements DEF PoolInv
<1>3. TypeOK'
  <2>1. permits' \in 0 .. MaxConcurrent
    BY PoolAssumption DEF PoolInv, TypeOK, Start
  <2>2. state' \in [Tasks -> {"none", "waiting", "running", "finished"}]
    BY <1>1 DEF PoolInv, TypeOK
  <2>3. QED
    BY <1>1, <2>1, <2>2 DEF PoolInv, TypeOK, Start
<1>4. /\ Cardinality(Running') = Cardinality(Running) + 1
      /\ Cardinality(Live') = Cardinality(Live)
  BY <1>1, <1>2, Counts DEF PoolInv
<1>5. PermitsConserved' /\ WithinCapacity'
  BY <1>4, Sizes, PoolAssumption
     DEF PoolInv, TypeOK, Start, PermitsConserved, WithinCapacity, InFlight
<1>6. \A i \in 1 .. Len(waiting) - 1 :
        waiting'[i] = IF i < 1 THEN waiting[i] ELSE waiting[i + 1]
  BY <1>1
<1>7. QueueIsWaiting'
  BY <1>1, <1>6, Dequeued DEF PoolInv
<1>8. QED
  BY <1>3, <1>5, <1>7 DEF PoolInv

(* A task is cancelled while it waits.                                     *)
LEMMA CancelWaitingStep ==
  ASSUME PoolInv, NEW t \in Tasks, CancelWaiting(t)
  PROVE  PoolInv'
<1>1. PICK n \in 1 .. Len(waiting) : waiting[n] = t /\ waiting' = RemoveAt(waiting, n)
  BY DEF CancelWaiting
<1>2. /\ waiting \in Seq(Tasks)
      /\ waiting' \in Seq(Tasks) /\ Len(waiting') = Len(waiting) - 1
      /\ \A i \in 1 .. Len(waiting) - 1 :
           waiting'[i] = IF i < n THEN waiting[i] ELSE waiting[i + 1]
      /\ state' = [state EXCEPT ![t] = "finished"]
  BY <1>1, RemoveAtFacts DEF PoolInv, TypeOK, CancelWaiting
<1>3. state[t] = "waiting"
  BY <1>1, <1>2, QueueElements DEF PoolInv
<1>4. TypeOK'
  BY <1>2 DEF PoolInv, TypeOK, CancelWaiting
<1>5. /\ Cardinality(Running') = Cardinality(Running)
      /\ Cardinality(Live') = Cardinality(Live) - 1
  BY <1>2, <1>3, Counts DEF PoolInv
<1>6. PermitsConserved' /\ WithinCapacity'
  BY <1>5, Sizes, PoolAssumption
     DEF PoolInv, TypeOK, CancelWaiting, PermitsConserved, WithinCapacity, InFlight
<1>7. QueueIsWaiting'
  BY <1>1, <1>2, Dequeued DEF PoolInv
<1>8. QED
  BY <1>4, <1>6, <1>7 DEF PoolInv

(* A task ends and gives its permit back.                                  *)
LEMMA FinishStep ==
  ASSUME PoolInv, NEW t \in Tasks, Finish(t)
  PROVE  PoolInv'
<1>1. /\ Cardinality(Running') = Cardinality(Running) - 1
      /\ Cardinality(Live') = Cardinality(Live) - 1
  BY Counts DEF PoolInv, Finish
<1>2. Cardinality(Running) \in Nat \ {0}
  <2>1. t \in Running
    BY DEF Finish, Running
  <2>2. QED
    BY <2>1, Sizes, FS_EmptySet
<1>3. PermitsConserved' /\ WithinCapacity'
  BY <1>1, <1>2, Sizes, PoolAssumption
     DEF PoolInv, TypeOK, Finish, PermitsConserved, WithinCapacity, InFlight
<1>4. permits' \in 0 .. MaxConcurrent
  BY <1>2, PoolAssumption DEF PoolInv, TypeOK, Finish, PermitsConserved
<1>5. TypeOK'
  BY <1>4 DEF PoolInv, TypeOK, Finish
<1>6. QueueIsWaiting'
  BY DEF PoolInv, TypeOK, Finish, QueueIsWaiting
<1>7. QED
  BY <1>3, <1>5, <1>6 DEF PoolInv

(* Requesting and delivering cancellations, and shutting down, move no     *)
(* task.                                                                   *)
LEMMA OtherSteps ==
  ASSUME PoolInv,
         \/ \E t \in Tasks : Deliver(t) \/ RequestCancel(t)
         \/ BeginShutdown \/ DrainTimeout \/ EndShutdown
         \/ UNCHANGED poolVars
  PROVE  PoolInv'
<1>1. UNCHANGED <<state, permits, waiting, reserved>>
  BY DEF Deliver, RequestCancel, BeginShutdown, DrainTimeout, EndShutdown, poolVars
<1>2. cancelled' \subseteq Tasks
  BY DEF PoolInv, TypeOK, Deliver, RequestCancel, BeginShutdown, DrainTimeout,
         EndShutdown, poolVars, Live
<1>3. shutdown' \in {"no", "draining", "cancelling", "done"}
  BY DEF PoolInv, TypeOK, Deliver, RequestCancel, BeginShutdown, DrainTimeout,
         EndShutdown, poolVars
<1>4. TypeOK'
  BY <1>1, <1>2, <1>3 DEF PoolInv, TypeOK
<1>5. WithinCapacity'
  BY <1>1, SameTasks DEF PoolInv, WithinCapacity, InFlight
<1>6. QED
  BY <1>1, <1>4, <1>5, SameTasks DEF PoolInv

(* A new process's pool satisfies the invariant, whatever the old one did. *)
LEMMA NewPoolStep ==
  ASSUME PoolInv, NewPool
  PROVE  PoolInv'
<1>1. state' \in [Tasks -> {"none", "finished"}]
  BY DEF PoolInv, TypeOK, NewPool, Live
<1>2. Running' = {} /\ Live' = {}
  BY <1>1 DEF Running, Live
<1>3. Cardinality(Running') = 0 /\ Cardinality(Live') = 0
  BY <1>2, FS_EmptySet
<1>4. TypeOK'
  BY <1>1, PoolAssumption DEF NewPool, TypeOK
<1>5. QueueIsWaiting'
  BY <1>1 DEF NewPool, QueueIsWaiting
<1>6. QED
  BY <1>3, <1>4, <1>5, PoolAssumption
     DEF NewPool, PoolInv, PermitsConserved, WithinCapacity, InFlight

-----------------------------------------------------------------------------
(* Whatever the callers, the tasks and the shutdown do, and in whatever    *)
(* order, the pool keeps its invariant.                                    *)
THEOREM PoolCorrect == Spec => []PoolInv
<1>1. PoolInv /\ [Next]_poolVars => PoolInv'
  <2> SUFFICES ASSUME PoolInv, [Next]_poolVars PROVE PoolInv'
    OBVIOUS
  <2>1. CASE Reserve
    BY <2>1, ReserveStep
  <2>2. CASE ReleaseReservation
    BY <2>2, ReleaseStep
  <2>3. ASSUME NEW t \in Tasks, Submit(t) PROVE PoolInv'
    BY <2>3, SubmitStep
  <2>4. ASSUME NEW t \in Tasks, Start(t) PROVE PoolInv'
    BY <2>4, StartStep
  <2>5. ASSUME NEW t \in Tasks, CancelWaiting(t) PROVE PoolInv'
    BY <2>5, CancelWaitingStep
  <2>6. ASSUME NEW t \in Tasks, Finish(t) PROVE PoolInv'
    BY <2>6, FinishStep
  <2>7. ASSUME NEW t \in Tasks, Deliver(t) \/ RequestCancel(t) PROVE PoolInv'
    BY <2>7, OtherSteps
  <2>8. CASE BeginShutdown \/ DrainTimeout \/ EndShutdown \/ UNCHANGED poolVars
    BY <2>8, OtherSteps
  <2>9. QED
    BY <2>1, <2>2, <2>3, <2>4, <2>5, <2>6, <2>7, <2>8 DEF Next, Done
<1>2. QED
  BY InitPool, <1>1, PTL DEF Spec

(* The types.                                                              *)
THEOREM TypeCorrect == Spec => []TypeOK
<1>1. PoolInv => TypeOK
  BY DEF PoolInv
<1>2. QED
  BY <1>1, PoolCorrect, PTL

(* Permits are neither lost nor made up.                                   *)
THEOREM Permits == Spec => []PermitsConserved
<1>1. PoolInv => PermitsConserved
  BY DEF PoolInv
<1>2. QED
  BY <1>1, PoolCorrect, PTL

(* Tasks and claims together never exceed the capacity.                    *)
THEOREM Bounded == Spec => []WithinCapacity
<1>1. PoolInv => WithinCapacity
  BY DEF PoolInv
<1>2. QED
  BY <1>1, PoolCorrect, PTL

(* The semaphore's queue holds the waiting tasks, each once.               *)
THEOREM Queue == Spec => []QueueIsWaiting
<1>1. PoolInv => QueueIsWaiting
  BY DEF PoolInv
<1>2. QED
  BY <1>1, PoolCorrect, PTL
=============================================================================
