-------------------------- MODULE VideoJobsProofs --------------------------
(***************************************************************************)
(* Proofs about VideoJobs.tla, for any finite set of jobs, any number of   *)
(* DELETEs, any number of permits and any capacity.  What concerns the     *)
(* pool alone is taken from TaskSchedulerProofs.tla: every step of a job   *)
(* is at most one of the pool's own.                                       *)
(***************************************************************************)
EXTENDS VideoJobs, FiniteSetTheorems, TLAPS

PoolP == INSTANCE TaskSchedulerProofs WITH Tasks <- Jobs

(* The types, in groups.                                                   *)
RowType == [Jobs -> [status : {"absent"} \cup Active \cup Terminal,
                     error : {"none"} \cup Reasons]]

RowTypes == row \in RowType

RequestTypes ==
  /\ create \in [Jobs -> {"none", "read", "insert", "fetch", "done", "failed", "rejected"}]
  /\ delete \in [Deletes -> {"none", "mark", "refresh", "done", "failed"}]
  /\ target \in [Deletes -> Jobs \cup {None}]
  /\ told \in [Deletes -> {"none"} \cup Active \cup Terminal]

RunnerTypes ==
  /\ phase \in [Jobs -> {"none", "ended"} \cup WritePhases \cup BoundedPhases]
  /\ causes \in [Jobs -> SUBSET {"timeout", "backstop", "cancel"}]
  /\ lost \subseteq Jobs

LockTypes ==
  /\ lock \in Writers \cup {None}
  /\ stage \in {"taken", "open", "done"}
  /\ server \in {"up", "stopped", "crashed"}

Types == RowTypes /\ RequestTypes /\ RunnerTypes /\ LockTypes

InFlight(j) == create[j] \in {"read", "insert", "fetch"}

Alive(j) == state[j] \in {"waiting", "running"}

Queued(j) == row[j].status = "queued"
InProgress(j) == row[j].status = "in_progress"
Ended(j) == row[j].status \in Terminal

(* A DELETE has failed j's row and not gone on yet.                        *)
Marked(j) == \E d \in Deletes : lock = Deleter(d) /\ stage = "done" /\ target[d] = j

(* The holder of the lock is at a write, and a process that does not serve *)
(* has no coroutine.                                                       *)
LockInv ==
  /\ lock = None => stage = "taken"
  /\ \A j \in Jobs : lock = Creator(j) => create[j] = "insert"
  /\ \A j \in Jobs : lock = Runner(j) => phase[j] \in WritePhases
  /\ \A d \in Deletes : lock = Deleter(d) => delete[d] = "mark"

ServerInv ==
  /\ server # "up" => lock = None /\ \A j \in Jobs : ~ Alive(j)
  /\ server # "up" \/ shutdown # "no" => RequestsIdle

(* The coroutine runs while the pool's task does; a POST is done when its  *)
(* job has a task.                                                         *)
TaskInv(j) ==
  /\ state[j] \in {"none", "waiting"} => phase[j] = "none"
  /\ state[j] = "running" => phase[j] \notin {"none", "ended"}
  /\ state[j] = "finished" => phase[j] = "ended"
  /\ create[j] = "done" <=> state[j] # "none"
  /\ j \in cancelled => Alive(j)

(* The row, as its POST leaves it.                                         *)
PostInv(j) ==
  /\ row[j].status # "failed" => row[j].error = "none"
  /\ create[j] \in {"none", "read", "rejected"} => row[j] = Absent
  /\ create[j] = "insert" /\ ~(lock = Creator(j) /\ stage = "done") => row[j] = Absent
  /\ create[j] = "insert" /\ lock = Creator(j) /\ stage = "done" => Queued(j)
  /\ create[j] = "fetch" => Queued(j)
  /\ create[j] = "done" => row[j].status # "absent"

(* A DELETE is for a job whose POST is done, and past its mark the row has *)
(* ended.                                                                  *)
DeleteInv(d) ==
  /\ delete[d] # "none" => target[d] \in Jobs /\ create[target[d]] = "done"
  /\ delete[d] = "refresh" => Ended(target[d])
  /\ lock = Deleter(d) /\ stage = "done" => Ended(target[d])

(* What the row says while the runner is in a phase, before that phase's   *)
(* write and after it.                                                     *)
Before(j) ==
  /\ phase[j] \in {"none", "mark"} => Queued(j)
  /\ phase[j] \in {"render", "persist", "store", "finish"} => InProgress(j)
  /\ phase[j] = "failing" => row[j].status \in Active

After(j) ==
  /\ phase[j] \in {"mark", "persist", "store"} => InProgress(j)
  /\ phase[j] \in {"finish"} \cup Handlers => Ended(j)

(* Unless a DELETE has ended the row: then the task is cancelled, or will  *)
(* be before the lock is free.                                             *)
WorkInv(j) ==
  IF lock = Runner(j)
    THEN IF stage = "done" THEN After(j) ELSE Before(j)
    ELSE Alive(j) => Before(j) \/ (Ended(j) /\ (j \in cancelled \/ Marked(j)))

(* Why a task is cancelled that has not begun, and what follows a DELETE.  *)
CancelInv(j) ==
  /\ state[j] = "waiting" /\ j \in cancelled => Ended(j) \/ shutdown # "no"
  /\ row[j].error = "user" /\ Alive(j) /\ ~ Marked(j) =>
       "cancel" \in causes[j] /\ (j \in cancelled \/ phase[j] \in {"unwinding", "cancelling"})

OwnedInv(j) ==
  server = "up" /\ shutdown = "no" /\ row[j].status \in Active =>
    Alive(j) \/ create[j] = "fetch" \/ lock = Creator(j) \/ j \in lost

JobInv(j) == TaskInv(j) /\ PostInv(j) /\ WorkInv(j) /\ CancelInv(j) /\ OwnedInv(j)

(* Every POST under way holds one reservation.                             *)
ReservedInv == reserved = Cardinality({j \in Jobs : InFlight(j)})

VideoInv ==
  /\ Types /\ PoolP!PoolInv /\ LockInv /\ ServerInv /\ ReservedInv
  /\ \A j \in Jobs : JobInv(j)
  /\ \A d \in Deletes : DeleteInv(d)
-----------------------------------------------------------------------------
(* The pool: what TaskSchedulerProofs assumes of its constants holds here, *)
(* and its definitions are those VideoJobs uses.                           *)
LEMMA PoolAssumed ==
  /\ PoolP!IsFiniteSet(Jobs)
  /\ MaxConcurrent \in Nat \ {0}
  /\ Capacity \in Nat
  BY VideoAssumption DEF IsFiniteSet, PoolP!IsFiniteSet

LEMMA SameSize ==
  ASSUME NEW S
  PROVE  /\ PoolP!Cardinality(S) = Cardinality(S)
         /\ Pool!Cardinality(S) = Cardinality(S)
<1>1. PoolP!Cardinality(S) = Cardinality(S)
  BY DEF Cardinality, PoolP!Cardinality
<1>2. Pool!Cardinality(S) = Cardinality(S)
  BY DEF Cardinality, Pool!Cardinality
<1>3. QED
  BY <1>1, <1>2

LEMMA SamePool ==
  /\ Pool!Init <=> PoolP!Init
  /\ Pool!TypeOK <=> PoolP!TypeOK
  /\ Pool!Live = PoolP!Live
  /\ Pool!Reserve <=> PoolP!Reserve
  /\ Pool!ReleaseReservation <=> PoolP!ReleaseReservation
  /\ Pool!BeginShutdown <=> PoolP!BeginShutdown
  /\ Pool!DrainTimeout <=> PoolP!DrainTimeout
  /\ Pool!EndShutdown <=> PoolP!EndShutdown
  /\ Pool!NewPool <=> PoolP!NewPool
<1>1. /\ Pool!Live = PoolP!Live
      /\ Pool!InFlight = PoolP!InFlight
  BY SameSize DEF Pool!Live, PoolP!Live, Pool!InFlight, PoolP!InFlight
<1>2. /\ Pool!Init <=> PoolP!Init
      /\ Pool!TypeOK <=> PoolP!TypeOK
  BY DEF Pool!Init, PoolP!Init, Pool!TypeOK, PoolP!TypeOK
<1>3. /\ Pool!Reserve <=> PoolP!Reserve
      /\ Pool!ReleaseReservation <=> PoolP!ReleaseReservation
  BY <1>1 DEF Pool!Reserve, PoolP!Reserve, Pool!ReleaseReservation, PoolP!ReleaseReservation
<1>4. /\ Pool!BeginShutdown <=> PoolP!BeginShutdown
      /\ Pool!DrainTimeout <=> PoolP!DrainTimeout
      /\ Pool!EndShutdown <=> PoolP!EndShutdown
      /\ Pool!NewPool <=> PoolP!NewPool
  BY <1>1 DEF Pool!BeginShutdown, PoolP!BeginShutdown, Pool!DrainTimeout,
              PoolP!DrainTimeout, Pool!EndShutdown, PoolP!EndShutdown,
              Pool!NewPool, PoolP!NewPool
<1>5. QED
  BY <1>1, <1>2, <1>3, <1>4

LEMMA SameTask ==
  ASSUME NEW t
  PROVE  /\ Pool!Submit(t) <=> PoolP!Submit(t)
         /\ Pool!Start(t) <=> PoolP!Start(t)
         /\ Pool!CancelWaiting(t) <=> PoolP!CancelWaiting(t)
         /\ Pool!Finish(t) <=> PoolP!Finish(t)
         /\ Pool!Deliver(t) <=> PoolP!Deliver(t)
         /\ Pool!RequestCancel(t) <=> PoolP!RequestCancel(t)
<1>1. /\ Pool!Submit(t) <=> PoolP!Submit(t)
      /\ Pool!Start(t) <=> PoolP!Start(t)
      /\ Pool!Finish(t) <=> PoolP!Finish(t)
      /\ Pool!Deliver(t) <=> PoolP!Deliver(t)
  BY DEF Pool!Submit, PoolP!Submit, Pool!Start, PoolP!Start,
         Pool!Finish, PoolP!Finish, Pool!Deliver, PoolP!Deliver
<1>2. Pool!RequestCancel(t) <=> PoolP!RequestCancel(t)
  BY SamePool DEF Pool!RequestCancel, PoolP!RequestCancel
<1>3. Pool!CancelWaiting(t) <=> PoolP!CancelWaiting(t)
  BY DEF Pool!CancelWaiting, PoolP!CancelWaiting, Pool!RemoveAt, PoolP!RemoveAt
<1>4. QED
  BY <1>1, <1>2, <1>3

(* Every use a step makes of the pool keeps the pool's invariant.          *)
PoolUse ==
  \/ Pool!Reserve \/ Pool!ReleaseReservation
  \/ \E j \in Jobs : \/ Pool!Submit(j) \/ Pool!Start(j) \/ Pool!CancelWaiting(j)
                     \/ Pool!Finish(j) \/ Pool!Deliver(j) \/ Pool!RequestCancel(j)
  \/ Pool!BeginShutdown \/ Pool!DrainTimeout \/ Pool!EndShutdown \/ Pool!NewPool
  \/ UNCHANGED poolVars

LEMMA PoolUsed ==
  ASSUME PoolP!PoolInv, PoolUse
  PROVE  PoolP!PoolInv'
<1>1. CASE Pool!Reserve \/ Pool!ReleaseReservation
  BY <1>1, PoolAssumed, SamePool, PoolP!ReserveStep, PoolP!ReleaseStep
<1>2. ASSUME NEW j \in Jobs, Pool!Submit(j) \/ Pool!Start(j) \/ Pool!CancelWaiting(j)
      PROVE  PoolP!PoolInv'
  BY <1>2, PoolAssumed, SameTask, PoolP!SubmitStep, PoolP!StartStep, PoolP!CancelWaitingStep
<1>3. ASSUME NEW j \in Jobs, Pool!Finish(j) PROVE PoolP!PoolInv'
  BY <1>3, PoolAssumed, SameTask, PoolP!FinishStep
<1>4. ASSUME NEW j \in Jobs, Pool!Deliver(j) \/ Pool!RequestCancel(j)
      PROVE  PoolP!PoolInv'
  BY <1>4, PoolAssumed, SameTask, PoolP!OtherSteps
<1>5. CASE Pool!BeginShutdown \/ Pool!DrainTimeout \/ Pool!EndShutdown
  BY <1>5, PoolAssumed, SamePool, PoolP!OtherSteps
<1>6. CASE Pool!NewPool
  BY <1>6, PoolAssumed, SamePool, PoolP!NewPoolStep
<1>7. CASE UNCHANGED poolVars
  BY <1>7, PoolAssumed, PoolP!OtherSteps DEF poolVars, PoolP!poolVars
<1>8. QED
  BY <1>1, <1>2, <1>3, <1>4, <1>5, <1>6, <1>7 DEF PoolUse

(* What the pool's invariant says of the task that leaves the queue.       *)
LEMMA LeavesQueue ==
  ASSUME PoolP!PoolInv, NEW j \in Jobs, Pool!Start(j) \/ Pool!CancelWaiting(j)
  PROVE  state[j] = "waiting"
<1>1. waiting \in Seq(Jobs) /\ \A i \in 1 .. Len(waiting) : state[waiting[i]] = "waiting"
  BY DEF PoolP!PoolInv, PoolP!TypeOK, PoolP!QueueIsWaiting
<1>2. CASE Pool!Start(j)
  <2>1. waiting # <<>> /\ j = Head(waiting)
    BY <1>2 DEF Pool!Start
  <2>2. j = waiting[1] /\ 1 \in 1 .. Len(waiting)
    BY <1>1, <2>1
  <2>3. QED
    BY <1>1, <2>2
<1>3. CASE Pool!CancelWaiting(j)
  BY <1>1, <1>3 DEF Pool!CancelWaiting
<1>4. QED
  BY <1>2, <1>3

-----------------------------------------------------------------------------
(* The lock.                                                               *)

(* Every writer has its own name.                                          *)
LEMMA Names ==
  /\ \A i, j \in Jobs :
       /\ Runner(i) = Runner(j) => i = j
       /\ Creator(i) = Creator(j) => i = j
       /\ Runner(i) # Creator(j)
       /\ Runner(i) # None /\ Creator(i) # None
       /\ Runner(i) \in Writers /\ Creator(i) \in Writers
  /\ \A d, e \in Deletes :
       /\ Deleter(d) = Deleter(e) => d = e
       /\ Deleter(d) # None /\ Deleter(d) \in Writers
  /\ \A j \in Jobs, d \in Deletes : Deleter(d) # Runner(j) /\ Deleter(d) # Creator(j)
  /\ None \notin Jobs
<1>1. None \notin Jobs \cup Writers
  BY VideoAssumption
<1>2. /\ \A j \in Jobs : Runner(j) \in Writers /\ Creator(j) \in Writers
      /\ \A d \in Deletes : Deleter(d) \in Writers
  BY DEF Writers
<1>3. /\ \A i, j \in Jobs :
           /\ Runner(i) = Runner(j) => i = j
           /\ Creator(i) = Creator(j) => i = j
           /\ Runner(i) # Creator(j)
      /\ \A d, e \in Deletes : Deleter(d) = Deleter(e) => d = e
      /\ \A j \in Jobs, d \in Deletes : Deleter(d) # Runner(j) /\ Deleter(d) # Creator(j)
  BY DEF Runner, Creator, Deleter
<1>4. QED
  BY <1>1, <1>2, <1>3

LEMMA WriterCases ==
  ASSUME NEW a \in Writers
  PROVE  \/ \E j \in Jobs : a = Runner(j)
         \/ \E j \in Jobs : a = Creator(j)
         \/ \E d \in Deletes : a = Deleter(d)
  BY DEF Writers

LEMMA WantsFacts ==
  /\ \A j \in Jobs : Wants(Runner(j)) <=> phase[j] \in WritePhases /\ j \notin cancelled
  /\ \A j \in Jobs : Wants(Creator(j)) <=> create[j] = "insert"
  /\ \A d \in Deletes : Wants(Deleter(d)) <=> delete[d] = "mark"
  BY DEF Wants, Runner, Creator, Deleter

LEMMA WrittenFacts ==
  /\ \A j \in Jobs : Written(Runner(j)) = WrittenByRunner(j)
  /\ \A j \in Jobs : Written(Creator(j)) = Inserted(j)
  /\ \A d \in Deletes : Written(Deleter(d)) = WrittenByDelete(d)
  BY DEF Written, Runner, Creator, Deleter

LEMMA RunnerWrites ==
  ASSUME NEW j \in Jobs
  PROVE  /\ phase[j] = "mark" => WrittenByRunner(j) = WithStatus(j, "in_progress")
         /\ phase[j] \in {"persist", "store"} => WrittenByRunner(j) = row
         /\ phase[j] = "finish" => WrittenByRunner(j) = WithStatus(j, "completed")
         /\ phase[j] = "failing" => WrittenByRunner(j) = WithFailure(j, "error")
         /\ phase[j] = "timing_out" => WrittenByRunner(j) = FailedIfActive(j, "timeout")
         /\ phase[j] = "cancelling" => WrittenByRunner(j) = FailedIfActive(j, "cancelled")
  BY DEF WrittenByRunner

-----------------------------------------------------------------------------
(* Framing: what a step leaves alone keeps its part of the invariant.      *)

PoolTypes ==
  /\ state \in [Jobs -> {"none", "waiting", "running", "finished"}]
  /\ cancelled \subseteq Jobs
  /\ reserved \in Nat
  /\ shutdown \in {"no", "draining", "cancelling", "done"}

LEMMA PoolTyped == PoolP!PoolInv => PoolTypes
  BY DEF PoolP!PoolInv, PoolP!TypeOK, PoolTypes

(* The step does not concern job i, and the lock is not i's.               *)
Idle(i) ==
  /\ row'[i] = row[i] /\ create'[i] = create[i] /\ phase'[i] = phase[i]
  /\ causes'[i] = causes[i] /\ state'[i] = state[i]
  /\ i \in cancelled' <=> i \in cancelled
  /\ i \in lost => i \in lost'

NotHolding(i) == lock # Runner(i) /\ lock # Creator(i)

SameLock(i) ==
  /\ UNCHANGED <<lock, stage>> \/ (NotHolding(i) /\ NotHolding(i)')
  /\ Marked(i)' <=> Marked(i)

LEMMA Framed ==
  ASSUME NEW i \in Jobs, JobInv(i), Idle(i), SameLock(i), UNCHANGED <<server, shutdown>>
  PROVE  JobInv(i)'
<1>1. TaskInv(i)'
  BY DEF JobInv, TaskInv, Alive, Idle
<1>2. PostInv(i)'
  BY DEF JobInv, PostInv, Idle, SameLock, NotHolding, Queued
<1>3. WorkInv(i)'
  BY DEF JobInv, WorkInv, Alive, Idle, SameLock, NotHolding, Queued, InProgress, Ended,
         Before, After
<1>4. CancelInv(i)'
  BY DEF JobInv, CancelInv, Alive, Idle, SameLock, Ended
<1>5. OwnedInv(i)'
  BY DEF JobInv, OwnedInv, Alive, Idle, SameLock, NotHolding
<1>6. QED
  BY <1>1, <1>2, <1>3, <1>4, <1>5 DEF JobInv

(* Nobody's row is marked unless a DELETE holds the lock.                  *)
LEMMA NoMark ==
  /\ \A j, i \in Jobs : lock = Runner(j) \/ lock = Creator(j) => ~ Marked(i)
  /\ lock = None \/ stage # "done" => \A i \in Jobs : ~ Marked(i)
  BY Names DEF Marked

LEMMA SameMark ==
  ASSUME UNCHANGED <<lock, stage, target>>
  PROVE  \A i \in Jobs : Marked(i)' <=> Marked(i)
  BY DEF Marked

(* POSTs and reservations stand still.                                     *)
LEMMA ReservedKept ==
  ASSUME ReservedInv, UNCHANGED <<create, reserved>>
  PROVE  ReservedInv'
  BY DEF ReservedInv, InFlight

(* A POST goes on.                                                         *)
LEMMA ReservedMoves ==
  ASSUME ReservedInv, reserved \in Nat, RequestTypes,
         NEW j \in Jobs, NEW s, create' = [create EXCEPT ![j] = s],
         reserved' = IF InFlight(j)' THEN IF InFlight(j) THEN reserved ELSE reserved + 1
                                     ELSE IF InFlight(j) THEN reserved - 1 ELSE reserved
  PROVE  ReservedInv'
<1> DEFINE S == {i \in Jobs : InFlight(i)}
<1>1. IsFiniteSet(S) /\ Cardinality(S) \in Nat
  <2>1. S \in SUBSET Jobs
    OBVIOUS
  <2>2. QED
    BY <2>1, VideoAssumption, FS_Subset, FS_CardinalityType
<1>2. /\ Cardinality(S \cup {j}) = IF j \in S THEN Cardinality(S) ELSE Cardinality(S) + 1
      /\ Cardinality(S \ {j}) = IF j \in S THEN Cardinality(S) - 1 ELSE Cardinality(S)
  BY <1>1, FS_AddElement, FS_RemoveElement
<1>3. {i \in Jobs : InFlight(i)'} = IF InFlight(j)' THEN S \cup {j} ELSE S \ {j}
  BY DEF RequestTypes, InFlight
<1>4. j \in S <=> InFlight(j)
  OBVIOUS
<1> HIDE DEF S
<1>5. reserved = Cardinality(S)
  BY DEF ReservedInv, S
<1>6. reserved' = Cardinality({i \in Jobs : InFlight(i)'})
  BY <1>1, <1>2, <1>3, <1>4, <1>5
<1>7. QED
  BY <1>6 DEF ReservedInv, InFlight

(* DELETEs stand still, and no row comes back to life.                     *)
LEMMA DeletesKept ==
  ASSUME \A d \in Deletes : DeleteInv(d),
         UNCHANGED <<delete, target>>,
         UNCHANGED <<lock, stage>> \/ \A d \in Deletes : lock' # Deleter(d) \/ stage' # "done",
         \A j \in Jobs : create[j] = "done" => create'[j] = "done",
         \A j \in Jobs : Ended(j) => Ended(j)',
         LockInv
  PROVE  \A d \in Deletes : DeleteInv(d)'
<1> TAKE d \in Deletes
<1>1. DeleteInv(d)
  OBVIOUS
<1>2. ASSUME lock' = Deleter(d), stage' = "done"
      PROVE  lock = Deleter(d) /\ stage = "done" /\ delete[d] = "mark"
  BY <1>2 DEF LockInv
<1>3. QED
  BY <1>1, <1>2 DEF DeleteInv, Ended

-----------------------------------------------------------------------------
(* The runner of one job.                                                  *)

(* A step of j's task takes no other lock than its own.                    *)
LEMMA OneTask ==
  ASSUME VideoInv, NEW j \in Jobs, Alive(j), PoolP!PoolInv',
         RowTypes', RunnerTypes', LockTypes',
         UNCHANGED <<create, delete, target, told, server, reserved, shutdown>>,
         LockInv',
         UNCHANGED <<lock, stage>> \/ (lock \in {None, Runner(j)} /\ lock' \in {None, Runner(j)}),
         \A i \in Jobs \ {j} : Idle(i),
         Ended(j) => Ended(j)',
         JobInv(j)'
  PROVE  VideoInv'
<1>1. Types'
  BY DEF VideoInv, Types, RequestTypes
<1>2. ServerInv'
  <2>1. server = "up"
    BY DEF VideoInv, ServerInv
  <2>2. QED
    BY <2>1 DEF VideoInv, ServerInv, RequestsIdle
<1>3. ReservedInv'
  BY ReservedKept DEF VideoInv
<1>4. ASSUME NEW i \in Jobs, i # j PROVE JobInv(i)'
  <2>1. Marked(i)' <=> Marked(i)
    <3>1. CASE UNCHANGED <<lock, stage>>
      BY <3>1, SameMark
    <3>2. CASE lock \in {None, Runner(j)} /\ lock' \in {None, Runner(j)}
      BY <3>2, Names DEF Marked
    <3>3. QED
      BY <3>1, <3>2
  <2>2. SameLock(i)
    BY <1>4, <2>1, Names DEF SameLock, NotHolding
  <2>3. QED
    BY <1>4, <2>2, Framed DEF VideoInv
<1>5. \A d \in Deletes : DeleteInv(d)'
  <2>1. UNCHANGED <<lock, stage>> \/ \A d \in Deletes : lock' # Deleter(d) \/ stage' # "done"
    BY Names
  <2>2. \A i \in Jobs : Ended(i) => Ended(i)'
    BY DEF Idle, Ended
  <2>3. QED
    BY <2>1, <2>2, DeletesKept DEF VideoInv
<1>6. QED
  BY <1>1, <1>2, <1>3, <1>4, <1>5 DEF VideoInv

(* What j's runner writes moves its row on from Before to After, and       *)
(* leaves a row alone that has ended, except in the phases that know that  *)
(* it has not.                                                             *)
LEMMA RunnerRow ==
  ASSUME RowTypes, NEW j \in Jobs, phase[j] \in WritePhases,
         row[j].status # "absent", row[j].status # "failed" => row[j].error = "none",
         Before(j)
  PROVE  /\ WrittenByRunner(j) \in RowType
         /\ \A i \in Jobs \ {j} : WrittenByRunner(j)[i] = row[i]
         /\ phase[j] = "mark" => WrittenByRunner(j)[j] = [status |-> "in_progress", error |-> "none"]
         /\ phase[j] \in {"persist", "store"} => WrittenByRunner(j) = row
         /\ phase[j] = "finish" => WrittenByRunner(j)[j] = [status |-> "completed", error |-> "none"]
         /\ phase[j] = "failing" => WrittenByRunner(j)[j] = [status |-> "failed", error |-> "error"]
         /\ phase[j] = "timing_out" =>
              IF row[j].status \in Active
                THEN WrittenByRunner(j)[j] = [status |-> "failed", error |-> "timeout"] ELSE WrittenByRunner(j) = row
         /\ phase[j] = "cancelling" =>
              IF row[j].status \in Active
                THEN WrittenByRunner(j)[j] = [status |-> "failed", error |-> "cancelled"] ELSE WrittenByRunner(j) = row
<1>1. CASE phase[j] = "mark"
  BY <1>1, RunnerWrites DEF RowTypes, RowType, WithStatus, Before, Queued, Active
<1>2. CASE phase[j] \in {"persist", "store"}
  BY <1>2, RunnerWrites DEF RowTypes, RowType, RowType
<1>3. CASE phase[j] = "finish"
  BY <1>3, RunnerWrites DEF RowTypes, RowType, WithStatus, Before, InProgress, Terminal
<1>4. CASE phase[j] = "failing"
  BY <1>4, RunnerWrites DEF RowTypes, RowType, WithFailure, Terminal, Reasons
<1>5. CASE phase[j] = "timing_out"
  BY <1>5, RunnerWrites DEF RowTypes, RowType, FailedIfActive, WithFailure, Terminal, Reasons
<1>6. CASE phase[j] = "cancelling"
  BY <1>6, RunnerWrites DEF RowTypes, RowType, FailedIfActive, WithFailure, Terminal, Reasons
<1>7. QED
  BY <1>1, <1>2, <1>3, <1>4, <1>5, <1>6 DEF WritePhases

(* The same as the invariant needs it: the row is settled, or in progress, *)
(* as After says; it is never brought back; and it does not become a       *)
(* DELETE's.                                                               *)
LEMMA RunnerSettles ==
  ASSUME RowTypes, NEW j \in Jobs, phase[j] \in WritePhases,
         row[j].status # "absent", row[j].status # "failed" => row[j].error = "none",
         Before(j)
  PROVE  /\ phase[j] \in {"mark", "persist", "store"} => WrittenByRunner(j)[j].status = "in_progress"
         /\ phase[j] \in {"finish"} \cup Handlers => WrittenByRunner(j)[j].status \in Terminal
         /\ Ended(j) => WrittenByRunner(j)[j] = row[j]
         /\ WrittenByRunner(j)[j].status # "absent"
         /\ WrittenByRunner(j)[j].status # "failed" => WrittenByRunner(j)[j].error = "none"
         /\ WrittenByRunner(j)[j].error = "user" => WrittenByRunner(j)[j] = row[j]
<1>1. CASE phase[j] = "mark"
  BY <1>1, RunnerRow DEF Before, Queued, Ended, Terminal, Handlers
<1>2. CASE phase[j] \in {"persist", "store"}
  BY <1>2, RunnerRow DEF Before, InProgress, Ended, Terminal, Handlers
<1>3. CASE phase[j] = "finish"
  BY <1>3, RunnerRow DEF Before, InProgress, Ended, Terminal, Handlers
<1>4. CASE phase[j] = "failing"
  BY <1>4, RunnerRow DEF Before, Ended, Active, Terminal, Handlers
<1>5. CASE phase[j] \in {"timing_out", "cancelling"}
  <2>1. row[j].status \in Active \cup Terminal
    BY DEF RowTypes, RowType, RowType
  <2>2. QED
    BY <1>5, <2>1, RunnerRow DEF Ended, Active, Terminal, Handlers
<1>6. QED
  BY <1>1, <1>2, <1>3, <1>4, <1>5 DEF WritePhases

(* What the invariant says of a job whose task is alive, and of the holder *)
(* of the lock.                                                            *)
LEMMA AliveFacts ==
  ASSUME VideoInv, NEW j \in Jobs
  PROVE  /\ PoolTypes
         /\ phase[j] \notin {"none", "ended"} <=> state[j] = "running"
         /\ Alive(j) <=> j \in Pool!Live
         /\ state[j] = "running" => Alive(j)
         /\ lock = Runner(j) => state[j] = "running" /\ phase[j] \in WritePhases
         /\ Alive(j) => /\ create[j] = "done" /\ server = "up"
                        /\ row[j].status # "absent"
                        /\ row[j].status # "failed" => row[j].error = "none"
                        /\ lock # Creator(j)
<1>1. PoolTypes
  BY PoolTyped DEF VideoInv
<1>2. phase[j] \notin {"none", "ended"} <=> state[j] = "running"
  BY <1>1 DEF VideoInv, JobInv, TaskInv, PoolTypes
<1>3. Alive(j) <=> j \in Pool!Live
  BY DEF Alive, Pool!Live
<1>4. state[j] = "running" => Alive(j)
  BY DEF Alive
<1>5. lock = Runner(j) => state[j] = "running" /\ phase[j] \in WritePhases
  BY <1>2 DEF VideoInv, LockInv, WritePhases
<1>6. Alive(j) => /\ create[j] = "done" /\ server = "up"
                  /\ row[j].status # "absent"
                  /\ row[j].status # "failed" => row[j].error = "none"
                  /\ lock # Creator(j)
  BY DEF VideoInv, JobInv, TaskInv, PostInv, LockInv, ServerInv, Alive
<1>7. QED
  BY <1>1, <1>2, <1>3, <1>4, <1>5, <1>6

(* The invariant of a job whose task is alive, after a step of that task   *)
(* that leaves its POST alone: the parts that are left to show.            *)
LEMMA TaskLives ==
  ASSUME VideoInv, NEW j \in Jobs, Alive(j), create'[j] = create[j], Alive(j)',
         phase'[j] \notin {"none", "ended"} <=> state'[j] = "running",
         state'[j] = "waiting" => phase'[j] = "none",
         row'[j].status # "absent", row'[j].status # "failed" => row'[j].error = "none",
         WorkInv(j)', CancelInv(j)'
  PROVE  JobInv(j)'
<1>1. create[j] = "done"
  BY AliveFacts
<1>2. TaskInv(j)' /\ PostInv(j)'
  BY <1>1 DEF TaskInv, PostInv, Alive
<1>3. OwnedInv(j)'
  BY DEF OwnedInv
<1>4. QED
  BY <1>2, <1>3 DEF JobInv

(* ... and of one whose task has just ended.                               *)
LEMMA TaskOver ==
  ASSUME VideoInv, NEW j \in Jobs, Alive(j), create'[j] = create[j],
         state'[j] = "finished", phase'[j] = "ended", j \notin cancelled',
         row'[j].status # "absent", row'[j].status # "failed" => row'[j].error = "none",
         lock' # Runner(j),
         row'[j].status \in Active => j \in lost' \/ shutdown' # "no"
  PROVE  JobInv(j)'
<1>1. create[j] = "done"
  BY AliveFacts
<1>2. ~ Alive(j)'
  BY DEF Alive
<1>3. TaskInv(j)' /\ PostInv(j)'
  BY <1>1, <1>2 DEF TaskInv, PostInv
<1>4. WorkInv(j)' /\ CancelInv(j)' /\ OwnedInv(j)'
  BY <1>2 DEF WorkInv, CancelInv, OwnedInv
<1>5. QED
  BY <1>3, <1>4 DEF JobInv

(* It asks for the lock and gets it: nobody has marked its row.            *)
LEMMA RunnerTakes ==
  ASSUME VideoInv, NEW j \in Jobs, TakeLock(Runner(j))
  PROVE  VideoInv'
<1>1. /\ lock = None /\ lock' = Runner(j) /\ stage' = "taken"
      /\ phase[j] \in WritePhases /\ j \notin cancelled
      /\ UNCHANGED <<row, create, runnerVars, deleteVars, server, poolVars>>
  BY WantsFacts DEF TakeLock
<1>2. UNCHANGED <<row, create, phase, causes, lost, delete, target, told, server,
                  state, permits, waiting, reserved, cancelled, shutdown>>
  BY <1>1 DEF runnerVars, deleteVars, poolVars
<1>3. Alive(j) /\ state[j] = "running"
  BY <1>1, AliveFacts DEF WritePhases
<1>4. PoolP!PoolInv'
  BY <1>1, PoolUsed DEF PoolUse, VideoInv
<1>5. RowTypes' /\ RunnerTypes' /\ LockTypes'
  BY <1>1, <1>2, Names DEF VideoInv, Types, RowTypes, RowType, RunnerTypes, LockTypes
<1>6. LockInv'
  BY <1>1, <1>2, Names DEF LockInv
<1>7. \A i \in Jobs : Idle(i)
  BY <1>2 DEF Idle
<1>8. WorkInv(j)'
  <2>1. Before(j)
    BY <1>1, <1>3, Names, NoMark DEF VideoInv, JobInv, WorkInv
  <2>2. QED
    BY <1>1, <1>2, <2>1 DEF WorkInv, Before, Queued, InProgress
<1>9. CancelInv(j)'
  BY <1>1, <1>2, NoMark DEF VideoInv, JobInv, CancelInv, Alive, Ended
<1>10. JobInv(j)'
  BY <1>2, <1>3, <1>8, <1>9, AliveFacts, TaskLives DEF Alive
<1>11. QED
  BY <1>1, <1>2, <1>3, <1>4, <1>5, <1>6, <1>7, <1>10, OneTask DEF Ended

(* Its statement runs.                                                     *)
LEMMA RunnerExecutes ==
  ASSUME VideoInv, NEW j \in Jobs, lock = Runner(j), Execute
  PROVE  VideoInv'
<1>1. /\ lock' = Runner(j) /\ stage = "taken" /\ stage' = "open"
      /\ UNCHANGED <<row, create, phase, causes, lost, delete, target, told, server,
                     state, permits, waiting, reserved, cancelled, shutdown>>
      /\ UNCHANGED poolVars
  BY DEF Execute, runnerVars, deleteVars, poolVars
<1>2. Alive(j) /\ state[j] = "running"
  BY AliveFacts
<1>3. PoolP!PoolInv'
  BY <1>1, PoolUsed DEF PoolUse, VideoInv
<1>4. RowTypes' /\ RunnerTypes' /\ LockTypes'
  BY <1>1, Names DEF VideoInv, Types, RowTypes, RowType, RunnerTypes, LockTypes
<1>5. LockInv'
  BY <1>1, Names DEF VideoInv, LockInv
<1>6. \A i \in Jobs : Idle(i)
  BY <1>1 DEF Idle
<1>7. WorkInv(j)'
  BY <1>1 DEF VideoInv, JobInv, WorkInv, Before, Queued, InProgress
<1>8. CancelInv(j)'
  BY <1>1, NoMark DEF VideoInv, JobInv, CancelInv, Alive, Ended
<1>9. JobInv(j)'
  BY <1>1, <1>2, <1>7, <1>8, AliveFacts, TaskLives DEF Alive
<1>10. QED
  BY <1>1, <1>2, <1>3, <1>4, <1>5, <1>6, <1>9, OneTask DEF Ended

(* Its write is committed.                                                 *)
LEMMA RunnerCommits ==
  ASSUME VideoInv, NEW j \in Jobs, lock = Runner(j), Commit
  PROVE  VideoInv'
<1>1. /\ lock' = Runner(j) /\ stage = "open" /\ stage' = "done"
      /\ row' = WrittenByRunner(j)
      /\ UNCHANGED <<create, phase, causes, lost, delete, target, told, server,
                     state, permits, waiting, reserved, cancelled, shutdown>>
      /\ UNCHANGED poolVars
  BY WrittenFacts DEF Commit, runnerVars, deleteVars, poolVars
<1>2. /\ Alive(j) /\ state[j] = "running" /\ phase[j] \in WritePhases
      /\ row[j].status # "absent"
      /\ row[j].status # "failed" => row[j].error = "none"
  BY AliveFacts
<1>3. Before(j)
  BY <1>1 DEF VideoInv, JobInv, WorkInv
<1>4. PoolP!PoolInv'
  BY <1>1, PoolUsed DEF PoolUse, VideoInv
<1>5. RowTypes
  BY DEF VideoInv, Types
<1>6. RowTypes' /\ \A i \in Jobs \ {j} : row'[i] = row[i]
  BY <1>1, <1>2, <1>3, <1>5, RunnerRow DEF RowTypes
<1>7. /\ phase[j] \in {"mark", "persist", "store"} => row'[j].status = "in_progress"
      /\ phase[j] \in {"finish"} \cup Handlers => row'[j].status \in Terminal
      /\ Ended(j) => row'[j] = row[j]
      /\ row'[j].status # "absent"
      /\ row'[j].status # "failed" => row'[j].error = "none"
      /\ row'[j].error = "user" => row'[j] = row[j]
  BY <1>1, <1>2, <1>3, <1>5, RunnerSettles
<1>8. RunnerTypes' /\ LockTypes'
  BY <1>1, Names DEF VideoInv, Types, RunnerTypes, LockTypes
<1>9. LockInv'
  BY <1>1, Names DEF VideoInv, LockInv
<1>10. \A i \in Jobs \ {j} : Idle(i)
  BY <1>1, <1>6 DEF Idle
<1>11. WorkInv(j)'
  BY <1>1, <1>7 DEF WorkInv, After, InProgress, Ended
<1>12. CancelInv(j)'
  <2>1. ~ Marked(j)
    BY NoMark
  <2>2. QED
    BY <1>1, <1>2, <1>7, <2>1 DEF VideoInv, JobInv, CancelInv, Alive
<1>13. JobInv(j)'
  BY <1>1, <1>2, <1>7, <1>11, <1>12, AliveFacts, TaskLives DEF Alive
<1>14. Ended(j) => Ended(j)'
  BY <1>7 DEF Ended
<1>15. QED
  BY <1>1, <1>2, <1>4, <1>6, <1>8, <1>9, <1>10, <1>13, <1>14, OneTask

(* The coroutine begins.                                                   *)
LEMMA BeginStep ==
  ASSUME VideoInv, NEW j \in Jobs, Begin(j)
  PROVE  VideoInv'
<1>1. /\ state[j] = "waiting" /\ j \notin cancelled
      /\ state' = [state EXCEPT ![j] = "running"]
      /\ phase' = [phase EXCEPT ![j] = "mark"]
      /\ UNCHANGED <<row, lock, stage, create, causes, lost, delete, target, told, server,
                     reserved, cancelled, shutdown>>
  BY LeavesQueue DEF VideoInv, Begin, PhaseGoes, Pool!Start, dbVars, deleteVars
<1>2. /\ phase[j] = "none" /\ Alive(j) /\ Alive(j)'
      /\ state'[j] = "running" /\ phase'[j] = "mark"
      /\ lock # Runner(j)
  BY <1>1, AliveFacts DEF VideoInv, JobInv, TaskInv, Alive, Types, RunnerTypes, PoolTypes
<1>3. PoolP!PoolInv'
  BY PoolUsed DEF Begin, PoolUse, VideoInv
<1>4. RowTypes' /\ RunnerTypes' /\ LockTypes'
  BY <1>1 DEF VideoInv, Types, RowTypes, RowType, RunnerTypes, LockTypes, WritePhases
<1>5. LockInv'
  BY <1>1, <1>2, Names DEF VideoInv, Types, RunnerTypes, LockInv
<1>6. \A i \in Jobs \ {j} : Idle(i)
  BY <1>1, AliveFacts DEF VideoInv, Types, RunnerTypes, PoolTypes, Idle
<1>7. Marked(j)' <=> Marked(j)
  BY <1>1, SameMark
<1>8. WorkInv(j)'
  BY <1>1, <1>2, <1>7 DEF VideoInv, JobInv, WorkInv, Before, Queued, Ended
<1>9. CancelInv(j)'
  BY <1>1, <1>2, <1>7 DEF VideoInv, JobInv, CancelInv
<1>10. JobInv(j)'
  BY <1>1, <1>2, <1>8, <1>9, AliveFacts, TaskLives
<1>11. QED
  BY <1>1, <1>2, <1>3, <1>4, <1>5, <1>6, <1>10, OneTask DEF Ended

(* It is cancelled before it begins: the DELETE has settled its row, or    *)
(* the process is shutting down.                                           *)
LEMMA CancelQueuedStep ==
  ASSUME VideoInv, NEW j \in Jobs, CancelQueued(j)
  PROVE  VideoInv'
<1>1. /\ state[j] = "waiting" /\ j \in cancelled
      /\ state' = [state EXCEPT ![j] = "finished"]
      /\ cancelled' = cancelled \ {j}
      /\ phase' = [phase EXCEPT ![j] = "ended"]
      /\ UNCHANGED <<row, lock, stage, create, causes, lost, delete, target, told, server,
                     reserved, shutdown>>
  BY LeavesQueue DEF VideoInv, CancelQueued, PhaseGoes, Pool!CancelWaiting, dbVars, deleteVars
<1>2. /\ phase[j] = "none" /\ Alive(j)
      /\ state'[j] = "finished" /\ phase'[j] = "ended"
      /\ lock # Runner(j)
  BY <1>1, AliveFacts DEF VideoInv, JobInv, TaskInv, Alive, Types, RunnerTypes, PoolTypes
<1>3. PoolP!PoolInv'
  BY PoolUsed DEF CancelQueued, PoolUse, VideoInv
<1>4. RowTypes' /\ RunnerTypes' /\ LockTypes'
  BY <1>1 DEF VideoInv, Types, RowTypes, RowType, RunnerTypes, LockTypes
<1>5. LockInv'
  BY <1>1, <1>2, Names DEF VideoInv, Types, RunnerTypes, LockInv
<1>6. \A i \in Jobs \ {j} : Idle(i)
  BY <1>1, AliveFacts DEF VideoInv, Types, RunnerTypes, PoolTypes, Idle
<1>7. row[j].status \in Active => shutdown # "no"
  BY <1>1 DEF VideoInv, JobInv, CancelInv, Ended, Active, Terminal
<1>8. JobInv(j)'
  BY <1>1, <1>2, <1>7, AliveFacts, TaskOver
<1>9. QED
  BY <1>1, <1>2, <1>3, <1>4, <1>5, <1>6, <1>8, OneTask DEF Ended

(* A step in which the task, not cancelled so far, goes on to a phase and  *)
(* leaves the row alone; if it holds the lock, it releases it.             *)
LEMMA GoesOn ==
  ASSUME VideoInv, NEW j \in Jobs, state[j] = "running", j \notin cancelled,
         NEW where \in WritePhases \cup BoundedPhases, PhaseGoes(j, where),
         UNCHANGED <<row, create, causes, lost, deleteVars, server, poolVars>>,
         \/ lock # Runner(j) /\ UNCHANGED <<lock, stage>>
         \/ lock = Runner(j) /\ ReleaseLock,
         Before(j)' \/ (Ended(j) /\ Marked(j)),
         phase[j] \in {"unwinding", "cancelling"} /\ "cancel" \in causes[j]
           => where \in {"unwinding", "cancelling"}
  PROVE  VideoInv'
<1>1. /\ phase' = [phase EXCEPT ![j] = where]
      /\ UNCHANGED <<row, create, causes, lost, delete, target, told, server,
                     state, permits, waiting, reserved, cancelled, shutdown>>
      /\ UNCHANGED poolVars
  BY DEF PhaseGoes, deleteVars, poolVars
<1>2. /\ Alive(j) /\ Alive(j)'
      /\ phase'[j] = where /\ where \notin {"none", "ended"} /\ state'[j] = "running"
  BY <1>1 DEF VideoInv, Types, RunnerTypes, Alive, WritePhases, BoundedPhases
<1>3. PoolP!PoolInv'
  BY <1>1, PoolUsed DEF PoolUse, VideoInv
<1>4. /\ lock' # Runner(j)
      /\ lock' = lock \/ lock' = None
      /\ Marked(j)' <=> Marked(j)
  <2>1. CASE lock # Runner(j) /\ UNCHANGED <<lock, stage>>
    BY <1>1, <2>1, SameMark
  <2>2. CASE lock = Runner(j) /\ ReleaseLock
    BY <2>2, Names DEF ReleaseLock, Marked
  <2>3. QED
    BY <2>1, <2>2
<1>5. RowTypes' /\ RunnerTypes' /\ LockTypes'
  BY <1>1 DEF VideoInv, Types, RowTypes, RowType, RunnerTypes, LockTypes, ReleaseLock
<1>6. LockInv'
  <2>1. \A i \in Jobs \ {j} : phase'[i] = phase[i]
    BY <1>1 DEF VideoInv, Types, RunnerTypes
  <2>2. CASE UNCHANGED <<lock, stage>>
    BY <1>1, <1>4, <2>1, <2>2 DEF VideoInv, LockInv
  <2>3. CASE ReleaseLock
    BY <2>3, Names DEF LockInv, ReleaseLock
  <2>4. QED
    BY <2>2, <2>3
<1>7. \A i \in Jobs \ {j} : Idle(i)
  BY <1>1 DEF VideoInv, Types, RunnerTypes, Idle
<1>8. WorkInv(j)'
  BY <1>1, <1>4 DEF WorkInv, Ended
<1>9. CancelInv(j)'
  BY <1>1, <1>2, <1>4 DEF VideoInv, JobInv, CancelInv, Alive
<1>10. JobInv(j)'
  BY <1>1, <1>2, <1>8, <1>9, AliveFacts, TaskLives
<1>11. UNCHANGED <<lock, stage>> \/ (lock \in {None, Runner(j)} /\ lock' \in {None, Runner(j)})
  BY DEF ReleaseLock
<1>12. QED
  BY <1>1, <1>2, <1>3, <1>5, <1>6, <1>7, <1>10, <1>11, OneTask DEF Ended

(* The task ends: its row has ended, or nobody is left to settle it.       *)
LEMMA TaskEnds ==
  ASSUME VideoInv, NEW j \in Jobs, state[j] = "running",
         PhaseGoes(j, "ended"), Pool!Finish(j), GiveUp(j),
         UNCHANGED <<create, causes, deleteVars, server>>,
         \/ lock # Runner(j) /\ UNCHANGED <<lock, stage>>
         \/ lock = Runner(j) /\ ReleaseLock,
         RowTypes', \A i \in Jobs \ {j} : row'[i] = row[i],
         Ended(j) => Ended(j)',
         row'[j].status # "absent", row'[j].status # "failed" => row'[j].error = "none",
         phase[j] \in Handlers \/ Ended(j)'
  PROVE  VideoInv'
<1>1. /\ phase' = [phase EXCEPT ![j] = "ended"]
      /\ state' = [state EXCEPT ![j] = "finished"]
      /\ cancelled' = cancelled \ {j}
      /\ UNCHANGED <<create, causes, delete, target, told, server, reserved, shutdown>>
  BY DEF PhaseGoes, Pool!Finish, deleteVars
<1>2. Alive(j) /\ phase'[j] = "ended" /\ state'[j] = "finished"
  BY <1>1, AliveFacts DEF VideoInv, Types, RunnerTypes, PoolTypes, Alive
<1>3. PoolP!PoolInv'
  BY PoolUsed DEF PoolUse, VideoInv
<1>4. /\ lock' # Runner(j)
      /\ lock' = lock \/ lock' = None
  BY Names DEF ReleaseLock
<1>5. /\ lost' \subseteq Jobs /\ lost \subseteq lost'
      /\ row'[j].status \in Active => j \in lost' \/ shutdown # "no"
  BY DEF VideoInv, Types, RunnerTypes, GiveUp, Ended, Active, Terminal
<1>6. RunnerTypes' /\ LockTypes'
  BY <1>1, <1>5 DEF VideoInv, Types, RunnerTypes, LockTypes, ReleaseLock
<1>7. LockInv'
  <2>1. \A i \in Jobs \ {j} : phase'[i] = phase[i]
    BY <1>1 DEF VideoInv, Types, RunnerTypes
  <2>2. CASE UNCHANGED <<lock, stage>>
    BY <1>1, <1>4, <2>1, <2>2 DEF VideoInv, LockInv
  <2>3. CASE ReleaseLock
    BY <2>3, Names DEF LockInv, ReleaseLock
  <2>4. QED
    BY <2>2, <2>3
<1>8. \A i \in Jobs \ {j} : Idle(i)
  BY <1>1, <1>5, AliveFacts DEF VideoInv, Types, RunnerTypes, PoolTypes, Idle
<1>9. JobInv(j)'
  BY <1>1, <1>2, <1>4, <1>5, TaskOver
<1>10. UNCHANGED <<lock, stage>> \/ (lock \in {None, Runner(j)} /\ lock' \in {None, Runner(j)})
  BY DEF ReleaseLock
<1>11. QED
  BY <1>1, <1>2, <1>3, <1>6, <1>7, <1>8, <1>9, <1>10, OneTask

(* A deadline asks for the task's cancellation.                            *)
LEMMA AsksCancel ==
  ASSUME VideoInv, NEW j \in Jobs, state[j] = "running",
         NEW why \in {"timeout", "backstop"},
         causes' = [causes EXCEPT ![j] = @ \cup {why}], Pool!RequestCancel(j),
         UNCHANGED <<dbVars, create, phase, lost, deleteVars, server>>
  PROVE  VideoInv'
<1>1. /\ j \in cancelled' /\ \A i \in Jobs \ {j} : i \in cancelled' <=> i \in cancelled
      /\ UNCHANGED <<row, lock, stage, create, phase, lost, delete, target, told, server,
                     state, reserved, shutdown>>
  BY AliveFacts DEF Pool!RequestCancel, dbVars, deleteVars
<1>2. /\ Alive(j) /\ Alive(j)' /\ causes'[j] = causes[j] \cup {why}
  BY <1>1 DEF VideoInv, Types, RunnerTypes, Alive
<1>3. PoolP!PoolInv'
  BY PoolUsed DEF PoolUse, VideoInv
<1>4. RowTypes' /\ LockTypes' /\ LockInv'
  BY <1>1 DEF VideoInv, Types, RowTypes, RowType, LockTypes, LockInv
<1>5. RunnerTypes'
  BY <1>1 DEF VideoInv, Types, RunnerTypes
<1>6. \A i \in Jobs \ {j} : Idle(i)
  BY <1>1 DEF VideoInv, Types, RunnerTypes, Idle
<1>7. Marked(j)' <=> Marked(j)
  BY <1>1, SameMark
<1>8. WorkInv(j)'
  BY <1>1, <1>2, <1>7 DEF VideoInv, JobInv, WorkInv, Before, After, Queued, InProgress, Ended
<1>9. CancelInv(j)'
  BY <1>1, <1>2, <1>7 DEF VideoInv, JobInv, CancelInv
<1>10. JobInv(j)'
  BY <1>1, <1>2, <1>8, <1>9, AliveFacts, TaskLives
<1>11. QED
  BY <1>1, <1>2, <1>3, <1>4, <1>5, <1>6, <1>10, OneTask DEF Ended

(* Its write has succeeded.                                                *)
LEMMA RunnerWroteStep ==
  ASSUME VideoInv, NEW j \in Jobs, RunnerWrote(j)
  PROVE  VideoInv'
<1>1. /\ lock = Runner(j) /\ stage = "done" /\ ReleaseLock /\ j \notin cancelled
      /\ UNCHANGED <<row, create, causes, deleteVars, server>>
  BY DEF RunnerWrote, Succeeds
<1>2. state[j] = "running" /\ phase[j] \in WritePhases /\ After(j)
  BY <1>1, AliveFacts DEF VideoInv, JobInv, WorkInv
<1>3. PICK where :
        /\ RunnerGoes(j, where)
        /\ phase[j] \in {"mark", "persist"} => where = "render"
        /\ phase[j] = "store" => where = "finish"
        /\ phase[j] \in {"finish"} \cup Handlers => where = "ended"
  BY DEF RunnerWrote, Handlers
<1>4. CASE phase[j] \in {"mark", "persist", "store"}
  <2>1. /\ where \in WritePhases \cup BoundedPhases /\ where # "ended"
        /\ where \in {"render", "finish"}
    BY <1>3, <1>4 DEF WritePhases, BoundedPhases
  <2>2. PhaseGoes(j, where) /\ UNCHANGED <<lost, poolVars>>
    BY <1>3, <2>1 DEF RunnerGoes
  <2>3. Before(j)'
    BY <1>1, <1>2, <1>4, <2>1, <2>2
       DEF VideoInv, Types, RunnerTypes, PhaseGoes, After, Before, InProgress
  <2>4. UNCHANGED <<row, create, causes, lost, deleteVars, server, poolVars>>
    BY <1>1, <2>2
  <2>5. QED
    BY <1>1, <1>2, <1>4, <2>1, <2>2, <2>3, <2>4, GoesOn
<1>5. CASE phase[j] \in {"finish"} \cup Handlers
  <2>1. PhaseGoes(j, "ended") /\ Pool!Finish(j) /\ GiveUp(j)
    BY <1>3, <1>5 DEF RunnerGoes
  <2>2. Ended(j)'
    BY <1>1, <1>2, <1>5 DEF After, Ended
  <2>3. RowTypes'
    BY <1>1 DEF VideoInv, Types, RowTypes, RowType
  <2>4. row'[j].status # "absent"
    BY <1>1, <1>2, AliveFacts
  <2>5. row'[j].status # "failed" => row'[j].error = "none"
    BY <1>1, <1>2, AliveFacts
  <2>6. QED
    BY <1>1, <1>2, <2>1, <2>2, <2>3, <2>4, <2>5, TaskEnds
<1>6. QED
  BY <1>2, <1>4, <1>5 DEF WritePhases, Handlers

(* Its write has failed.                                                   *)
LEMMA RunnerWriteFailsStep ==
  ASSUME VideoInv, NEW j \in Jobs, RunnerWriteFails(j)
  PROVE  VideoInv'
<1>1. /\ lock = Runner(j) /\ stage # "done" /\ ReleaseLock /\ j \notin cancelled
      /\ UNCHANGED <<row, create, causes, deleteVars, server>>
  BY DEF RunnerWriteFails, Fails
<1>2. state[j] = "running" /\ phase[j] \in WritePhases /\ Before(j)
  BY <1>1, AliveFacts DEF VideoInv, JobInv, WorkInv
<1>3. PICK where :
        /\ RunnerGoes(j, where)
        /\ phase[j] = "persist" => where = "render"
        /\ phase[j] \in {"mark", "store", "finish"} => where = "failing"
        /\ phase[j] \in Handlers => where = "ended"
  BY DEF RunnerWriteFails, Handlers
<1>4. CASE phase[j] \in {"mark", "persist", "store", "finish"}
  <2>1. /\ where \in WritePhases \cup BoundedPhases /\ where # "ended"
        /\ where \in {"render", "failing"}
    BY <1>3, <1>4 DEF WritePhases, BoundedPhases
  <2>2. PhaseGoes(j, where) /\ UNCHANGED <<lost, poolVars>>
    BY <1>3, <2>1 DEF RunnerGoes
  <2>3. Before(j)'
    BY <1>1, <1>2, <1>3, <1>4, <2>1, <2>2
       DEF VideoInv, Types, RunnerTypes, PhaseGoes, Before, Queued, InProgress, Active
  <2>4. UNCHANGED <<row, create, causes, lost, deleteVars, server, poolVars>>
    BY <1>1, <2>2
  <2>5. QED
    BY <1>1, <1>2, <1>4, <2>1, <2>2, <2>3, <2>4, GoesOn
<1>5. CASE phase[j] \in Handlers
  <2>1. PhaseGoes(j, "ended") /\ Pool!Finish(j) /\ GiveUp(j)
    BY <1>3, <1>5 DEF RunnerGoes
  <2>2. Ended(j) => Ended(j)'
    BY <1>1 DEF Ended
  <2>3. RowTypes'
    BY <1>1 DEF VideoInv, Types, RowTypes, RowType
  <2>4. row'[j].status # "absent"
    BY <1>1, <1>2, AliveFacts
  <2>5. row'[j].status # "failed" => row'[j].error = "none"
    BY <1>1, <1>2, AliveFacts
  <2>6. QED
    BY <1>1, <1>2, <1>5, <2>1, <2>2, <2>3, <2>4, <2>5, TaskEnds
<1>6. QED
  BY <1>2, <1>4, <1>5 DEF WritePhases, Handlers

(* The upstream names its job, delivers or fails.                          *)
LEMMA RenderStep ==
  ASSUME VideoInv, NEW j \in Jobs, Render(j)
  PROVE  VideoInv'
<1>1. /\ phase[j] = "render" /\ j \notin cancelled
      /\ UNCHANGED <<row, lock, stage, create, causes, lost, deleteVars, server, poolVars>>
  BY DEF Render, dbVars
<1>2. PICK where \in {"persist", "store", "failing"} : PhaseGoes(j, where)
  BY DEF Render
<1>3. /\ state[j] = "running" /\ lock # Runner(j) /\ Alive(j)
      /\ where \in WritePhases \cup BoundedPhases
  BY <1>1, AliveFacts DEF WritePhases
<1>4. Before(j) \/ (Ended(j) /\ Marked(j))
  BY <1>1, <1>3 DEF VideoInv, JobInv, WorkInv
<1>5. Before(j)' \/ (Ended(j) /\ Marked(j))
  BY <1>1, <1>2, <1>4 DEF VideoInv, Types, RunnerTypes, PhaseGoes, Before, InProgress, Active
<1>6. QED
  BY <1>1, <1>2, <1>3, <1>5, GoesOn

(* The upstream's job is cancelled, and the handler follows: a DELETE's    *)
(* cancellation is not taken for the deadline's.                           *)
LEMMA HandlerFacts ==
  ASSUME NEW j \in Jobs
  PROVE  /\ Handler(j) \in {"timing_out", "cancelling"}
         /\ "cancel" \in causes[j] => Handler(j) = "cancelling"
  BY DEF Handler

LEMMA UnwoundStep ==
  ASSUME VideoInv, NEW j \in Jobs, Unwound(j)
  PROVE  VideoInv'
<1>1. /\ phase[j] = "unwinding" /\ j \notin cancelled /\ PhaseGoes(j, Handler(j))
      /\ UNCHANGED <<row, lock, stage, create, causes, lost, deleteVars, server, poolVars>>
  BY DEF Unwound, dbVars
<1>2. /\ state[j] = "running" /\ lock # Runner(j)
      /\ Handler(j) \in WritePhases \cup BoundedPhases
  BY <1>1, AliveFacts, HandlerFacts DEF WritePhases
<1>3. Before(j)'
  BY <1>1, HandlerFacts DEF VideoInv, Types, RunnerTypes, PhaseGoes, Before
<1>4. QED
  BY <1>1, <1>2, <1>3, HandlerFacts, GoesOn

(* The deadline and the pool's cap.                                        *)
LEMMA DeadlineStep ==
  ASSUME VideoInv, NEW j \in Jobs, Deadline(j) \/ Backstop(j)
  PROVE  VideoInv'
<1>1. PICK why \in {"timeout", "backstop"} :
        /\ causes' = [causes EXCEPT ![j] = @ \cup {why}]
        /\ Pool!RequestCancel(j)
        /\ UNCHANGED <<dbVars, create, phase, lost, deleteVars, server>>
  BY DEF Deadline, Backstop
<1>2. phase[j] \notin {"none", "ended"}
  BY DEF Deadline, Backstop, BoundedPhases, Handlers
<1>3. state[j] = "running"
  BY <1>2, AliveFacts
<1>4. QED
  BY <1>1, <1>3, AsksCancel

(* Where a cancellation takes the coroutine.                               *)
LEMMA AfterCancelFacts ==
  ASSUME NEW j \in Jobs, phase[j] \in WritePhases \cup BoundedPhases
  PROVE  /\ phase[j] \in Handlers => AfterCancel(j) = "ended"
         /\ phase[j] \notin Handlers =>
              /\ AfterCancel(j) \in {"unwinding", "timing_out", "cancelling"}
              /\ "cancel" \in causes[j] => AfterCancel(j) \in {"unwinding", "cancelling"}
<1>1. CASE phase[j] = "render"
  <2>1. AfterCancel(j) = "unwinding"
    BY <1>1 DEF AfterCancel, BoundedPhases, Handlers
  <2>2. QED
    BY <1>1, <2>1 DEF Handlers
<1>2. CASE phase[j] \in Handlers
  <2>1. phase[j] # "render" /\ phase[j] \notin BoundedPhases \ {"render"}
    BY <1>2 DEF BoundedPhases, Handlers
  <2>2. AfterCancel(j) = "ended"
    BY <1>2, <2>1 DEF AfterCancel
  <2>3. QED
    BY <1>2, <2>2
<1>3. CASE phase[j] \in BoundedPhases \ {"render"}
  <2>1. phase[j] # "render" /\ phase[j] \notin Handlers
    BY <1>3 DEF BoundedPhases, Handlers
  <2>2. AfterCancel(j) = Handler(j)
    BY <1>3, <2>1 DEF AfterCancel
  <2>3. QED
    BY <2>1, <2>2, HandlerFacts
<1>4. QED
  BY <1>1, <1>2, <1>3 DEF WritePhases, BoundedPhases, Handlers

(* A cancellation reaches the coroutine, and its open write is lost or     *)
(* committed.                                                              *)
LEMMA InterruptedRow ==
  ASSUME VideoInv, NEW j \in Jobs, Interrupted(j)
  PROVE  /\ RowTypes'
         /\ \A i \in Jobs \ {j} : row'[i] = row[i]
         /\ Ended(j) => Ended(j)'
         /\ row'[j].status # "absent"
         /\ row'[j].status # "failed" => row'[j].error = "none"
         /\ row'[j].error = "user" => row'[j] = row[j]
         /\ \/ lock # Runner(j) /\ UNCHANGED <<lock, stage>>
            \/ lock = Runner(j) /\ ReleaseLock
<1>1. /\ Alive(j) /\ RowTypes
      /\ row[j].status # "absent"
      /\ row[j].status # "failed" => row[j].error = "none"
  BY AliveFacts DEF VideoInv, Types, Interrupted
<1>2. /\ \/ lock # Runner(j) /\ UNCHANGED <<lock, stage>>
         \/ lock = Runner(j) /\ ReleaseLock
      /\ \/ row' = row
         \/ lock = Runner(j) /\ stage = "open" /\ row' = Written(lock)
  BY DEF Interrupted, dbVars
<1>3. CASE row' = row
  BY <1>1, <1>2, <1>3 DEF RowTypes, RowType, Ended
<1>4. CASE lock = Runner(j) /\ stage = "open" /\ row' = Written(lock)
  <2>1. row' = WrittenByRunner(j) /\ Before(j) /\ phase[j] \in WritePhases
    BY <1>4, WrittenFacts, AliveFacts DEF VideoInv, JobInv, WorkInv
  <2>2. RowTypes' /\ \A i \in Jobs \ {j} : row'[i] = row[i]
    BY <1>1, <2>1, RunnerRow DEF RowTypes
  <2>3. /\ Ended(j) => row'[j] = row[j]
        /\ row'[j].status # "absent"
        /\ row'[j].status # "failed" => row'[j].error = "none"
        /\ row'[j].error = "user" => row'[j] = row[j]
    BY <1>1, <2>1, RunnerSettles
  <2>4. QED
    BY <1>2, <2>2, <2>3 DEF Ended
<1>5. QED
  BY <1>2, <1>3, <1>4

LEMMA InterruptedStep ==
  ASSUME VideoInv, NEW j \in Jobs, Interrupted(j)
  PROVE  VideoInv'
<1> DEFINE next == AfterCancel(j)
<1>1. /\ state[j] = "running" /\ j \in cancelled
      /\ PhaseGoes(j, next)
      /\ IF next = "ended" THEN Pool!Finish(j) /\ GiveUp(j)
                           ELSE Pool!Deliver(j) /\ UNCHANGED lost
      /\ UNCHANGED <<create, causes, deleteVars, server>>
  BY DEF Interrupted
<1>2. Alive(j) /\ phase[j] \in WritePhases \cup BoundedPhases
  BY <1>1, AliveFacts DEF VideoInv, Types, RunnerTypes
<1>3. /\ RowTypes'
      /\ \A i \in Jobs \ {j} : row'[i] = row[i]
      /\ Ended(j) => Ended(j)'
      /\ row'[j].status # "absent"
      /\ row'[j].status # "failed" => row'[j].error = "none"
      /\ row'[j].error = "user" => row'[j] = row[j]
      /\ \/ lock # Runner(j) /\ UNCHANGED <<lock, stage>>
         \/ lock = Runner(j) /\ ReleaseLock
  BY InterruptedRow
<1>4. /\ phase[j] \in Handlers => next = "ended"
      /\ phase[j] \notin Handlers =>
           /\ next \in {"unwinding", "timing_out", "cancelling"}
           /\ "cancel" \in causes[j] => next \in {"unwinding", "cancelling"}
  BY <1>2, AfterCancelFacts
<1> HIDE DEF next
<1>5. CASE phase[j] \in Handlers
  BY <1>1, <1>3, <1>4, <1>5, TaskEnds
<1>6. CASE phase[j] \notin Handlers
  <2>1. /\ phase' = [phase EXCEPT ![j] = next]
        /\ cancelled' = cancelled \ {j}
        /\ Pool!Deliver(j)
        /\ UNCHANGED <<state, create, causes, lost, delete, target, told, server,
                       reserved, shutdown>>
    BY <1>1, <1>4, <1>6 DEF PhaseGoes, Pool!Deliver, deleteVars
  <2>2. /\ Alive(j)' /\ state'[j] = "running" /\ phase'[j] = next
        /\ \A i \in Jobs \ {j} : phase'[i] = phase[i]
    BY <1>1, <1>2, <2>1 DEF VideoInv, Types, RunnerTypes, Alive
  <2>3. PoolP!PoolInv'
    BY <2>1, PoolUsed DEF PoolUse, VideoInv
  <2>4. RunnerTypes' /\ LockTypes'
    BY <1>3, <1>4, <1>6, <2>1
       DEF VideoInv, Types, RunnerTypes, LockTypes, ReleaseLock, WritePhases, BoundedPhases
  <2>5. lock' # Runner(j) /\ (lock' = lock \/ lock' = None)
    BY <1>3, Names DEF ReleaseLock
  <2>6. LockInv'
    <3>1. CASE UNCHANGED <<lock, stage>>
      BY <2>1, <2>2, <2>5, <3>1 DEF VideoInv, LockInv
    <3>2. CASE ReleaseLock
      BY <3>2, Names DEF LockInv, ReleaseLock
    <3>3. QED
      BY <1>3, <3>1, <3>2
  <2>7. \A i \in Jobs \ {j} : Idle(i)
    BY <1>3, <2>1, <2>2 DEF Idle
  <2>8. Marked(j)' <=> Marked(j)
    <3>1. CASE lock # Runner(j) /\ UNCHANGED <<lock, stage>>
      BY <2>1, <3>1, SameMark
    <3>2. CASE lock = Runner(j) /\ ReleaseLock
      BY <3>2, Names DEF ReleaseLock, Marked
    <3>3. QED
      BY <1>3, <3>1, <3>2
  <2>9. WorkInv(j)'
    <3>1. Before(j)'
      BY <1>4, <1>6, <2>2 DEF Before
    <3>2. QED
      BY <2>5, <3>1 DEF WorkInv
  <2>10. CancelInv(j)'
    BY <1>1, <1>2, <1>3, <1>4, <1>6, <2>1, <2>2, <2>8 DEF VideoInv, JobInv, CancelInv
  <2>11. JobInv(j)'
    BY <1>2, <1>3, <1>4, <1>6, <2>1, <2>2, <2>9, <2>10, AliveFacts, TaskLives
  <2>12. UNCHANGED <<lock, stage>> \/ (lock \in {None, Runner(j)} /\ lock' \in {None, Runner(j)})
    BY <1>3 DEF ReleaseLock
  <2>13. QED
    BY <1>2, <1>3, <2>1, <2>3, <2>4, <2>6, <2>7, <2>11, <2>12, OneTask
<1>7. QED
  BY <1>5, <1>6

-----------------------------------------------------------------------------
(* The POST of one job.                                                    *)

(* A step of j's POST takes no other lock than its own.                    *)
LEMMA OnePost ==
  ASSUME VideoInv, NEW j \in Jobs, create[j] # "done", server = "up", shutdown = "no",
         PoolP!PoolInv', RowTypes', RequestTypes', LockTypes', ReservedInv',
         \A i \in Jobs \ {j} : /\ create'[i] = create[i] /\ row'[i] = row[i]
                               /\ state'[i] = state[i],
         UNCHANGED <<phase, causes, deleteVars, server, cancelled, shutdown>>,
         lost \subseteq lost', lost' \subseteq Jobs,
         LockInv',
         UNCHANGED <<lock, stage>> \/ (lock \in {None, Creator(j)} /\ lock' \in {None, Creator(j)}),
         JobInv(j)'
  PROVE  VideoInv'
<1>1. UNCHANGED <<delete, target, told>>
  BY DEF deleteVars
<1>2. Types'
  BY DEF VideoInv, Types, RunnerTypes
<1>3. ServerInv'
  BY DEF ServerInv
<1>4. ASSUME NEW i \in Jobs, i # j PROVE JobInv(i)'
  <2>1. Marked(i)' <=> Marked(i)
    <3>1. CASE UNCHANGED <<lock, stage>>
      BY <1>1, <3>1, SameMark
    <3>2. CASE lock \in {None, Creator(j)} /\ lock' \in {None, Creator(j)}
      BY <3>2, Names DEF Marked
    <3>3. QED
      BY <3>1, <3>2
  <2>2. SameLock(i)
    BY <1>4, <2>1, Names DEF SameLock, NotHolding
  <2>3. Idle(i)
    BY <1>4 DEF Idle
  <2>4. QED
    BY <2>2, <2>3, Framed DEF VideoInv
<1>5. ASSUME NEW d \in Deletes PROVE DeleteInv(d)'
  <2>1. DeleteInv(d)
    BY DEF VideoInv
  <2>2. delete[d] # "none" => target[d] \in Jobs \ {j}
    BY <2>1 DEF DeleteInv
  <2>3. lock' = Deleter(d) => UNCHANGED <<lock, stage>> /\ delete[d] # "none"
    BY Names DEF VideoInv, LockInv
  <2>4. QED
    BY <1>1, <2>1, <2>2, <2>3 DEF DeleteInv, Ended
<1>6. QED
  BY <1>2, <1>3, <1>4, <1>5 DEF VideoInv

(* What the invariant says of a POST that is not done.                     *)
LEMMA PostFacts ==
  ASSUME VideoInv, NEW j \in Jobs
  PROVE  /\ PoolTypes
         /\ lock = Creator(j) => create[j] = "insert"
         /\ create[j] # "done" => /\ state[j] = "none" /\ phase[j] = "none"
                                  /\ ~ Alive(j) /\ j \notin cancelled /\ lock # Runner(j)
         /\ InFlight(j) => server = "up" /\ shutdown = "no"
<1>1. PoolTypes
  BY PoolTyped DEF VideoInv
<1>2. lock = Creator(j) => create[j] = "insert"
  BY DEF VideoInv, LockInv
<1>3. create[j] # "done" => state[j] = "none" /\ phase[j] = "none" /\ ~ Alive(j) /\ j \notin cancelled
  BY DEF VideoInv, JobInv, TaskInv, Alive
<1>4. create[j] # "done" => lock # Runner(j)
  BY <1>3, AliveFacts
<1>5. InFlight(j) => server = "up" /\ shutdown = "no"
  BY DEF VideoInv, ServerInv, RequestsIdle, InFlight
<1>6. QED
  BY <1>1, <1>2, <1>3, <1>4, <1>5

(* The invariant of a job whose POST is not done: the parts left to show.  *)
LEMMA PostLives ==
  ASSUME VideoInv, NEW j \in Jobs, create[j] # "done", create'[j] # "done",
         UNCHANGED <<state, phase, cancelled>>, lock' # Runner(j),
         PostInv(j)', OwnedInv(j)'
  PROVE  JobInv(j)'
<1>1. TaskInv(j)'
  BY PostFacts DEF VideoInv, JobInv, TaskInv, Alive
<1>2. ~ Alive(j)'
  BY PostFacts DEF Alive
<1>3. WorkInv(j)' /\ CancelInv(j)'
  BY <1>2 DEF WorkInv, CancelInv, Alive
<1>4. QED
  BY <1>1, <1>3 DEF JobInv

(* A step of a POST that moves neither the lock nor the row.               *)
LEMMA PostMoves ==
  ASSUME VideoInv, NEW j \in Jobs, create[j] # "done", server = "up", shutdown = "no",
         PoolUse, NEW s \in {"read", "insert", "rejected"}, CreateGoes(j, s),
         create[j] \in {"none", "read"},
         UNCHANGED <<dbVars, runnerVars, deleteVars, server>>,
         UNCHANGED <<state, cancelled, shutdown>>,
         reserved' = IF s # "rejected" /\ create[j] = "none" THEN reserved + 1 ELSE reserved,
         s = "rejected" => create[j] = "none"
  PROVE  VideoInv'
<1>1. /\ create' = [create EXCEPT ![j] = s]
      /\ UNCHANGED <<row, lock, stage, phase, causes, lost, delete, target, told>>
  BY DEF CreateGoes, dbVars, runnerVars, deleteVars
<1>2. create'[j] = s /\ \A i \in Jobs \ {j} : create'[i] = create[i]
  BY <1>1 DEF VideoInv, Types, RequestTypes
<1>3. PoolP!PoolInv'
  BY PoolUsed DEF VideoInv
<1>4. RowTypes' /\ RequestTypes' /\ LockTypes'
  BY <1>1 DEF VideoInv, Types, RowTypes, RowType, RequestTypes, LockTypes
<1>5. ReservedInv'
  <2>1. RequestTypes /\ ReservedInv /\ reserved \in Nat
    BY PostFacts DEF VideoInv, Types, PoolTypes
  <2>2. reserved' = IF InFlight(j)' THEN IF InFlight(j) THEN reserved ELSE reserved + 1
                                    ELSE IF InFlight(j) THEN reserved - 1 ELSE reserved
    BY <1>2 DEF InFlight
  <2>3. QED
    BY <1>1, <2>1, <2>2, ReservedMoves
<1>6. lock # Creator(j) /\ lock # Runner(j)
  BY PostFacts
<1>7. LockInv'
  BY <1>1, <1>2, <1>6 DEF VideoInv, LockInv
<1>8. row[j] = Absent
  BY DEF VideoInv, JobInv, PostInv
<1>9. PostInv(j)' /\ OwnedInv(j)'
  BY <1>1, <1>2, <1>6, <1>8 DEF PostInv, OwnedInv, Absent, Active
<1>10. JobInv(j)'
  BY <1>1, <1>2, <1>6, <1>9, PostLives
<1>11. lost' \subseteq Jobs /\ lost \subseteq lost'
  BY <1>1 DEF VideoInv, Types, RunnerTypes
<1>12. QED
  BY <1>1, <1>2, <1>3, <1>4, <1>5, <1>7, <1>10, <1>11, OnePost

LEMMA CreateFirstSteps ==
  ASSUME VideoInv, NEW j \in Jobs, CreateReserve(j) \/ CreateRejected(j) \/ CreateRead(j)
  PROVE  VideoInv'
<1>1. CASE CreateReserve(j)
  <2>1. /\ UNCHANGED <<state, cancelled, shutdown>> /\ reserved' = reserved + 1
        /\ Pool!Reserve
    BY <1>1 DEF CreateReserve, Pool!Reserve
  <2>2. QED
    BY <1>1, <2>1, PostMoves DEF CreateReserve, PoolUse
<1>2. CASE CreateRejected(j)
  <2>1. UNCHANGED <<state, cancelled, shutdown>> /\ reserved' = reserved
    BY <1>2 DEF CreateRejected, poolVars
  <2>2. QED
    BY <1>2, <2>1, PostMoves DEF CreateRejected, PoolUse
<1>3. CASE CreateRead(j)
  <2>1. UNCHANGED <<state, cancelled, shutdown>> /\ reserved' = reserved
    BY <1>3 DEF CreateRead, poolVars
  <2>2. server = "up" /\ shutdown = "no"
    BY <1>3, PostFacts DEF CreateRead, InFlight
  <2>3. QED
    BY <1>3, <2>1, <2>2, PostMoves DEF CreateRead, PoolUse
<1>4. QED
  BY <1>1, <1>2, <1>3

(* It takes the lock, its insert runs and is committed.                    *)
LEMMA PostWrites ==
  ASSUME VideoInv, NEW j \in Jobs,
         \/ TakeLock(Creator(j))
         \/ lock = Creator(j) /\ (Execute \/ Commit)
  PROVE  VideoInv'
<1>1. /\ create[j] = "insert" /\ lock' = Creator(j) /\ lock \in {None, Creator(j)}
      /\ stage' \in {"taken", "open", "done"}
      /\ \/ stage' # "done" /\ row' = row /\ (lock = None \/ stage # "done")
         \/ stage' = "done" /\ stage = "open" /\ lock = Creator(j) /\ row' = Inserted(j)
      /\ UNCHANGED <<create, runnerVars, deleteVars, server, poolVars>>
  BY WantsFacts, WrittenFacts DEF TakeLock, Execute, Commit
<1>2. /\ UNCHANGED <<phase, causes, lost, delete, target, told, state, permits, waiting,
                     reserved, cancelled, shutdown>>
      /\ UNCHANGED poolVars
  BY <1>1 DEF runnerVars, deleteVars, poolVars
<1>3. create[j] # "done" /\ server = "up" /\ shutdown = "no" /\ lock' # Runner(j)
  BY <1>1, PostFacts, Names DEF InFlight
<1>4. PoolP!PoolInv'
  BY <1>2, PoolUsed DEF PoolUse, VideoInv
<1>5. row[j] = Absent
  BY <1>1, Names DEF VideoInv, JobInv, PostInv
<1>6. /\ RowTypes' /\ \A i \in Jobs \ {j} : row'[i] = row[i]
      /\ stage' # "done" => row'[j] = Absent
      /\ stage' = "done" => row'[j] = [status |-> "queued", error |-> "none"]
  BY <1>1, <1>5 DEF VideoInv, Types, RowTypes, RowType, Inserted, Active
<1>7. RequestTypes' /\ LockTypes'
  BY <1>1, <1>2, Names DEF VideoInv, Types, RequestTypes, LockTypes
<1>8. ReservedInv'
  BY <1>1, <1>2, ReservedKept DEF VideoInv
<1>9. LockInv'
  BY <1>1, <1>2, Names DEF VideoInv, LockInv
<1>10. PostInv(j)' /\ OwnedInv(j)'
  BY <1>1, <1>6 DEF PostInv, OwnedInv, Absent, Queued
<1>11. JobInv(j)'
  BY <1>1, <1>2, <1>3, <1>10, PostLives
<1>12. lost' \subseteq Jobs /\ lost \subseteq lost'
  BY <1>2 DEF VideoInv, Types, RunnerTypes
<1>13. QED
  BY <1>1, <1>2, <1>3, <1>4, <1>6, <1>7, <1>8, <1>9, <1>11, <1>12, OnePost

(* The row is inserted; it is read back, and the task is submitted.        *)
LEMMA CreateInsertedStep ==
  ASSUME VideoInv, NEW j \in Jobs, CreateInserted(j)
  PROVE  VideoInv'
<1>1. /\ lock = Creator(j) /\ stage = "done" /\ ReleaseLock /\ create[j] = "insert"
      /\ create' = [create EXCEPT ![j] = "fetch"]
      /\ UNCHANGED <<row, runnerVars, deleteVars, server, poolVars>>
  BY WantsFacts DEF CreateInserted, Succeeds, CreateGoes
<1>2. /\ UNCHANGED <<phase, causes, lost, delete, target, told, state, permits, waiting,
                     reserved, cancelled, shutdown>>
      /\ UNCHANGED poolVars
      /\ lock' = None /\ stage' = "taken"
  BY <1>1 DEF runnerVars, deleteVars, poolVars, ReleaseLock
<1>3. create[j] # "done" /\ server = "up" /\ shutdown = "no" /\ lock' # Runner(j)
  BY <1>1, <1>2, PostFacts, Names DEF InFlight
<1>4. create'[j] = "fetch" /\ \A i \in Jobs \ {j} : create'[i] = create[i]
  BY <1>1 DEF VideoInv, Types, RequestTypes
<1>5. PoolP!PoolInv'
  BY <1>2, PoolUsed DEF PoolUse, VideoInv
<1>6. RowTypes' /\ RequestTypes' /\ LockTypes'
  BY <1>1, <1>2 DEF VideoInv, Types, RowTypes, RowType, RequestTypes, LockTypes
<1>7. ReservedInv'
  <2>1. RequestTypes /\ ReservedInv /\ reserved \in Nat
    BY PostFacts DEF VideoInv, Types, PoolTypes
  <2>2. InFlight(j) /\ InFlight(j)'
    BY <1>1, <1>4 DEF InFlight
  <2>3. QED
    BY <1>1, <1>2, <2>1, <2>2, ReservedMoves
<1>8. LockInv'
  BY <1>2, Names DEF LockInv
<1>9. Queued(j) /\ row[j].error = "none"
  BY <1>1 DEF VideoInv, JobInv, PostInv, Queued
<1>10. PostInv(j)' /\ OwnedInv(j)'
  BY <1>1, <1>4, <1>9 DEF PostInv, OwnedInv, Queued
<1>11. JobInv(j)'
  BY <1>2, <1>3, <1>4, <1>10, PostLives
<1>12. lost' \subseteq Jobs /\ lost \subseteq lost'
  BY <1>2 DEF VideoInv, Types, RunnerTypes
<1>13. QED
  BY <1>1, <1>2, <1>3, <1>4, <1>5, <1>6, <1>7, <1>8, <1>11, <1>12, OnePost

LEMMA CreateSubmitStep ==
  ASSUME VideoInv, NEW j \in Jobs, CreateSubmit(j)
  PROVE  VideoInv'
<1>1. /\ create[j] = "fetch"
      /\ create' = [create EXCEPT ![j] = "done"]
      /\ state' = [state EXCEPT ![j] = "waiting"]
      /\ reserved' = reserved - 1
      /\ UNCHANGED <<row, lock, stage, phase, causes, lost, delete, target, told, server,
                     cancelled, shutdown>>
  BY DEF CreateSubmit, CreateGoes, Pool!Submit, dbVars, runnerVars, deleteVars
<1>2. /\ create[j] # "done" /\ server = "up" /\ shutdown = "no"
      /\ phase[j] = "none" /\ j \notin cancelled /\ lock # Runner(j) /\ lock # Creator(j)
  BY <1>1, PostFacts DEF InFlight
<1>3. /\ create'[j] = "done" /\ state'[j] = "waiting"
      /\ \A i \in Jobs \ {j} : create'[i] = create[i] /\ state'[i] = state[i]
  BY <1>1, PostFacts DEF VideoInv, Types, RequestTypes, PoolTypes
<1>4. PoolP!PoolInv'
  BY PoolUsed DEF CreateSubmit, PoolUse, VideoInv
<1>5. RowTypes' /\ RequestTypes' /\ LockTypes'
  BY <1>1 DEF VideoInv, Types, RowTypes, RowType, RequestTypes, LockTypes
<1>6. ReservedInv'
  <2>1. RequestTypes /\ ReservedInv /\ reserved \in Nat
    BY PostFacts DEF VideoInv, Types, PoolTypes
  <2>2. InFlight(j) /\ ~ InFlight(j)'
    BY <1>1, <1>3 DEF InFlight
  <2>3. QED
    BY <1>1, <2>1, <2>2, ReservedMoves
<1>7. LockInv'
  BY <1>1, <1>2, <1>3 DEF VideoInv, LockInv
<1>8. Queued(j) /\ row[j].error = "none"
  BY <1>1 DEF VideoInv, JobInv, PostInv, Queued
<1>9. JobInv(j)'
  <2>1. TaskInv(j)'
    BY <1>1, <1>2, <1>3 DEF TaskInv, Alive
  <2>2. PostInv(j)'
    BY <1>1, <1>3, <1>8 DEF PostInv, Queued
  <2>3. WorkInv(j)'
    BY <1>1, <1>2, <1>8 DEF WorkInv, Before, Queued
  <2>4. CancelInv(j)' /\ OwnedInv(j)'
    BY <1>1, <1>2, <1>3, <1>8 DEF CancelInv, OwnedInv, Alive
  <2>5. QED
    BY <2>1, <2>2, <2>3, <2>4 DEF JobInv
<1>10. lost' \subseteq Jobs /\ lost \subseteq lost' /\ UNCHANGED deleteVars
  BY <1>1 DEF VideoInv, Types, RunnerTypes, deleteVars
<1>11. QED
  BY <1>1, <1>2, <1>3, <1>4, <1>5, <1>6, <1>7, <1>9, <1>10, OnePost

(* It fails, and if a row is left nobody will settle it.                   *)
LEMMA CreateFailsStep ==
  ASSUME VideoInv, NEW j \in Jobs, CreateFails(j)
  PROVE  VideoInv'
<1>1. /\ create[j] \in {"read", "insert", "fetch"} /\ row' = row
      /\ \/ lock # Creator(j) /\ UNCHANGED <<lock, stage>>
         \/ lock = Creator(j) /\ ReleaseLock
  BY WantsFacts, PostFacts DEF CreateFails, Fails, dbVars
<1>2. /\ create' = [create EXCEPT ![j] = "failed"]
      /\ reserved' = reserved - 1
      /\ UNCHANGED <<phase, causes, delete, target, told, server, state, cancelled, shutdown>>
      /\ UNCHANGED deleteVars
  BY DEF CreateFails, CreateGoes, Pool!ReleaseReservation, deleteVars
<1>3. create[j] # "done" /\ server = "up" /\ shutdown = "no" /\ lock # Runner(j)
  BY <1>1, PostFacts DEF InFlight
<1>4. create'[j] = "failed" /\ \A i \in Jobs \ {j} : create'[i] = create[i]
  BY <1>2 DEF VideoInv, Types, RequestTypes
<1>5. /\ lost' \subseteq Jobs /\ lost \subseteq lost'
      /\ row[j].status \in Active => j \in lost'
  BY <1>1, <1>3 DEF CreateFails, GiveUp, VideoInv, Types, RunnerTypes
<1>6. PoolP!PoolInv'
  BY PoolUsed DEF CreateFails, PoolUse, VideoInv
<1>7. RowTypes' /\ RequestTypes' /\ LockTypes'
  BY <1>1, <1>2 DEF VideoInv, Types, RowTypes, RowType, RequestTypes, LockTypes, ReleaseLock
<1>8. ReservedInv'
  <2>1. RequestTypes /\ ReservedInv /\ reserved \in Nat
    BY PostFacts DEF VideoInv, Types, PoolTypes
  <2>2. InFlight(j) /\ ~ InFlight(j)'
    BY <1>1, <1>4 DEF InFlight
  <2>3. QED
    BY <1>2, <2>1, <2>2, ReservedMoves
<1>9. lock' # Runner(j) /\ lock' # Creator(j)
  BY <1>1, <1>3, Names DEF ReleaseLock
<1>10. LockInv'
  <2>1. CASE UNCHANGED <<lock, stage>>
    BY <1>2, <1>4, <1>9, <2>1 DEF VideoInv, LockInv
  <2>2. CASE ReleaseLock
    BY <2>2, Names DEF LockInv, ReleaseLock
  <2>3. QED
    BY <1>1, <2>1, <2>2
<1>11. PostInv(j)' /\ OwnedInv(j)'
  BY <1>1, <1>4, <1>5 DEF VideoInv, JobInv, PostInv, OwnedInv
<1>12. JobInv(j)'
  BY <1>2, <1>3, <1>4, <1>9, <1>11, PostLives
<1>13. UNCHANGED <<lock, stage>> \/ (lock \in {None, Creator(j)} /\ lock' \in {None, Creator(j)})
  BY <1>1 DEF ReleaseLock
<1>14. QED
  BY <1>1, <1>2, <1>3, <1>4, <1>5, <1>6, <1>7, <1>8, <1>10, <1>12, <1>13, OnePost

-----------------------------------------------------------------------------
(* A DELETE.                                                               *)

LEMMA DeleteFacts ==
  ASSUME VideoInv, NEW d \in Deletes
  PROVE  /\ PoolTypes
         /\ lock = Deleter(d) => delete[d] = "mark"
         /\ delete[d] # "none" => target[d] \in Jobs /\ create[target[d]] = "done"
         /\ delete[d] \in {"mark", "refresh"} => server = "up" /\ shutdown = "no"
<1>1. PoolTypes
  BY PoolTyped DEF VideoInv
<1>2. /\ lock = Deleter(d) => delete[d] = "mark"
      /\ delete[d] # "none" => target[d] \in Jobs /\ create[target[d]] = "done"
      /\ delete[d] \in {"mark", "refresh"} => server = "up" /\ shutdown = "no"
  BY DEF VideoInv, LockInv, DeleteInv, ServerInv, RequestsIdle
<1>3. QED
  BY <1>1, <1>2

(* A step of d takes no other lock than its own.                           *)
LEMMA OneDelete ==
  ASSUME VideoInv, NEW d \in Deletes, server = "up", shutdown = "no",
         PoolP!PoolInv', RowTypes', RequestTypes', RunnerTypes', LockTypes', LockInv',
         UNCHANGED <<create, server, reserved, shutdown>>,
         \A e \in Deletes \ {d} : delete'[e] = delete[e] /\ target'[e] = target[e],
         UNCHANGED <<lock, stage>> \/ (lock \in {None, Deleter(d)} /\ lock' \in {None, Deleter(d)}),
         \A i \in Jobs : JobInv(i)' /\ (Ended(i) => Ended(i)'),
         DeleteInv(d)'
  PROVE  VideoInv'
<1>1. Types' /\ ServerInv'
  BY DEF Types, ServerInv
<1>2. ReservedInv'
  BY ReservedKept DEF VideoInv
<1>3. ASSUME NEW e \in Deletes, e # d PROVE DeleteInv(e)'
  <2>1. DeleteInv(e) /\ delete'[e] = delete[e] /\ target'[e] = target[e]
    BY <1>3 DEF VideoInv
  <2>2. lock' = Deleter(e) => UNCHANGED <<lock, stage>> /\ delete[e] # "none"
    BY <1>3, Names DEF VideoInv, LockInv
  <2>3. QED
    BY <2>1, <2>2 DEF DeleteInv, Ended
<1>4. QED
  BY <1>1, <1>2, <1>3 DEF VideoInv

(* A DELETE's step that changes no job and marks none.                     *)
LEMMA DeleteMoves ==
  ASSUME VideoInv, NEW d \in Deletes, server = "up", shutdown = "no",
         RequestTypes', LockTypes', LockInv',
         UNCHANGED <<row, create, runnerVars, server, poolVars>>,
         \A e \in Deletes \ {d} : delete'[e] = delete[e] /\ target'[e] = target[e],
         \/ UNCHANGED <<lock, stage>> /\ lock # Deleter(d)
         \/ /\ lock \in {None, Deleter(d)} /\ lock' \in {None, Deleter(d)}
            /\ lock = None \/ stage # "done"
            /\ lock' = None \/ stage' # "done",
         DeleteInv(d)'
  PROVE  VideoInv'
<1>1. UNCHANGED <<phase, causes, lost, state, permits, waiting, reserved, cancelled, shutdown>>
  BY DEF runnerVars, poolVars
<1>2. PoolP!PoolInv'
  BY PoolUsed DEF PoolUse, VideoInv
<1>3. RowTypes' /\ RunnerTypes'
  BY <1>1 DEF VideoInv, Types, RowTypes, RowType, RunnerTypes
<1>4. ASSUME NEW i \in Jobs PROVE JobInv(i)'
  <2>1. Marked(i)' <=> Marked(i)
    <3>1. CASE UNCHANGED <<lock, stage>> /\ lock # Deleter(d)
      BY <3>1 DEF Marked
    <3>2. CASE /\ lock \in {None, Deleter(d)} /\ lock' \in {None, Deleter(d)}
               /\ lock = None \/ stage # "done"
               /\ lock' = None \/ stage' # "done"
      BY <3>2, Names DEF Marked
    <3>3. QED
      BY <3>1, <3>2
  <2>2. SameLock(i)
    BY <2>1, Names DEF SameLock, NotHolding
  <2>3. Idle(i)
    BY <1>1 DEF Idle
  <2>4. QED
    BY <1>1, <2>2, <2>3, Framed DEF VideoInv
<1>5. QED
  BY <1>1, <1>2, <1>3, <1>4, OneDelete DEF Ended

(* What a reader sees: a job whose POST is done has a row.                 *)
LEMMA VisibleTyped ==
  ASSUME VideoInv
  PROVE  /\ Visible \in RowType
         /\ \A j \in Jobs : create[j] = "done" => Visible[j].status # "absent"
<1>1. /\ row \in RowType
      /\ \A j \in Jobs : create[j] = "done" => row[j].status # "absent"
  BY DEF VideoInv, Types, RowTypes, JobInv, PostInv
<1>2. ASSUME NEW j \in Jobs, lock = Runner(j), stage = "open"
      PROVE  /\ Visible \in RowType
             /\ \A i \in Jobs : create[i] = "done" => Visible[i].status # "absent"
  <2>1. Visible = WrittenByRunner(j)
    BY <1>2, Names, WrittenFacts DEF Visible
  <2>2. /\ phase[j] \in WritePhases /\ Before(j) /\ row[j].status # "absent"
        /\ row[j].status # "failed" => row[j].error = "none"
    BY <1>2, AliveFacts DEF VideoInv, JobInv, WorkInv
  <2>3. /\ WrittenByRunner(j) \in RowType
        /\ \A i \in Jobs \ {j} : WrittenByRunner(j)[i] = row[i]
    BY <1>1, <2>2, RunnerRow DEF RowTypes
  <2>4. WrittenByRunner(j)[j].status # "absent"
    BY <1>1, <2>2, RunnerSettles DEF RowTypes
  <2>5. QED
    BY <1>1, <2>1, <2>3, <2>4
<1>3. ASSUME NEW j \in Jobs, lock = Creator(j), stage = "open"
      PROVE  /\ Visible \in RowType
             /\ \A i \in Jobs : create[i] = "done" => Visible[i].status # "absent"
  <2>1. Visible = Inserted(j)
    BY <1>3, Names, WrittenFacts DEF Visible
  <2>2. QED
    BY <1>1, <2>1 DEF Inserted, RowType, Active
<1>4. ASSUME NEW d \in Deletes, lock = Deleter(d), stage = "open"
      PROVE  /\ Visible \in RowType
             /\ \A i \in Jobs : create[i] = "done" => Visible[i].status # "absent"
  <2>1. Visible = FailedIfActive(target[d], "user")
    BY <1>4, Names, WrittenFacts DEF Visible, WrittenByDelete
  <2>2. target[d] \in Jobs
    BY <1>4, DeleteFacts
  <2>3. QED
    BY <1>1, <2>1, <2>2 DEF FailedIfActive, WithFailure, RowType, Terminal, Reasons
<1>5. CASE ~ (lock # None /\ stage = "open")
  BY <1>1, <1>5 DEF Visible
<1>6. lock \in Writers \cup {None}
  BY DEF VideoInv, Types, LockTypes
<1>7. QED
  BY <1>2, <1>3, <1>4, <1>5, <1>6, WriterCases

(* The job is read.                                                        *)
LEMMA DeleteReadStep ==
  ASSUME VideoInv, NEW d \in Deletes, DeleteRead(d)
  PROVE  VideoInv'
<1>1. PICK j \in Jobs :
        /\ create[j] = "done"
        /\ target' = [target EXCEPT ![d] = j]
        /\ \/ DeleteGoes(d, "mark") /\ UNCHANGED told
           \/ /\ DeleteGoes(d, "done") /\ Visible[j].status \in Terminal
              /\ told' = [told EXCEPT ![d] = Visible[j].status]
  BY DEF DeleteRead
<1>2. /\ server = "up" /\ shutdown = "no" /\ delete[d] = "none"
      /\ UNCHANGED <<row, lock, stage, create, runnerVars, server, poolVars>>
  BY DEF DeleteRead, dbVars
<1>3. lock # Deleter(d)
  BY <1>2, DeleteFacts
<1>4. /\ target'[d] = j /\ delete'[d] \in {"mark", "done"}
      /\ \A e \in Deletes \ {d} : delete'[e] = delete[e] /\ target'[e] = target[e]
  BY <1>1 DEF VideoInv, Types, RequestTypes, DeleteGoes
<1>5. RequestTypes' /\ LockTypes'
  BY <1>1, <1>2 DEF VideoInv, Types, RequestTypes, LockTypes, DeleteGoes
<1>6. LockInv'
  BY <1>2, <1>3, <1>4 DEF VideoInv, LockInv, runnerVars
<1>7. DeleteInv(d)'
  BY <1>1, <1>2, <1>3, <1>4 DEF DeleteInv
<1>8. QED
  BY <1>2, <1>3, <1>4, <1>5, <1>6, <1>7, DeleteMoves

(* It takes the lock, and its statement runs.                              *)
LEMMA DeleteTakes ==
  ASSUME VideoInv, NEW d \in Deletes,
         TakeLock(Deleter(d)) \/ (lock = Deleter(d) /\ Execute)
  PROVE  VideoInv'
<1>1. /\ delete[d] = "mark" /\ lock' = Deleter(d) /\ lock \in {None, Deleter(d)}
      /\ stage' \in {"taken", "open"} /\ (lock = None \/ stage # "done")
      /\ UNCHANGED <<row, create, runnerVars, deleteVars, server, poolVars>>
  BY WantsFacts DEF TakeLock, Execute
<1>2. UNCHANGED <<delete, target, told, phase>>
  BY <1>1 DEF deleteVars, runnerVars
<1>3. server = "up" /\ shutdown = "no"
  BY <1>1, DeleteFacts
<1>4. RequestTypes' /\ LockTypes'
  BY <1>1, <1>2, Names DEF VideoInv, Types, RequestTypes, LockTypes
<1>5. LockInv'
  BY <1>1, <1>2, Names DEF VideoInv, LockInv
<1>6. DeleteInv(d)'
  BY <1>1, <1>2 DEF VideoInv, DeleteInv, Ended
<1>7. QED
  BY <1>1, <1>2, <1>3, <1>4, <1>5, <1>6, DeleteMoves

(* Its mark is committed: the row has ended.                               *)
LEMMA DeleteCommits ==
  ASSUME VideoInv, NEW d \in Deletes, lock = Deleter(d), Commit
  PROVE  VideoInv'
<1>0. PICK j \in Jobs : j = target[d]
  BY DeleteFacts
<1>1. /\ lock' = Deleter(d) /\ stage' = "done"
      /\ row' = FailedIfActive(j, "user")
      /\ UNCHANGED <<create, phase, causes, lost, delete, target, told, server,
                     state, permits, waiting, reserved, cancelled, shutdown>>
      /\ UNCHANGED poolVars
  BY <1>0, WrittenFacts DEF Commit, WrittenByDelete, runnerVars, deleteVars, poolVars
<1>2. delete[d] = "mark" /\ j \in Jobs /\ create[j] = "done" /\ server = "up" /\ shutdown = "no"
  BY <1>0, DeleteFacts
<1>3. row[j].status # "absent" /\ row[j].status \in {"absent"} \cup Active \cup Terminal
  BY <1>2 DEF VideoInv, Types, RowTypes, RowType, JobInv, PostInv
<1>4. /\ RowTypes' /\ \A i \in Jobs \ {j} : row'[i] = row[i]
      /\ row'[j] = row[j] \/ row'[j].status = "failed"
      /\ row'[j].status \in Terminal
  <2>1. CASE row[j].status \in Active
    BY <1>0, <1>1, <1>2, <2>1
       DEF VideoInv, Types, RowTypes, RowType, FailedIfActive, WithFailure, Terminal, Reasons
  <2>2. CASE row[j].status \in Terminal
    <3>1. row[j].status \notin Active
      BY <2>2 DEF Active, Terminal
    <3>2. row' = row
      BY <1>0, <1>1, <3>1 DEF FailedIfActive
    <3>3. QED
      BY <2>2, <3>2 DEF VideoInv, Types, RowTypes, RowType
  <2>3. QED
    BY <1>3, <2>1, <2>2
<1>5. RequestTypes' /\ RunnerTypes' /\ LockTypes'
  BY <1>0, <1>1, Names DEF VideoInv, Types, RequestTypes, RunnerTypes, LockTypes
<1>6. PoolP!PoolInv'
  BY <1>0, <1>1, PoolUsed DEF PoolUse, VideoInv
<1>7. LockInv'
  BY <1>0, <1>1, <1>2, Names DEF LockInv
<1>8. ASSUME NEW i \in Jobs, i # j PROVE JobInv(i)'
  <2>1. ~ Marked(i) /\ ~ Marked(i)'
    BY <1>0, <1>1, <1>8, Names DEF Marked
  <2>2. SameLock(i) /\ Idle(i)
    BY <1>0, <1>1, <1>4, <1>8, <2>1, Names DEF SameLock, NotHolding, Idle
  <2>3. QED
    BY <1>0, <1>1, <2>2, Framed DEF VideoInv
<1>9. JobInv(j)'
  <2>1. Marked(j)' /\ Ended(j)' /\ lock' # Runner(j)
    BY <1>0, <1>1, <1>2, <1>4, Names DEF Marked, Ended
  <2>2. TaskInv(j)'
    BY <1>0, <1>1, <1>2 DEF VideoInv, JobInv, TaskInv, Alive
  <2>3. PostInv(j)'
    BY <1>0, <1>1, <1>2, <1>3, <1>4 DEF VideoInv, JobInv, PostInv, Terminal
  <2>4. WorkInv(j)' /\ CancelInv(j)'
    BY <2>1 DEF WorkInv, CancelInv
  <2>5. OwnedInv(j)'
    BY <1>4 DEF OwnedInv, Active, Terminal
  <2>6. QED
    BY <2>2, <2>3, <2>4, <2>5 DEF JobInv
<1>10. \A i \in Jobs : Ended(i) => Ended(i)'
  BY <1>4 DEF Ended
<1>11. DeleteInv(d)'
  BY <1>0, <1>1, <1>2, <1>4 DEF DeleteInv, Ended
<1>12. QED
  BY <1>0, <1>1, <1>2, <1>4, <1>5, <1>6, <1>7, <1>8, <1>9, <1>10, <1>11, OneDelete

(* It goes on, and cancels the task.                                       *)
LEMMA DeleteMarkedStep ==
  ASSUME VideoInv, NEW d \in Deletes, DeleteMarked(d)
  PROVE  VideoInv'
<1>0. PICK j \in Jobs : j = target[d]
  BY DeleteFacts DEF DeleteMarked, Succeeds
<1>1. /\ lock = Deleter(d) /\ stage = "done" /\ lock' = None /\ stage' = "taken"
      /\ delete' = [delete EXCEPT ![d] = "refresh"]
      /\ causes' = IF j \in Pool!Live THEN [causes EXCEPT ![j] = @ \cup {"cancel"}] ELSE causes
      /\ cancelled' = IF j \in Pool!Live THEN cancelled \cup {j} ELSE cancelled
      /\ Pool!RequestCancel(j)
      /\ UNCHANGED <<row, create, phase, lost, target, told, server, state, permits,
                     waiting, reserved, shutdown>>
  BY <1>0 DEF DeleteMarked, Succeeds, ReleaseLock, DeleteGoes, Pool!RequestCancel
<1>2. delete[d] = "mark" /\ j \in Jobs /\ create[j] = "done" /\ server = "up" /\ shutdown = "no"
  BY <1>0, <1>1, DeleteFacts
<1>3. Ended(j)
  BY <1>0, <1>1 DEF VideoInv, DeleteInv
<1>4. /\ delete'[d] = "refresh"
      /\ \A e \in Deletes \ {d} : delete'[e] = delete[e]
  BY <1>1 DEF VideoInv, Types, RequestTypes
<1>5. RowTypes' /\ RequestTypes' /\ LockTypes'
  BY <1>1 DEF VideoInv, Types, RowTypes, RowType, RequestTypes, LockTypes
<1>6. RunnerTypes'
  BY <1>0, <1>1, <1>2 DEF VideoInv, Types, RunnerTypes
<1>7. PoolP!PoolInv'
  BY <1>0, <1>1, <1>2, PoolUsed DEF PoolUse, VideoInv
<1>8. LockInv'
  BY <1>0, <1>1, Names DEF LockInv
<1>9. /\ \A i \in Jobs \ {j} : causes'[i] = causes[i] /\ (i \in cancelled' <=> i \in cancelled)
      /\ Alive(j) => j \in cancelled' /\ causes'[j] = causes[j] \cup {"cancel"}
      /\ ~ Alive(j) => (j \in cancelled' <=> j \in cancelled)
  BY <1>0, <1>1, <1>2, AliveFacts DEF VideoInv, Types, RunnerTypes
<1>10. ASSUME NEW i \in Jobs, i # j PROVE JobInv(i)'
  <2>1. ~ Marked(i) /\ ~ Marked(i)'
    BY <1>0, <1>1, <1>10, Names DEF Marked
  <2>2. SameLock(i) /\ Idle(i)
    BY <1>0, <1>1, <1>9, <1>10, <2>1, Names DEF SameLock, NotHolding, Idle
  <2>3. QED
    BY <1>0, <1>1, <2>2, Framed DEF VideoInv
<1>11. JobInv(j)'
  <2>1. TaskInv(j)' /\ PostInv(j)'
    BY <1>0, <1>1, <1>2, <1>9 DEF VideoInv, JobInv, TaskInv, PostInv, Alive
  <2>2. lock' # Runner(j) /\ Ended(j)' /\ Alive(j)' = Alive(j)
    BY <1>0, <1>1, <1>2, <1>3, Names DEF Ended, Alive
  <2>3. WorkInv(j)' /\ CancelInv(j)'
    BY <1>9, <2>2 DEF WorkInv, CancelInv
  <2>4. OwnedInv(j)'
    BY <2>2 DEF OwnedInv, Ended, Active, Terminal
  <2>5. QED
    BY <2>1, <2>3, <2>4 DEF JobInv
<1>12. \A i \in Jobs : Ended(i) => Ended(i)'
  BY <1>1 DEF Ended
<1>13. DeleteInv(d)'
  BY <1>0, <1>1, <1>2, <1>3, <1>4, Names DEF DeleteInv, Ended
<1>14. QED
  BY <1>0, <1>1, <1>2, <1>4, <1>5, <1>6, <1>7, <1>8, <1>10, <1>11, <1>12, <1>13, OneDelete

(* The job is read back, or the database fails.                            *)
LEMMA DeleteLastSteps ==
  ASSUME VideoInv, NEW d \in Deletes, DeleteRefreshed(d) \/ DeleteFails(d)
  PROVE  VideoInv'
<1>1. /\ delete[d] \in {"mark", "refresh"}
      /\ UNCHANGED <<row, create, runnerVars, target, server, poolVars>>
      /\ \/ UNCHANGED <<lock, stage>> /\ lock # Deleter(d)
         \/ lock = Deleter(d) /\ stage # "done" /\ ReleaseLock
  BY DeleteFacts, WantsFacts DEF DeleteRefreshed, DeleteFails, Fails, dbVars
<1>2. PICK where \in {"done", "failed"} : delete' = [delete EXCEPT ![d] = where]
  BY DEF DeleteRefreshed, DeleteFails, DeleteGoes
<1>3. server = "up" /\ shutdown = "no"
  BY <1>1, DeleteFacts
<1>4. /\ delete'[d] = where
      /\ \A e \in Deletes \ {d} : delete'[e] = delete[e] /\ target'[e] = target[e]
  BY <1>1, <1>2 DEF VideoInv, Types, RequestTypes
<1>5. LockTypes'
  BY <1>1 DEF VideoInv, Types, LockTypes, ReleaseLock
<1>6. told' \in [Deletes -> {"none"} \cup Active \cup Terminal]
  <2>1. CASE DeleteFails(d)
    BY <2>1 DEF DeleteFails, VideoInv, Types, RequestTypes
  <2>2. CASE DeleteRefreshed(d)
    <3>1. Visible[target[d]].status \in Active \cup Terminal
      BY <1>1, VisibleTyped, DeleteFacts DEF RowType
    <3>2. QED
      BY <2>2, <3>1 DEF DeleteRefreshed, VideoInv, Types, RequestTypes
  <2>3. QED
    BY <2>1, <2>2
<1>7. RequestTypes'
  BY <1>1, <1>2, <1>6 DEF VideoInv, Types, RequestTypes
<1>8. LockInv'
  BY <1>1, <1>4, Names DEF VideoInv, LockInv, runnerVars, ReleaseLock
<1>9. DeleteInv(d)'
  BY <1>1, <1>4, DeleteFacts, Names DEF DeleteInv, ReleaseLock
<1>10. QED
  BY <1>1, <1>3, <1>4, <1>5, <1>7, <1>8, <1>9, DeleteMoves, Names DEF ReleaseLock

-----------------------------------------------------------------------------
(* The process.                                                            *)

(* With the requests idle and no task alive, nobody holds the lock.        *)
LEMMA NoHolder ==
  ASSUME VideoInv, RequestsIdle, \A j \in Jobs : ~ Alive(j)
  PROVE  lock = None
<1>1. lock \in Writers \cup {None}
  BY DEF VideoInv, Types, LockTypes
<1>2. ASSUME NEW j \in Jobs PROVE lock # Runner(j) /\ lock # Creator(j)
  BY AliveFacts, PostFacts DEF RequestsIdle
<1>3. ASSUME NEW d \in Deletes PROVE lock # Deleter(d)
  BY DeleteFacts DEF RequestsIdle
<1>4. QED
  BY <1>1, <1>2, <1>3, WriterCases

(* A step of the process that changes no row, no request and no lock.      *)
LEMMA ProcessMoves ==
  ASSUME VideoInv, PoolUse,
         UNCHANGED <<dbVars, create, phase, lost, deleteVars, state, reserved>>,
         RunnerTypes', LockTypes', ServerInv',
         \A i \in Jobs : CancelInv(i)' /\ OwnedInv(i)',
         cancelled \subseteq cancelled', \A i \in cancelled' : Alive(i)
  PROVE  VideoInv'
<1>1. UNCHANGED <<row, lock, stage, delete, target, told>>
  BY DEF dbVars, deleteVars
<1>2. PoolP!PoolInv'
  BY PoolUsed DEF VideoInv
<1>3. Types' /\ LockInv'
  BY <1>1 DEF VideoInv, Types, RowTypes, RequestTypes, LockInv
<1>4. ReservedInv'
  BY ReservedKept DEF VideoInv
<1>5. \A d \in Deletes : DeleteInv(d)'
  BY <1>1 DEF VideoInv, DeleteInv, Ended
<1>6. ASSUME NEW i \in Jobs PROVE JobInv(i)'
  <2>1. Marked(i)' <=> Marked(i)
    BY <1>1, SameMark
  <2>2. TaskInv(i)' /\ PostInv(i)'
    BY <1>1 DEF VideoInv, JobInv, TaskInv, PostInv, Alive, Queued
  <2>3. WorkInv(i)'
    BY <1>1, <2>1
       DEF VideoInv, JobInv, WorkInv, Alive, Before, After, Queued, InProgress, Ended
  <2>4. QED
    BY <2>2, <2>3 DEF JobInv
<1>7. QED
  BY <1>2, <1>3, <1>4, <1>5, <1>6 DEF VideoInv

(* shutdown() begins to wait; it cancels who is left; it returns.          *)
LEMMA ShutdownStep ==
  ASSUME VideoInv, Shutdown
  PROVE  VideoInv'
<1>1. /\ RequestsIdle /\ shutdown' # "no" /\ Pool!BeginShutdown /\ server = "up"
      /\ UNCHANGED <<row, lock, stage, create, phase, causes, lost, delete, target, told,
                     server, state, reserved, cancelled>>
      /\ UNCHANGED <<dbVars, deleteVars>>
  BY DEF Shutdown, Pool!BeginShutdown, dbVars, runnerVars, deleteVars
<1>2. RunnerTypes' /\ LockTypes' /\ ServerInv'
  BY <1>1 DEF VideoInv, Types, RunnerTypes, LockTypes, ServerInv, RequestsIdle
<1>3. ASSUME NEW i \in Jobs PROVE CancelInv(i)' /\ OwnedInv(i)'
  <2>1. Marked(i)' <=> Marked(i)
    BY <1>1, SameMark
  <2>2. QED
    BY <1>1, <2>1 DEF VideoInv, JobInv, CancelInv, OwnedInv, Alive
<1>4. \A i \in cancelled' : Alive(i)
  <2>1. cancelled \subseteq Jobs
    BY PoolTyped DEF VideoInv, PoolTypes
  <2>2. QED
    BY <1>1, <2>1 DEF VideoInv, JobInv, TaskInv
<1>5. QED
  BY <1>1, <1>2, <1>3, <1>4, ProcessMoves DEF PoolUse

LEMMA CancelStragglersStep ==
  ASSUME VideoInv, CancelStragglers
  PROVE  VideoInv'
<1>1. /\ shutdown # "no" /\ shutdown' # "no" /\ Pool!DrainTimeout
      /\ cancelled' = Pool!Live
      /\ causes' = [j \in Jobs |-> IF j \in Pool!Live THEN causes[j] \cup {"cancel"}
                                                     ELSE causes[j]]
      /\ UNCHANGED <<row, lock, stage, create, phase, lost, delete, target, told,
                     server, state, reserved>>
      /\ UNCHANGED <<dbVars, deleteVars>>
  BY DEF CancelStragglers, Pool!DrainTimeout, dbVars, deleteVars
<1>2. LockTypes' /\ ServerInv'
  BY <1>1 DEF VideoInv, Types, LockTypes, ServerInv, RequestsIdle, Alive
<1>3. RunnerTypes'
  BY <1>1 DEF VideoInv, Types, RunnerTypes
<1>4. /\ \A i \in cancelled' : Alive(i)
      /\ cancelled \subseteq cancelled'
  <2>1. cancelled \subseteq Jobs
    BY PoolTyped DEF VideoInv, PoolTypes
  <2>2. \A i \in cancelled : Alive(i)
    BY <2>1 DEF VideoInv, JobInv, TaskInv
  <2>3. Pool!Live = {i \in Jobs : Alive(i)}
    BY DEF Pool!Live, Alive
  <2>4. QED
    BY <1>1, <2>1, <2>2, <2>3
<1>5. ASSUME NEW i \in Jobs PROVE CancelInv(i)' /\ OwnedInv(i)'
  <2>1. Alive(i)' => "cancel" \in causes'[i] /\ i \in cancelled'
    BY <1>1, AliveFacts DEF Alive
  <2>2. CancelInv(i)'
    BY <1>1, <2>1 DEF CancelInv
  <2>3. OwnedInv(i)'
    BY <1>1 DEF OwnedInv
  <2>4. QED
    BY <2>2, <2>3
<1>6. QED
  BY <1>1, <1>2, <1>3, <1>4, <1>5, ProcessMoves DEF PoolUse

LEMMA StopStep ==
  ASSUME VideoInv, Stop
  PROVE  VideoInv'
<1>1. /\ shutdown # "no" /\ shutdown' # "no" /\ Pool!EndShutdown /\ server' = "stopped"
      /\ Pool!Live = {}
      /\ UNCHANGED <<row, lock, stage, create, phase, causes, lost, delete, target, told,
                     state, reserved, cancelled>>
      /\ UNCHANGED <<dbVars, deleteVars>>
  BY DEF Stop, Pool!EndShutdown, dbVars, runnerVars, deleteVars
<1>2. RunnerTypes' /\ LockTypes'
  BY <1>1 DEF VideoInv, Types, RunnerTypes, LockTypes
<1>3. \A i \in Jobs : ~ Alive(i)
  BY <1>1 DEF Pool!Live, Alive
<1>4. ServerInv'
  <2>1. RequestsIdle
    BY <1>1 DEF VideoInv, ServerInv
  <2>2. lock = None
    BY <1>3, <2>1, NoHolder
  <2>3. QED
    BY <1>1, <1>3, <2>1, <2>2 DEF ServerInv, RequestsIdle, Alive
<1>5. ASSUME NEW i \in Jobs PROVE CancelInv(i)' /\ OwnedInv(i)'
  BY <1>1, <1>3 DEF CancelInv, OwnedInv, Alive
<1>6. \A i \in cancelled' : Alive(i)
  <2>1. cancelled \subseteq Jobs
    BY PoolTyped DEF VideoInv, PoolTypes
  <2>2. QED
    BY <1>1, <2>1 DEF VideoInv, JobInv, TaskInv
<1>7. QED
  BY <1>1, <1>2, <1>4, <1>5, <1>6, ProcessMoves DEF PoolUse

(* No POST is under way, and none holds a reservation.                     *)
LEMMA NoneReserved ==
  ASSUME \A j \in Jobs : ~ InFlight(j)', reserved' = 0
  PROVE  ReservedInv'
<1>1. {j \in Jobs : InFlight(j)'} = {}
  OBVIOUS
<1>2. Cardinality({j \in Jobs : InFlight(j)'}) = 0
  BY <1>1, FS_EmptySet
<1>3. QED
  BY <1>2 DEF ReservedInv, InFlight

(* The process dies.                                                       *)
LEMMA CrashStep ==
  ASSUME VideoInv, Crash
  PROVE  VideoInv'
<1>1. /\ server' = "crashed" /\ lock' = None /\ stage' = "taken"
      /\ \A j \in Jobs : create'[j] = IF InFlight(j) THEN "failed" ELSE create[j]
      /\ \A j \in Jobs : phase'[j] = IF Alive(j) THEN "ended" ELSE phase[j]
      /\ \A j \in Jobs : state'[j] = IF Alive(j) THEN "finished" ELSE state[j]
      /\ \A d \in Deletes :
           delete'[d] = IF delete[d] \in {"mark", "refresh"} THEN "failed" ELSE delete[d]
      /\ Pool!NewPool /\ reserved' = 0 /\ cancelled' = {} /\ shutdown' = "no"
      /\ UNCHANGED <<row, causes, lost, target, told>>
  BY DEF Crash, ReleaseLock, Pool!NewPool, Pool!Live, Alive, InFlight
<1>2. PoolP!PoolInv'
  BY <1>1, PoolUsed DEF PoolUse, VideoInv
<1>3. RowTypes' /\ LockTypes'
  BY <1>1 DEF VideoInv, Types, RowTypes, LockTypes
<1>4. RequestTypes'
  BY <1>1 DEF VideoInv, Types, RequestTypes, Crash
<1>5. RunnerTypes'
  BY <1>1 DEF VideoInv, Types, RunnerTypes, Crash
<1>6. LockInv'
  BY <1>1, Names DEF LockInv
<1>7. \A j \in Jobs : ~ Alive(j)' /\ ~ InFlight(j)'
  BY <1>1 DEF Alive, InFlight
<1>8. ServerInv'
  <2>1. \A d \in Deletes : delete'[d] \notin {"mark", "refresh"}
    BY <1>1
  <2>2. RequestsIdle'
    BY <1>7, <2>1 DEF RequestsIdle, InFlight
  <2>3. QED
    BY <1>1, <1>7, <2>2 DEF ServerInv
<1>9. ReservedInv'
  BY <1>1, <1>7, NoneReserved
<1>10. ASSUME NEW j \in Jobs PROVE JobInv(j)'
  <2>1. PoolTypes /\ state[j] \in {"none", "waiting", "running", "finished"}
    BY AliveFacts DEF PoolTypes
  <2>2. TaskInv(j)'
    BY <1>1, <1>7, <2>1 DEF VideoInv, JobInv, TaskInv, Alive, InFlight
  <2>3. PostInv(j)'
    BY <1>1, <1>7 DEF VideoInv, JobInv, PostInv, InFlight
  <2>4. WorkInv(j)' /\ CancelInv(j)' /\ OwnedInv(j)'
    BY <1>1, <1>7, Names DEF WorkInv, CancelInv, OwnedInv, Alive
  <2>5. QED
    BY <2>2, <2>3, <2>4 DEF JobInv
<1>11. ASSUME NEW d \in Deletes PROVE DeleteInv(d)'
  <2>1. delete'[d] # "refresh" /\ (delete'[d] # "none" => delete[d] # "none")
    BY <1>1
  <2>2. delete[d] # "none" => target[d] \in Jobs /\ create[target[d]] = "done"
    BY DEF VideoInv, DeleteInv
  <2>3. QED
    BY <1>1, <2>1, <2>2, Names DEF DeleteInv, InFlight
<1>12. QED
  BY <1>2, <1>3, <1>4, <1>5, <1>6, <1>8, <1>9, <1>10, <1>11 DEF VideoInv, Types

(* It starts again, and fails what it finds active.                        *)
LEMMA StartStep ==
  ASSUME VideoInv, Start
  PROVE  VideoInv'
<1>1. /\ server # "up" /\ server' = "up" /\ row' = StaleFailed
      /\ Pool!NewPool /\ reserved' = 0 /\ cancelled' = {} /\ shutdown' = "no"
      /\ lost' = {} /\ UNCHANGED <<lock, stage, create, phase, causes, delete, target, told>>
  BY DEF Start, Pool!NewPool, runnerVars, deleteVars
<1>2. lock = None /\ RequestsIdle /\ \A j \in Jobs : ~ Alive(j) /\ ~ InFlight(j)
  BY <1>1 DEF VideoInv, ServerInv, RequestsIdle, InFlight
<1>3. \A j \in Jobs : state'[j] = state[j]
  BY <1>1, <1>2 DEF Pool!NewPool, Pool!Live, Alive
<1>4. \A j \in Jobs : ~ Alive(j)' /\ ~ InFlight(j)'
  BY <1>1, <1>2, <1>3 DEF Alive, InFlight
<1>5. /\ RowTypes'
      /\ \A j \in Jobs : \/ row[j].status \in Active /\ row'[j].status = "failed"
                         \/ row[j].status \notin Active /\ row'[j] = row[j]
  BY <1>1 DEF VideoInv, Types, RowTypes, RowType, StaleFailed, Terminal, Reasons
<1>6. PoolP!PoolInv'
  BY <1>1, PoolUsed DEF PoolUse, VideoInv
<1>7. RequestTypes' /\ RunnerTypes' /\ LockTypes'
  BY <1>1 DEF VideoInv, Types, RequestTypes, RunnerTypes, LockTypes
<1>8. LockInv' /\ ServerInv'
  BY <1>1, <1>2, Names DEF VideoInv, LockInv, ServerInv
<1>9. ReservedInv'
  BY <1>1, <1>4, NoneReserved
<1>10. ASSUME NEW j \in Jobs PROVE JobInv(j)'
  <2>1. TaskInv(j)'
    BY <1>1, <1>2, <1>3, <1>4 DEF VideoInv, JobInv, TaskInv
  <2>2. PostInv(j)'
    BY <1>1, <1>2, <1>5, Names DEF VideoInv, JobInv, PostInv, InFlight, Absent, Active
  <2>3. WorkInv(j)' /\ CancelInv(j)'
    BY <1>1, <1>2, <1>4, Names DEF WorkInv, CancelInv, Alive
  <2>4. OwnedInv(j)'
    BY <1>5 DEF OwnedInv, Active
  <2>5. QED
    BY <2>1, <2>2, <2>3, <2>4 DEF JobInv
<1>11. ASSUME NEW d \in Deletes PROVE DeleteInv(d)'
  <2>1. delete[d] # "none" => target[d] \in Jobs /\ create[target[d]] = "done"
    BY DEF VideoInv, DeleteInv
  <2>2. delete[d] # "refresh" /\ lock # Deleter(d)
    BY <1>2, Names DEF RequestsIdle
  <2>3. QED
    BY <1>1, <2>1, <2>2 DEF DeleteInv
<1>12. QED
  BY <1>5, <1>6, <1>7, <1>8, <1>9, <1>10, <1>11 DEF VideoInv, Types

-----------------------------------------------------------------------------
(* Together.                                                               *)

LEMMA InitVideo == Init => VideoInv
<1> SUFFICES ASSUME Init PROVE VideoInv
  OBVIOUS
<1>1. /\ row = [j \in Jobs |-> Absent] /\ create = [j \in Jobs |-> "none"]
      /\ phase = [j \in Jobs |-> "none"] /\ causes = [j \in Jobs |-> {}]
      /\ delete = [d \in Deletes |-> "none"] /\ target = [d \in Deletes |-> None]
      /\ told = [d \in Deletes |-> "none"]
      /\ lock = None /\ stage = "taken" /\ lost = {} /\ server = "up"
      /\ state = [j \in Jobs |-> "none"] /\ reserved = 0 /\ cancelled = {} /\ shutdown = "no"
  BY DEF Init, Pool!Init
<1>2. PoolP!PoolInv
  BY PoolAssumed, SamePool, PoolP!InitPool DEF Init
<1>3. RowTypes /\ RequestTypes /\ RunnerTypes /\ LockTypes
  BY <1>1 DEF RowTypes, RowType, RequestTypes, RunnerTypes, LockTypes, Absent
<1>4. LockInv /\ ServerInv
  BY <1>1, Names DEF LockInv, ServerInv
<1>5. ReservedInv
  <2>1. {j \in Jobs : InFlight(j)} = {}
    BY <1>1 DEF InFlight
  <2>2. QED
    BY <1>1, <2>1, FS_EmptySet DEF ReservedInv
<1>6. ASSUME NEW j \in Jobs PROVE JobInv(j)
  <2>1. TaskInv(j) /\ PostInv(j)
    BY <1>1 DEF TaskInv, PostInv, Absent
  <2>2. WorkInv(j) /\ CancelInv(j) /\ OwnedInv(j)
    BY <1>1, Names DEF WorkInv, CancelInv, OwnedInv, Alive, Absent, Active
  <2>3. QED
    BY <2>1, <2>2 DEF JobInv
<1>7. ASSUME NEW d \in Deletes PROVE DeleteInv(d)
  BY <1>1, Names DEF DeleteInv
<1>8. QED
  BY <1>2, <1>3, <1>4, <1>5, <1>6, <1>7 DEF VideoInv, Types

(* Whoever holds the lock.                                                 *)
LEMMA LockSteps ==
  ASSUME VideoInv, (\E a \in Writers : TakeLock(a)) \/ Execute \/ Commit
  PROVE  VideoInv'
<1>1. PICK a \in Writers : TakeLock(a) \/ (lock = a /\ (Execute \/ Commit))
  <2>1. lock \in Writers \cup {None}
    BY DEF VideoInv, Types, LockTypes
  <2>2. QED
    BY <2>1 DEF Execute, Commit
<1>2. ASSUME NEW j \in Jobs, a = Runner(j) PROVE VideoInv'
  BY <1>1, <1>2, RunnerTakes, RunnerExecutes, RunnerCommits
<1>3. ASSUME NEW j \in Jobs, a = Creator(j) PROVE VideoInv'
  BY <1>1, <1>3, PostWrites
<1>4. ASSUME NEW d \in Deletes, a = Deleter(d) PROVE VideoInv'
  BY <1>1, <1>4, DeleteTakes, DeleteCommits
<1>5. QED
  BY <1>2, <1>3, <1>4, WriterCases

LEMMA Stutter ==
  ASSUME VideoInv, UNCHANGED vars
  PROVE  VideoInv'
<1>1. /\ UNCHANGED <<row, lock, stage, create, phase, causes, lost, delete, target, told,
                     server, state, permits, waiting, reserved, cancelled, shutdown>>
      /\ UNCHANGED <<dbVars, deleteVars>> /\ UNCHANGED poolVars
  BY DEF vars, dbVars, runnerVars, deleteVars, poolVars
<1>2. RunnerTypes' /\ LockTypes' /\ ServerInv'
  BY <1>1 DEF VideoInv, Types, RunnerTypes, LockTypes, ServerInv, RequestsIdle, Alive
<1>3. ASSUME NEW i \in Jobs PROVE CancelInv(i)' /\ OwnedInv(i)'
  <2>1. Marked(i)' <=> Marked(i)
    BY <1>1, SameMark
  <2>2. QED
    BY <1>1, <2>1 DEF VideoInv, JobInv, CancelInv, OwnedInv, Alive, Ended
<1>4. \A i \in cancelled' : Alive(i)
  <2>1. cancelled \subseteq Jobs
    BY PoolTyped DEF VideoInv, PoolTypes
  <2>2. QED
    BY <1>1, <2>1 DEF VideoInv, JobInv, TaskInv
<1>5. QED
  BY <1>1, <1>2, <1>3, <1>4, ProcessMoves DEF PoolUse

LEMMA VideoStep == VideoInv /\ [Next]_vars => VideoInv'
<1> SUFFICES ASSUME VideoInv, [Next]_vars PROVE VideoInv'
  OBVIOUS
<1>1. CASE (\E a \in Writers : TakeLock(a)) \/ Execute \/ Commit
  BY <1>1, LockSteps
<1>2. ASSUME NEW j \in Jobs, CreateReserve(j) \/ CreateRejected(j) \/ CreateStep(j) \/ CreateFails(j)
      PROVE  VideoInv'
  BY <1>2, CreateFirstSteps, CreateInsertedStep, CreateSubmitStep, CreateFailsStep
     DEF CreateStep
<1>3. ASSUME NEW j \in Jobs, RunnerStep(j)
      PROVE  VideoInv'
  BY <1>3, BeginStep, CancelQueuedStep, RunnerWroteStep, UnwoundStep, InterruptedStep
     DEF RunnerStep
<1>4. ASSUME NEW j \in Jobs, RunnerWriteFails(j) \/ Render(j) \/ Deadline(j) \/ Backstop(j)
      PROVE  VideoInv'
  BY <1>4, RunnerWriteFailsStep, RenderStep, DeadlineStep
<1>5. ASSUME NEW d \in Deletes, DeleteRead(d) \/ DeleteStep(d) \/ DeleteFails(d)
      PROVE  VideoInv'
  BY <1>5, DeleteReadStep, DeleteMarkedStep, DeleteLastSteps DEF DeleteStep
<1>6. CASE Shutdown \/ CancelStragglers \/ Stop \/ Crash \/ Start
  BY <1>6, ShutdownStep, CancelStragglersStep, StopStep, CrashStep, StartStep
<1>7. CASE UNCHANGED vars
  BY <1>7, Stutter
<1>8. QED
  BY <1>1, <1>2, <1>3, <1>4, <1>5, <1>6, <1>7 DEF Next

(* Whatever the clients, the runners, the timers and the operator do, and  *)
(* whenever the process dies, the invariant holds.                         *)
THEOREM VideoCorrect == Spec => []VideoInv
  BY InitVideo, VideoStep, PTL DEF Spec

(* The types.                                                              *)
THEOREM TypeCorrect == Spec => []TypeOK
<1>1. VideoInv => TypeOK
  <2>1. PoolP!PoolInv => Pool!TypeOK
    BY SamePool DEF PoolP!PoolInv
  <2>2. QED
    BY <2>1 DEF VideoInv, Types, RowTypes, RowType, RequestTypes, RunnerTypes, LockTypes, TypeOK
<1>2. QED
  BY <1>1, VideoCorrect, PTL

(* While the process serves, an active row has somebody to settle it, but  *)
(* for those that GiveUp names.                                            *)
THEOREM ActiveOwned == Spec => []ActiveIsOwned
<1>1. VideoInv => ActiveIsOwned
  <2> SUFFICES ASSUME VideoInv, server = "up", shutdown = "no",
                      NEW j \in Jobs, row[j].status \in Active
               PROVE  j \in Pool!Live \/ create[j] = "fetch" \/ lock = Creator(j) \/ j \in lost
    BY DEF ActiveIsOwned
  <2>1. QED
    BY AliveFacts DEF VideoInv, JobInv, OwnedInv
<1>2. QED
  BY <1>1, VideoCorrect, PTL

(* Once a DELETE has marked its job and gone on, the task is on its way    *)
(* out.                                                                    *)
THEOREM DeletedStops == Spec => []DeletedStopsRendering
<1>1. VideoInv => DeletedStopsRendering
  <2> SUFFICES ASSUME VideoInv, NEW j \in Jobs, row[j].error = "user",
                      \A d \in Deletes : lock # Deleter(d)
               PROVE  \/ j \notin Pool!Live
                      \/ j \in cancelled
                      \/ phase[j] \in {"unwinding", "cancelling"} /\ causes[j] # {"timeout"}
    BY DEF DeletedStopsRendering
  <2>1. ~ Marked(j)
    BY DEF Marked
  <2>2. Alive(j) <=> j \in Pool!Live
    BY AliveFacts
  <2>3. QED
    BY <2>1, <2>2 DEF VideoInv, JobInv, CancelInv
<1>2. QED
  BY <1>1, VideoCorrect, PTL

(* Past its mark, a DELETE finds a row that has ended.                     *)
THEOREM MarkIsFinal == Spec => []MarkedIsFinal
<1>1. VideoInv => MarkedIsFinal
  BY DEF VideoInv, DeleteInv, Ended, MarkedIsFinal
<1>2. QED
  BY <1>1, VideoCorrect, PTL

(* No more renders than permits, and no more uploads held than the         *)
(* capacity.                                                               *)
THEOREM LoadIsBounded == Spec => []BoundedLoad
<1>1. VideoInv => BoundedLoad
  <2> SUFFICES ASSUME VideoInv PROVE BoundedLoad
    OBVIOUS
  <2> DEFINE Posts == {j \in Jobs : InFlight(j)}
             Tasks == {j \in Jobs : Alive(j)}
             Renders == {j \in Jobs : state[j] = "running"}
  <2>1. /\ IsFiniteSet(Posts) /\ Cardinality(Posts) \in Nat
        /\ IsFiniteSet(Tasks) /\ Cardinality(Tasks) \in Nat
        /\ IsFiniteSet(Renders) /\ Cardinality(Renders) \in Nat
    <3>1. Posts \in SUBSET Jobs /\ Tasks \in SUBSET Jobs /\ Renders \in SUBSET Jobs
      OBVIOUS
    <3>2. QED
      BY <3>1, VideoAssumption, FS_Subset, FS_CardinalityType
  <2>2. /\ PoolP!Running = Renders /\ PoolP!Live = Tasks
        /\ Pool!Live = Tasks
    BY DEF PoolP!Running, PoolP!Live, Pool!Live, Alive
  <2>3. /\ {j \in Jobs : phase[j] \notin {"none", "ended"}} = Renders
        /\ {j \in Jobs : create[j] \in {"read", "insert", "fetch"} \/ j \in Pool!Live}
             = Posts \cup Tasks
    BY AliveFacts DEF InFlight
  <2> HIDE DEF Posts, Tasks, Renders
  <2>4. /\ permits \in 0 .. MaxConcurrent
        /\ permits + Cardinality(Renders) = MaxConcurrent
        /\ Cardinality(Tasks) + reserved <= Capacity
    BY <2>2, SameSize
       DEF VideoInv, PoolP!PoolInv, PoolP!TypeOK, PoolP!PermitsConserved,
           PoolP!WithinCapacity, PoolP!InFlight
  <2>5. reserved = Cardinality(Posts)
    BY DEF VideoInv, ReservedInv, Posts
  <2>6. Cardinality(Posts \cup Tasks) <= Cardinality(Posts) + Cardinality(Tasks)
    <3>1. /\ Cardinality(Posts \cup Tasks) =
               Cardinality(Posts) + Cardinality(Tasks) - Cardinality(Posts \cap Tasks)
          /\ IsFiniteSet(Posts \cap Tasks)
      BY <2>1, FS_Union, FS_Intersection
    <3>2. Cardinality(Posts \cap Tasks) \in Nat
      BY <3>1, FS_CardinalityType
    <3>3. QED
      BY <2>1, <3>1, <3>2
  <2>7. Cardinality(Posts \cup Tasks) \in Nat
    BY <2>1, FS_Union, FS_CardinalityType
  <2>8. Cardinality(Renders) <= MaxConcurrent
    BY <2>1, <2>4, VideoAssumption
  <2>9. Cardinality(Posts \cup Tasks) <= Capacity
    BY <2>1, <2>4, <2>5, <2>6, <2>7, VideoAssumption
  <2>10. QED
    BY <2>3, <2>8, <2>9 DEF BoundedLoad
<1>2. QED
  BY <1>1, VideoCorrect, PTL

-----------------------------------------------------------------------------
(* The abstract specification: a row is queued, begins, and ends once.     *)

(* j's runner, whichever write it commits, takes a step of its row's life. *)
LEMMA RunnerWriteIsLife ==
  ASSUME VideoInv, NEW j \in Jobs, lock = Runner(j), stage = "open",
         row' = Written(lock)
  PROVE  [Lifecycle!Next]_row
<1>1. /\ row \in RowType /\ row' = WrittenByRunner(j) /\ row' \in RowType
      /\ phase[j] \in WritePhases /\ Before(j) /\ row[j].status # "absent"
      /\ row[j].status # "failed" => row[j].error = "none"
      /\ \A i \in Jobs \ {j} : row'[i] = row[i]
  <2>1. /\ row \in RowType /\ row' = WrittenByRunner(j)
        /\ phase[j] \in WritePhases /\ Before(j) /\ row[j].status # "absent"
        /\ row[j].status # "failed" => row[j].error = "none"
    BY WrittenFacts, AliveFacts DEF VideoInv, Types, RowTypes, JobInv, WorkInv
  <2>2. QED
    BY <2>1, RunnerRow DEF RowTypes
<1>2. ASSUME NEW s, NEW e, row'[j] = [status |-> s, error |-> e]
      PROVE  Lifecycle!Becomes(j, s, e)
  BY <1>1, <1>2 DEF Lifecycle!Becomes, RowType
<1>3. CASE phase[j] = "mark"
  <2>1. row'[j] = [status |-> "in_progress", error |-> "none"] /\ row[j].status = "queued"
    BY <1>1, <1>3, RunnerRow DEF Before, Queued, RowTypes
  <2>2. QED
    BY <1>2, <2>1 DEF Lifecycle!Next, Lifecycle!Begin
<1>4. CASE phase[j] \in {"persist", "store"}
  BY <1>1, <1>4, RunnerRow DEF RowTypes
<1>5. CASE phase[j] = "finish"
  <2>1. row'[j] = [status |-> "completed", error |-> "none"] /\ row[j].status = "in_progress"
    BY <1>1, <1>5, RunnerRow DEF Before, InProgress, RowTypes
  <2>2. QED
    BY <1>2, <2>1 DEF Lifecycle!Next, Lifecycle!Complete
<1>6. CASE phase[j] \in Handlers
  <2>1. \/ row' = row
        \/ \E why \in Reasons : /\ row'[j] = [status |-> "failed", error |-> why]
                                /\ row[j].status \in Active
    <3>1. CASE phase[j] = "failing"
      BY <1>1, <3>1, RunnerRow DEF Before, Reasons, RowTypes
    <3>2. CASE phase[j] = "timing_out"
      BY <1>1, <3>2, RunnerRow DEF Reasons, RowTypes
    <3>3. CASE phase[j] = "cancelling"
      BY <1>1, <3>3, RunnerRow DEF Reasons, RowTypes
    <3>4. QED
      BY <1>6, <3>1, <3>2, <3>3 DEF Handlers
  <2>2. QED
    BY <1>2, <2>1 DEF Lifecycle!Next, Lifecycle!Fail, Lifecycle!Active, Active
<1>7. QED
  BY <1>1, <1>3, <1>4, <1>5, <1>6 DEF WritePhases, Handlers

(* So does every other commit.                                             *)
LEMMA CommitIsLife ==
  ASSUME VideoInv, Commit
  PROVE  [Lifecycle!Next]_row
<1>1. lock \in Writers /\ stage = "open" /\ row' = Written(lock) /\ row \in RowType
  BY DEF Commit, VideoInv, Types, LockTypes, RowTypes
<1>2. ASSUME NEW j \in Jobs, lock = Runner(j) PROVE [Lifecycle!Next]_row
  BY <1>1, <1>2, RunnerWriteIsLife
<1>3. ASSUME NEW j \in Jobs, lock = Creator(j) PROVE [Lifecycle!Next]_row
  <2>1. row[j] = Absent /\ row' = Inserted(j)
    BY <1>1, <1>3, WrittenFacts DEF VideoInv, LockInv, JobInv, PostInv
  <2>2. Lifecycle!Queue(j)
    BY <2>1 DEF Lifecycle!Queue, Lifecycle!Becomes, Lifecycle!Absent, Absent, Inserted
  <2>3. QED
    BY <2>2 DEF Lifecycle!Next
<1>4. ASSUME NEW d \in Deletes, lock = Deleter(d) PROVE [Lifecycle!Next]_row
  <2>1. row' = FailedIfActive(target[d], "user") /\ target[d] \in Jobs
    BY <1>1, <1>4, WrittenFacts, DeleteFacts DEF WrittenByDelete
  <2>2. row' = row \/ Lifecycle!Fail(target[d], "user")
    BY <2>1 DEF FailedIfActive, WithFailure, Lifecycle!Fail, Lifecycle!Becomes,
                Lifecycle!Active, Active
  <2>3. QED
    BY <2>1, <2>2 DEF Lifecycle!Next, Reasons
<1>5. QED
  BY <1>1, <1>2, <1>3, <1>4, WriterCases

LEMMA StepIsLife == VideoInv /\ [Next]_vars => [Lifecycle!Next]_row
<1> SUFFICES ASSUME VideoInv, [Next]_vars PROVE [Lifecycle!Next]_row
  OBVIOUS
<1>1. CASE Commit
  BY <1>1, CommitIsLife
<1>2. ASSUME NEW j \in Jobs, Interrupted(j) PROVE [Lifecycle!Next]_row
  BY <1>2, RunnerWriteIsLife DEF Interrupted, dbVars
<1>3. CASE Start
  <2>1. Lifecycle!Reap("restart")
    BY <1>3 DEF Start, StaleFailed, Lifecycle!Reap, Lifecycle!Active, Active
  <2>2. QED
    BY <2>1 DEF Lifecycle!Next, Reasons
<1>4. CASE \/ \E a \in Writers : TakeLock(a)
           \/ Execute \/ Shutdown \/ CancelStragglers \/ Stop \/ Crash
  BY <1>4 DEF TakeLock, Execute, Shutdown, CancelStragglers, Stop, Crash, dbVars
<1>5. ASSUME NEW j \in Jobs,
             \/ CreateReserve(j) \/ CreateRejected(j) \/ CreateStep(j) \/ CreateFails(j)
      PROVE  row' = row
  BY <1>5 DEF CreateReserve, CreateRejected, CreateStep, CreateRead, CreateInserted,
              CreateSubmit, CreateFails, Succeeds, Fails, dbVars
<1>6. ASSUME NEW j \in Jobs,
             \/ Begin(j) \/ CancelQueued(j) \/ RunnerWrote(j) \/ Unwound(j)
             \/ RunnerWriteFails(j) \/ Render(j) \/ Deadline(j) \/ Backstop(j)
      PROVE  row' = row
  BY <1>6 DEF Begin, CancelQueued, RunnerWrote, Unwound, RunnerWriteFails, Render,
              Deadline, Backstop, Succeeds, Fails, dbVars
<1>7. ASSUME NEW d \in Deletes, DeleteRead(d) \/ DeleteStep(d) \/ DeleteFails(d)
      PROVE  row' = row
  BY <1>7 DEF DeleteRead, DeleteStep, DeleteMarked, DeleteRefreshed, DeleteFails,
              Succeeds, Fails, dbVars
<1>8. CASE UNCHANGED vars
  BY <1>8 DEF vars, dbVars
<1>9. QED
  BY <1>1, <1>2, <1>3, <1>4, <1>5, <1>6, <1>7, <1>8 DEF Next, RunnerStep

(* Every row lives as JobLifecycle says.                                   *)
THEOREM Implements == Spec => ImplementsJobLifecycle
<1>1. Init => Lifecycle!Init
  BY DEF Init, Lifecycle!Init, Lifecycle!Absent, Absent
<1>2. QED
  BY <1>1, VideoCorrect, StepIsLife, PTL DEF Spec, ImplementsJobLifecycle, Lifecycle!Spec

=============================================================================
